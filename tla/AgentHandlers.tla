---------------------------- MODULE AgentHandlers ----------------------------
(***************************************************************************)
(* The operations of ReferenceDeviceAgent                                  *)
(* (crates/reference-device-agent-core/src/agent.rs) as functions from the *)
(* state before the call to an Effect: the state after it and the Ok or    *)
(* Err value the caller sees.  A handler builds a candidate, validates it, *)
(* persists it with one atomic rename and only then replaces its memory,   *)
(* so a handler either takes its whole effect or none; the one durable     *)
(* write before that rename, the installation of a credential revision,   *)
(* is a step of its own in DeviceAgent.                                    *)
(***************************************************************************)
EXTENDS StateV1

CONSTANTS
  Commands,     \* decodable commands, one name per distinct content
  CommandData,  \* what each of them says
  Malformed,    \* payloads that do not decode
  CommandIds,   \* command ids, in a command and in the broker's assertion
  Digests,      \* artifact digests
  Retention     \* command_retention_seconds, the MQTT session expiry

CatalogErrors ==
  {"NotFound", "Unavailable", "DigestMismatch", "BindingMismatch", "Revoked",
   "Untrusted", "IdentityMismatch", "MalformedCatalog", "CredentialUnavailable",
   "MalformedCredential", "InsecurePrivateKey"}

Rejections ==
  {"MalformedCommand", "PolicyRejected", "ArtifactUnavailable",
   "ArtifactDigestMismatch", "DeviceFailure", "FenceEpochStale",
   "GenerationStale"}

ASSUME CommandsAssumption ==
  /\ CommandData \in [Commands ->
        [id : CommandIds, addressed : BOOLEAN, deadline : Nat,
         generation : Nat, fence : Nat, digest : Digests,
         credential_generation : Nat]]
  /\ Retention \in Nat \ {0}
  /\ None \notin Rejections

-----------------------------------------------------------------------------
Effect(s, result) == [state |-> s, result |-> result]

\* Mutant: the candidate is not validated.
PersistUnverified(s, candidate, result) == Effect(candidate, result)

persist_candidate(s, candidate, result) ==
  IF verify(candidate) THEN Effect(candidate, result)
  ELSE Effect(s, "InvalidState")

\* SHA-256 over every field of the command, or over topic, id and raw payload.
command_fingerprint(c) == c
malformed_fingerprint(topic, id, payload) == <<topic, id, payload>>

retention_deadline(now) == now + Retention

\* Mutant: a revoked artifact is reported as a missing one.
CatalogRejectionUnavailable(error) ==
  CASE error \in {"NotFound", "Unavailable", "Revoked"} -> "ArtifactUnavailable"
    [] error = "DigestMismatch" -> "ArtifactDigestMismatch"
    [] OTHER -> "PolicyRejected"

catalog_rejection(error) ==
  CASE error \in {"NotFound", "Unavailable"} -> "ArtifactUnavailable"
    [] error = "DigestMismatch" -> "ArtifactDigestMismatch"
    [] error \in {"BindingMismatch", "Revoked", "Untrusted", "IdentityMismatch"}
          -> "PolicyRejected"
    [] error = "MalformedCatalog" -> "MalformedCommand"
    [] error \in {"CredentialUnavailable", "MalformedCredential",
                  "InsecurePrivateKey"} -> "DeviceFailure"

-----------------------------------------------------------------------------
(* The branches the two delivery handlers share. *)

ExactReplay(s, id, fingerprint) ==
  IF has_command_ack(s, id) THEN Effect(s, "Duplicate")
  ELSE IF ~reserve_outbox(s, 1) THEN Effect(s, "OutboxFull")
  ELSE persist_candidate(s, replay_command(s, id, fingerprint), "Duplicate")

ConflictingReplay(s, id, fingerprint) ==
  IF has_conflicting_replay(s, id, fingerprint)
  THEN Effect(s, "MalformedCommand")
  ELSE IF ~reserve_outbox(s, 1) THEN Effect(s, "OutboxFull")
  ELSE persist_candidate(s, reject_conflicting_replay(s, id, fingerprint),
                         "MalformedCommand")

\* persist_rejection and persist_raw_rejection.
PersistRejection(s, id, fingerprint, rejection, now) ==
  LET kept == expire_command_journal(s, now)
  IN IF ~reserve_outbox(kept, 1) THEN Effect(s, "OutboxFull")
     ELSE IF ~reserve_command_journal(kept)
          THEN Effect(s, "CommandJournalFull")
     ELSE persist_candidate(s, reject(kept, id, fingerprint, rejection,
                                      retention_deadline(now)), rejection)

-----------------------------------------------------------------------------
(* apply_command.  resolved is what the catalog answers for the command:   *)
(* "Resolved", or one of CatalogErrors.                                    *)

\* Mutant: the fence epoch is not compared.
RejectionWithoutFence(s, topic, c, resolved, now) ==
  LET cmd == CommandData[c]
  IN IF topic # s.credential_generation \/ ~cmd.addressed
     THEN "MalformedCommand"
     ELSE IF cmd.deadline <= now THEN "PolicyRejected"
     ELSE IF resolved # "Resolved" THEN catalog_rejection(resolved)
     ELSE IF cmd.generation < s.current.generation THEN "GenerationStale"
     ELSE IF \/ cmd.generation = s.current.generation
             \/ cmd.credential_generation <= s.credential_generation
     THEN "MalformedCommand"
     ELSE None

\* The checks of a command that is not in the journal, in the code's order;
\* None when the command is to be committed.
Rejection(s, topic, c, resolved, now) ==
  LET cmd == CommandData[c]
  IN IF topic # s.credential_generation \/ ~cmd.addressed
     THEN "MalformedCommand"
     ELSE IF cmd.deadline <= now THEN "PolicyRejected"
     ELSE IF resolved # "Resolved" THEN catalog_rejection(resolved)
     ELSE IF cmd.fence < s.current.fence THEN "FenceEpochStale"
     ELSE IF cmd.generation < s.current.generation THEN "GenerationStale"
     ELSE IF \/ cmd.generation = s.current.generation
             \/ cmd.credential_generation <= s.credential_generation
     THEN "MalformedCommand"
     ELSE None

\* apply_command reaches commit.
Commits(s, topic, c, resolved, now) ==
  /\ command_match(s, CommandData[c].id, command_fingerprint(c), now) = "unknown"
  /\ ~rotation_in_flight(s)
  /\ Rejection(s, topic, c, resolved, now) = None

CommitReserves(s, now) ==
  LET kept == expire_command_journal(s, now)
  IN reserve_outbox(kept, 2) /\ reserve_command_journal(kept)

\* Mutant: the new position keeps the digest of the old one.
NextPositionStaleDigest(s, c) ==
  [generation |-> CommandData[c].generation, fence |-> CommandData[c].fence,
   revision |-> next_revision(s), digest |-> s.current.digest]

NextPosition(s, c) ==
  [generation |-> CommandData[c].generation, fence |-> CommandData[c].fence,
   revision |-> next_revision(s), digest |-> CommandData[c].digest]

\* commit, after install_revision has returned.
Commit(s, c, now) ==
  persist_candidate(s,
    accept(expire_command_journal(s, now), CommandData[c].id,
           command_fingerprint(c), NextPosition(s, c),
           CommandData[c].credential_generation, retention_deadline(now)),
    "Accepted")

\* Every way apply_command ends short of install_revision.
ApplyWithoutCommit(s, topic, c, resolved, now) ==
  LET id == CommandData[c].id
      fingerprint == command_fingerprint(c)
      match == command_match(s, id, fingerprint, now)
  IN CASE match = "same" -> ExactReplay(s, id, fingerprint)
       [] match = "different" -> ConflictingReplay(s, id, fingerprint)
       [] match = "unknown" /\ rotation_in_flight(s) ->
             Effect(s, "RotationInFlight")
       [] Commits(s, topic, c, resolved, now) ->
             Effect(s, IF reserve_outbox(s, 2) THEN "CommandJournalFull"
                       ELSE "OutboxFull")
       [] OTHER ->
             PersistRejection(s, id, fingerprint,
                Rejection(s, topic, c, resolved, now), now)

-----------------------------------------------------------------------------
reject_malformed_delivery(s, topic, id, payload, now) ==
  LET fingerprint == malformed_fingerprint(topic, id, payload)
      match == command_match(s, id, fingerprint, now)
      inScope == \/ topic = s.credential_generation
                 \/ s.pending_inbound # None /\ s.pending_inbound.topic = topic
  IN CASE ~inScope -> Effect(s, "UnexpectedDelivery")
       [] inScope /\ match = "same" -> ExactReplay(s, id, fingerprint)
       [] inScope /\ match = "different" -> ConflictingReplay(s, id, fingerprint)
       [] inScope /\ match = "unknown" ->
             PersistRejection(s, id, fingerprint, "MalformedCommand", now)

-----------------------------------------------------------------------------
\* Mutant: a PUBACK is matched by command id, not by event id.
ConfirmByCommand(s, event) ==
  LET matching == {i \in DOMAIN s.outbox : s.outbox[i].command_id = event.cause}
      index == CHOOSE i \in matching : TRUE
  IN IF matching = {} \/ ~Confirmable(s, index)
     THEN Effect(s, "UnknownOutbound")
     ELSE persist_candidate(s, confirm_outbound(s, index), "Confirmed")

(* The broker's PUBACK for a published fact, named by its event id. *)
ConfirmOutbound(s, event) ==
  LET matching == {i \in DOMAIN s.outbox : s.outbox[i].event = event}
      index == CHOOSE i \in matching : TRUE
  IN IF matching = {} \/ ~Confirmable(s, index)
     THEN Effect(s, "UnknownOutbound")
     ELSE persist_candidate(s, confirm_outbound(s, index), "Confirmed")

mark_current_credential_connected(s, revision) ==
  IF s.reconnect_revision # revision THEN Effect(s, "UnexpectedReconnect")
  ELSE persist_candidate(s, mark_reconnected(s), "Connected")

\* token = None: the recovery unsubscribe completed without a redelivery.
persist_inbound_settlement(s, token) ==
  IF \/ s.pending_inbound = None
     \/ /\ token # None
        /\ token # SettlementToken(s.pending_inbound.topic,
                      s.pending_inbound.command_id,
                      s.pending_inbound.fingerprint)
  THEN Effect(s, "UnexpectedDelivery")
  ELSE persist_candidate(s, mark_inbound_settled(s), "Settled")

pending_inbound_settled(s) ==
  s.pending_inbound = None \/ s.pending_inbound.settled

command_intake_open(s, now) ==
  reserve_outbox(s, 2) /\ command_journal_has_capacity(s, now)

\* The token a delivery settles, if it is the pending one.  Only topic and
\* command id are compared.
pending_delivery_settlement_token(s, topic, id) ==
  IF /\ s.pending_inbound # None
     /\ s.pending_inbound.topic = topic
     /\ s.pending_inbound.command_id = id
  THEN SettlementToken(topic, id, s.pending_inbound.fingerprint)
  ELSE None

-----------------------------------------------------------------------------
(* Types. *)

\* What ArtifactCatalog::resolve may answer.
CatalogReplies == {"Resolved"} \union CatalogErrors

Fingerprints == Commands \union (Nat \X CommandIds \X Malformed)

Events ==
  [kind : {"ack", "report"}, cause : CommandIds]
    \union [kind : {"rejected"}, cause : CommandIds \X Fingerprints]

Positions == [generation : Nat, fence : Nat, revision : Nat, digest : Digests]

Acks ==
  [kind : {"Ack"}, event : Events, command_id : CommandIds, sequence : Nat,
   rejection : Rejections \union {None}, activates_revision : Nat \union {None},
   settled_replay : BOOLEAN]

Reports ==
  [kind : {"ReportBlocked", "ReportReady"}, event : Events,
   command_id : CommandIds, sequence : Nat, position : Positions]

StoredCommands ==
  [command_id : CommandIds, fingerprint : Fingerprints,
   acknowledgement : Acks, retain_until : Nat]

PendingInbound ==
  [topic : Nat, command_id : CommandIds, fingerprint : Fingerprints,
   settled : BOOLEAN]

States ==
  [credential_generation : Nat,
   current : Positions,
   device_sequence : Nat,
   command_journal : SUBSET StoredCommands,
   outbox : Seq(Acks \union Reports),
   reconnect_revision : Nat \union {None},
   pending_inbound : PendingInbound \union {None}]

\* Option::None is none of the values it is used beside.
ASSUME NoneAssumption ==
  None \notin States \union PendingInbound \union Commands

\* The queued facts stay in place, under the same event id and number.
SameFact(e, f) == e.event = f.event /\ e.sequence = f.sequence
KeepsFacts(before, after) ==
  /\ Len(before) <= Len(after)
  /\ \A i \in DOMAIN before : SameFact(before[i], after[i])

=============================================================================
