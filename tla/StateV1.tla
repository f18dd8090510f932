------------------------------- MODULE StateV1 -------------------------------
(***************************************************************************)
(* The durable state of the reference device agent and the operations on   *)
(* it: struct StateV1 of crates/reference-device-agent-core/src/state.rs.  *)
(* Everything here is a pure operator on a state record s; the modules     *)
(* that use it decide when the result is persisted.                        *)
(*                                                                         *)
(* Abstractions.  Tenant and device are fixed, so a command topic is       *)
(* determined by the credential generation in it and is represented by     *)
(* that number.  SHA-256 is injective: an event id is the pair (kind,      *)
(* cause) it hashes, a fingerprint is the hashed content, a settlement     *)
(* token is the triple it hashes.  Timestamps and expiry dates carried in  *)
(* facts, and the coordinates an ACK echoes, are left out.                 *)
(***************************************************************************)
EXTENDS Naturals, FiniteSets, SequencesExt

CONSTANTS
  OutboxLimit,   \* OUTBOX_LIMIT, 128 in the code
  JournalLimit,  \* COMMAND_JOURNAL_LIMIT, 1024 in the code
  SequenceMax,   \* u64::MAX, where device_sequence saturates
  None           \* Option::None

ASSUME LimitsAssumption ==
  /\ OutboxLimit \in Nat
  /\ JournalLimit \in Nat
  /\ SequenceMax \in Nat \ {0}
  /\ None \notin Nat

-----------------------------------------------------------------------------
(* Identifiers derived by hashing. *)

AckEvent(id) == [kind |-> "ack", cause |-> id]
ReportEvent(id) == [kind |-> "report", cause |-> id]
RejectedEvent(id, fingerprint) ==
  [kind |-> "rejected", cause |-> <<id, fingerprint>>]

SettlementToken(topic, id, fingerprint) == <<topic, id, fingerprint>>

-----------------------------------------------------------------------------
(* Entries of the outbox and of the command journal. *)

Ack(event, id, sequence, rejection, activates, replay) ==
  [kind |-> "Ack", event |-> event, command_id |-> id, sequence |-> sequence,
   rejection |-> rejection, activates_revision |-> activates,
   settled_replay |-> replay]

ReportBlocked(id, sequence, position) ==
  [kind |-> "ReportBlocked", event |-> ReportEvent(id), command_id |-> id,
   sequence |-> sequence, position |-> position]

StoredCommand(id, fingerprint, acknowledgement, retainUntil) ==
  [command_id |-> id, fingerprint |-> fingerprint,
   acknowledgement |-> acknowledgement, retain_until |-> retainUntil]

IsAck(e) == e.kind = "Ack"
IsReport(e) == e.kind \in {"ReportBlocked", "ReportReady"}
Activates(e) == IsAck(e) /\ e.activates_revision # None

\* An ACK is a rejection, an activating acceptance, or the replay of one.
AckSemanticValid(a) ==
  /\ a.sequence > 0
  /\ \/ a.rejection # None /\ a.activates_revision = None /\ ~a.settled_replay
     \/ a.rejection = None /\ a.activates_revision # None /\ ~a.settled_replay
     \/ a.rejection = None /\ a.activates_revision = None /\ a.settled_replay

EntrySemanticValid(e) ==
  IF IsAck(e)
  THEN /\ e.event = AckEvent(e.command_id) \/ e.event.kind = "rejected"
       /\ AckSemanticValid(e)
  ELSE e.event = ReportEvent(e.command_id)

-----------------------------------------------------------------------------
Initial(credentialGeneration, position) ==
  [credential_generation |-> credentialGeneration,
   current |-> position,
   device_sequence |-> 0,
   command_journal |-> {},
   outbox |-> << >>,
   reconnect_revision |-> None,
   pending_inbound |-> None]

(* StateV1::verify, one conjunct per group of checks.                      *)

WithinLimits(s) ==
  /\ Len(s.outbox) <= OutboxLimit
  /\ Cardinality(s.command_journal) <= JournalLimit

OutboxEntriesValid(s) ==
  \A i \in DOMAIN s.outbox :
     /\ s.outbox[i].sequence \in 1 .. s.device_sequence
     /\ EntrySemanticValid(s.outbox[i])
     /\ IsReport(s.outbox[i]) => s.outbox[i].position = s.current

OutboxEntriesDistinct(s) ==
  \A i, j \in DOMAIN s.outbox : i # j =>
     /\ s.outbox[i].event # s.outbox[j].event
     /\ s.outbox[i].sequence # s.outbox[j].sequence

JournalValid(s) ==
  /\ \A c \in s.command_journal :
        /\ c.command_id = c.acknowledgement.command_id
        /\ AckSemanticValid(c.acknowledgement)
        /\ c.retain_until > 0
  /\ \A c, d \in s.command_journal : c.command_id = d.command_id => c = d

PendingJournalled(s) ==
  s.pending_inbound # None =>
     \E c \in s.command_journal :
        /\ c.command_id = s.pending_inbound.command_id
        /\ c.fingerprint = s.pending_inbound.fingerprint

AtMostOneReport(s) ==
  \A i, j \in DOMAIN s.outbox :
     IsReport(s.outbox[i]) /\ IsReport(s.outbox[j]) => i = j

rotation_in_flight(s) == \E i \in DOMAIN s.outbox : IsReport(s.outbox[i])

PendingIffReport(s) == (s.pending_inbound # None) <=> rotation_in_flight(s)

\* An activating ACK and a blocked report belong to one rotation.
SameRotation(a, r) ==
  /\ Activates(a) /\ r.kind = "ReportBlocked"
  /\ a.activates_revision = r.position.revision
  /\ a.command_id = r.command_id

ActivationMatched(s) ==
  \A i \in DOMAIN s.outbox : Activates(s.outbox[i]) =>
     /\ s.outbox[i].activates_revision = s.current.revision
     /\ \E j \in DOMAIN s.outbox : SameRotation(s.outbox[i], s.outbox[j])
     /\ s.reconnect_revision = None

BlockedReportAwaits(s) ==
  \A j \in DOMAIN s.outbox : s.outbox[j].kind = "ReportBlocked" =>
     /\ (\E i \in DOMAIN s.outbox : SameRotation(s.outbox[i], s.outbox[j]))
           <=> s.reconnect_revision = None
     /\ s.reconnect_revision \in {None, s.outbox[j].position.revision}

ReadyReportConnected(s) ==
  \A i \in DOMAIN s.outbox :
     s.outbox[i].kind = "ReportReady" => s.reconnect_revision = None

ReconnectMatchesCurrent(s) ==
  s.reconnect_revision # None =>
     rotation_in_flight(s) /\ s.reconnect_revision = s.current.revision

verify(s) ==
  /\ WithinLimits(s)
  /\ OutboxEntriesValid(s)
  /\ OutboxEntriesDistinct(s)
  /\ JournalValid(s)
  /\ PendingJournalled(s)
  /\ AtMostOneReport(s)
  /\ PendingIffReport(s)
  /\ ActivationMatched(s)
  /\ BlockedReportAwaits(s)
  /\ ReadyReportConnected(s)
  /\ ReconnectMatchesCurrent(s)

-----------------------------------------------------------------------------
(* Queries. *)

\* The live journal entries of a command id: command_match looks no further.
LiveEntries(s, id, now) ==
  {c \in s.command_journal : c.command_id = id /\ c.retain_until > now}

command_match(s, id, fingerprint, now) ==
  IF LiveEntries(s, id, now) = {} THEN "unknown"
  ELSE IF \E c \in LiveEntries(s, id, now) : c.fingerprint = fingerprint
       THEN "same" ELSE "different"

has_command_ack(s, id) ==
  \E i \in DOMAIN s.outbox : IsAck(s.outbox[i]) /\ s.outbox[i].command_id = id

has_conflicting_replay(s, id, fingerprint) ==
  \E i \in DOMAIN s.outbox : s.outbox[i].event = RejectedEvent(id, fingerprint)

reserve_outbox(s, count) == Len(s.outbox) + count <= OutboxLimit

reserve_command_journal(s) == Cardinality(s.command_journal) < JournalLimit

IsPendingCommand(s, id) ==
  s.pending_inbound # None /\ s.pending_inbound.command_id = id

\* Mutant: counts the retained pending entry as free room.
JournalHasCapacityIgnoringPending(s, now) ==
  \/ reserve_command_journal(s)
  \/ \E c \in s.command_journal : c.retain_until <= now

command_journal_has_capacity(s, now) ==
  \/ reserve_command_journal(s)
  \/ \E c \in s.command_journal :
        c.retain_until <= now /\ ~IsPendingCommand(s, c.command_id)

InboundSettled(s) == s.pending_inbound # None /\ s.pending_inbound.settled

Publishable(s, e) == IsAck(e) \/ (e.kind = "ReportReady" /\ InboundSettled(s))

\* The index in the outbox of the next fact to publish, 0 if there is none.
next_outbound(s) == SelectInSeq(s.outbox, LAMBDA e : Publishable(s, e))

-----------------------------------------------------------------------------
(* Transitions. *)

SaturatingSucc(n) == IF n < SequenceMax THEN n + 1 ELSE n

expire_command_journal(s, now) ==
  [s EXCEPT !.command_journal =
     {c \in @ : c.retain_until > now \/ IsPendingCommand(s, c.command_id)}]

accept(s, id, fingerprint, position, credentialGeneration, retainUntil) ==
  LET ackSequence == SaturatingSucc(s.device_sequence)
      reportSequence == SaturatingSucc(ackSequence)
      ack == Ack(AckEvent(id), id, ackSequence, None, position.revision, FALSE)
  IN [s EXCEPT
        !.credential_generation = credentialGeneration,
        !.current = position,
        !.device_sequence = reportSequence,
        !.command_journal =
           @ \union {StoredCommand(id, fingerprint, ack, retainUntil)},
        !.pending_inbound =
           [topic |-> s.credential_generation, command_id |-> id,
            fingerprint |-> fingerprint, settled |-> FALSE],
        !.outbox =
           Append(Append(@, ack), ReportBlocked(id, reportSequence, position))]

reject(s, id, fingerprint, rejection, retainUntil) ==
  LET sequence == SaturatingSucc(s.device_sequence)
      ack == Ack(AckEvent(id), id, sequence, rejection, None, FALSE)
  IN [s EXCEPT
        !.device_sequence = sequence,
        !.command_journal =
           @ \union {StoredCommand(id, fingerprint, ack, retainUntil)},
        !.outbox = Append(@, ack)]

reject_conflicting_replay(s, id, fingerprint) ==
  LET sequence == SaturatingSucc(s.device_sequence)
  IN [s EXCEPT
        !.device_sequence = sequence,
        !.outbox = Append(@, Ack(RejectedEvent(id, fingerprint), id, sequence,
                                 "MalformedCommand", None, FALSE))]

\* Mutant: the replayed ACK activates its revision again.
ReplayedAckUnchanged(a) == a

\* The replayed ACK keeps its first sequence number; an acceptance no longer
\* activates its revision.
ReplayedAck(a) ==
  IF a.rejection = None
  THEN [a EXCEPT !.activates_revision = None, !.settled_replay = TRUE]
  ELSE a

\* Mutant: the replayed ACK takes a fresh sequence number.
ReplayRenumbered(s, id, fingerprint) ==
  LET command == CHOOSE c \in s.command_journal :
                    c.command_id = id /\ c.fingerprint = fingerprint
      sequence == SaturatingSucc(s.device_sequence)
  IN [s EXCEPT
        !.device_sequence = sequence,
        !.outbox = Append(@, [ReplayedAck(command.acknowledgement)
                                EXCEPT !.sequence = sequence])]

replay_command(s, id, fingerprint) ==
  LET command == CHOOSE c \in s.command_journal :
                    c.command_id = id /\ c.fingerprint = fingerprint
  IN [s EXCEPT !.outbox = Append(@, ReplayedAck(command.acknowledgement))]

\* Mutant: a report is confirmed before its delivery is settled.
ConfirmableUnsettled(s, i) == TRUE

\* The entry at index i is not confirmable while it is a ready report whose
\* inbound delivery is unsettled.
Confirmable(s, i) ==
  s.outbox[i].kind = "ReportReady" => InboundSettled(s)

\* Mutant: a PUBACK confirms every fact up to the one it names.
ConfirmCumulatively(s, i) ==
  [s EXCEPT !.outbox = SubSeq(@, i + 1, Len(@))]

confirm_outbound(s, i) ==
  LET confirmed == s.outbox[i]
      rest == RemoveAt(s.outbox, i)
      unlocks == /\ Activates(confirmed)
                 /\ \E j \in DOMAIN rest :
                       /\ rest[j].kind = "ReportBlocked"
                       /\ rest[j].position.revision = confirmed.activates_revision
  IN [s EXCEPT
        !.outbox = rest,
        !.reconnect_revision =
           IF unlocks THEN confirmed.activates_revision ELSE @,
        !.pending_inbound =
           IF confirmed.kind = "ReportReady" THEN None ELSE @]

mark_reconnected(s) ==
  [s EXCEPT
     !.outbox = [i \in DOMAIN @ |->
        IF @[i].kind = "ReportBlocked"
        THEN [@[i] EXCEPT !.kind = "ReportReady"]
        ELSE @[i]],
     !.reconnect_revision = None]

mark_inbound_settled(s) == [s EXCEPT !.pending_inbound.settled = TRUE]

next_revision(s) == s.current.revision + 1

=============================================================================
