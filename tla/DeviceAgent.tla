----------------------------- MODULE DeviceAgent -----------------------------
(***************************************************************************)
(* The reference device agent as a state machine over its durable store:   *)
(* ReferenceDeviceAgent (agent.rs) on StateStore (state.rs).  A process    *)
(* opens the store, calls of the session driver arrive in any order and    *)
(* with any argument, the clock advances, and the process may die at any   *)
(* point, in particular between the installation of a credential revision  *)
(* and the rename that makes it current.                                   *)
(*                                                                         *)
(* While a process runs, its memory equals the manifest on disk: a handler *)
(* that cannot persist returns an error and keeps the old state, and a     *)
(* failure after the rename is a crash after the handler.  One variable    *)
(* therefore stands for both.                                              *)
(***************************************************************************)
EXTENDS AgentHandlers

CONSTANTS
  Topics,           \* credential generations a command topic can name
  CatalogAnswers,   \* what ArtifactCatalog::resolve may answer
  InitialPosition,  \* config: position of the bootstrap credential
  InitialCredentialGeneration,
  MaxTime           \* bound of the model: the clock stops there

ASSUME AgentAssumption ==
  /\ Topics \subseteq Nat
  /\ CatalogAnswers \subseteq {"Resolved"} \union CatalogErrors
  /\ InitialPosition \in [generation : Nat \ {0}, fence : Nat \ {0},
                          revision : Nat \ {0}, digest : Digests]
  /\ InitialCredentialGeneration \in Nat \ {0}
  /\ MaxTime \in Nat

VARIABLES
  state,       \* the manifest state.v1.json, None while there is none
  installed,   \* committed directories credentials/revision-<n>
  process,     \* "down", "initializing", "idle" or "committing"
  committing,  \* the command between install_revision and persist, or None
  now          \* epoch seconds

vars == <<state, installed, process, committing, now>>

-----------------------------------------------------------------------------
Material(revision, digest) == [revision |-> revision, digest |-> digest]

\* Mutant: an existing directory is taken as it is.
RevisionAlwaysFits(revision, digest) == FALSE

\* install_revision refuses a directory that holds other material.
RevisionConflict(revision, digest) ==
  \E m \in installed : m.revision = revision /\ m.digest # digest

install_revision(revision, digest) ==
  installed' = installed \union {Material(revision, digest)}

Init ==
  /\ state = None
  /\ installed = {}
  /\ process = "down"
  /\ committing = None
  /\ now = 0

-----------------------------------------------------------------------------
(* ReferenceDeviceAgent::open. *)

\* open refuses the manifest unless it verifies and its revision is on disk.
ManifestAccepted ==
  /\ verify(state)
  /\ Material(state.current.revision, state.current.digest) \in installed

OpenExisting ==
  /\ process = "down" /\ state # None
  /\ process' = IF ManifestAccepted THEN "idle" ELSE "down"
  /\ UNCHANGED <<state, installed, committing, now>>

\* No manifest: open refuses a store that holds a committed revision.
OpenFresh ==
  /\ process = "down" /\ state = None
  /\ installed = {}
  /\ install_revision(InitialPosition.revision, InitialPosition.digest)
  /\ process' = "initializing"
  /\ UNCHANGED <<state, committing, now>>

\* Mutant: the first manifest is not written before the agent serves.
ServeBeforePersist ==
  /\ process = "initializing"
  /\ process' = "idle"
  /\ UNCHANGED <<state, installed, committing, now>>

PersistInitial ==
  /\ process = "initializing"
  /\ state' = Initial(InitialCredentialGeneration, InitialPosition)
  /\ process' = "idle"
  /\ UNCHANGED <<installed, committing, now>>

-----------------------------------------------------------------------------
(* The handlers. *)

\* The caller sees effect.result; an error leaves the state as it was.
Takes(effect) == state' = effect.state

Serving == process = "idle"

\* apply_command up to the durable installation of the new credential.
CommitInstall(topic, c, resolved) ==
  /\ Serving
  /\ Commits(state, topic, c, resolved, now) /\ CommitReserves(state, now)
  /\ ~RevisionConflict(next_revision(state), CommandData[c].digest)
  /\ install_revision(next_revision(state), CommandData[c].digest)
  /\ process' = "committing"
  /\ committing' = c
  /\ UNCHANGED <<state, now>>

\* An orphan of an earlier crash holds other material: nothing changes.
CommitConflict(topic, c, resolved) ==
  /\ Serving
  /\ Commits(state, topic, c, resolved, now) /\ CommitReserves(state, now)
  /\ RevisionConflict(next_revision(state), CommandData[c].digest)
  /\ UNCHANGED vars

\* The rest of commit.
CommitPersist ==
  /\ process = "committing"
  /\ Takes(Commit(state, committing, now))
  /\ process' = "idle"
  /\ committing' = None
  /\ UNCHANGED <<installed, now>>

\* The write of the manifest fails; the caller keeps the old state.
CommitFails ==
  /\ process = "committing"
  /\ process' = "idle"
  /\ committing' = None
  /\ UNCHANGED <<state, installed, now>>

apply_command(topic, c, resolved) ==
  \/ CommitInstall(topic, c, resolved)
  \/ CommitConflict(topic, c, resolved)
  \/ /\ Serving
     /\ ~(Commits(state, topic, c, resolved, now) /\ CommitReserves(state, now))
     /\ Takes(ApplyWithoutCommit(state, topic, c, resolved, now))
     /\ UNCHANGED <<installed, process, committing, now>>

RejectMalformedDelivery(topic, id, payload) ==
  /\ Serving
  /\ Takes(reject_malformed_delivery(state, topic, id, payload, now))
  /\ UNCHANGED <<installed, process, committing, now>>

ConfirmFact(event) ==
  /\ Serving
  /\ Takes(ConfirmOutbound(state, event))
  /\ UNCHANGED <<installed, process, committing, now>>

MarkConnected(revision) ==
  /\ Serving
  /\ Takes(mark_current_credential_connected(state, revision))
  /\ UNCHANGED <<installed, process, committing, now>>

MarkSettled(token) ==
  /\ Serving
  /\ Takes(persist_inbound_settlement(state, token))
  /\ UNCHANGED <<installed, process, committing, now>>

-----------------------------------------------------------------------------
(* The environment. *)

Crash ==
  /\ process # "down"
  /\ process' = "down"
  /\ committing' = None
  /\ UNCHANGED <<state, installed, now>>

\* A handler reads the clock once, when it is called.
Tick ==
  /\ process # "committing"
  /\ now < MaxTime
  /\ now' = now + 1
  /\ UNCHANGED <<state, installed, process, committing>>

KnownEvents ==
  {AckEvent(id) : id \in CommandIds} \union {ReportEvent(id) : id \in CommandIds}
    \union {state.outbox[i].event : i \in DOMAIN state.outbox}

KnownTokens ==
  {SettlementToken(t, CommandData[c].id, command_fingerprint(c)) :
     t \in Topics, c \in Commands}

Next ==
  \/ OpenExisting \/ OpenFresh \/ PersistInitial
  \/ \E topic \in Topics, c \in Commands, resolved \in CatalogAnswers :
        apply_command(topic, c, resolved)
  \/ CommitPersist \/ CommitFails
  \/ \E topic \in Topics, id \in CommandIds, payload \in Malformed :
        RejectMalformedDelivery(topic, id, payload)
  \/ Serving /\ \E event \in KnownEvents : ConfirmFact(event)
  \/ Serving /\ MarkConnected(state.current.revision)
  \/ \E token \in KnownTokens \union {None} : MarkSettled(token)
  \/ Crash \/ Tick

Spec == Init /\ [][Next]_vars

-----------------------------------------------------------------------------
(* Types. *)

\* Every variable has its type, the manifest the type of struct StateV1; a
\* running process has a manifest and a command is held exactly in commit.
TypeOK ==
  /\ state \in States \union {None}
  /\ installed \subseteq [revision : Nat, digest : Digests]
  /\ process \in {"down", "initializing", "idle", "committing"}
  /\ committing \in Commands \union {None}
  /\ now \in Nat
  /\ process \in {"idle", "committing"} => state # None
  /\ process = "committing" <=> committing # None

-----------------------------------------------------------------------------
(* Safety of the store. *)

\* The credential the manifest names is on disk, with the digest the manifest
\* records, at every instant a crash can expose: install_revision precedes the
\* rename of the manifest (agent.rs commit, state.rs open_or_initialize).
CurrentInstalled ==
  state # None =>
     Material(state.current.revision, state.current.digest) \in installed

\* A committed revision directory never holds two materials, and a crash leaves
\* at most one orphan, numbered just after the current revision; so a retry of
\* commit can find only that orphan (state.rs install_revision, next_revision).
RevisionsImmutable ==
  /\ \A m, n \in installed : m.revision = n.revision => m = n
  /\ state # None => \A m \in installed : m.revision <= next_revision(state)

\* Whatever a crash leaves behind, the next open accepts it; the one exception
\* is a first start that died before its manifest existed (state.rs
\* open_or_initialize, has_committed_revision).
RestartAccepted ==
  process = "down" =>
     \/ state # None /\ ManifestAccepted
     \/ state = None /\ Cardinality(installed) <= 1

-----------------------------------------------------------------------------
(* Safety of the handlers.  A handler's outcome is a function of the state, *)
(* so these speak of every call the driver could make next.                 *)

SequenceExhausted == state.device_sequence + 2 > SequenceMax

\* The journal has forgotten command id while a fact of it is still queued or
\* unsettled.
ForgottenTooSoon(id) ==
  /\ LiveEntries(state, id, now) = {}
  /\ \/ IsPendingCommand(state, id)
     \/ \E i \in DOMAIN state.outbox :
           state.outbox[i].event \in {AckEvent(id), ReportEvent(id)}

\* validate() is a safety net that the handlers do not lean on: from a state
\* they produced, no call builds a candidate that verify refuses, except a
\* command whose journal entry has expired while a fact of it is outstanding,
\* an exhausted sequence counter, or the confirmation of a blocked report,
\* which is never published (agent.rs persist_candidate, state.rs verify).
ValidateRefusesOnlyExpired ==
  /\ Serving =>
       /\ \A topic \in Topics, c \in Commands, resolved \in CatalogAnswers :
            ApplyWithoutCommit(state, topic, c, resolved, now).result
              = "InvalidState" =>
                ForgottenTooSoon(CommandData[c].id) \/ SequenceExhausted
       /\ \A topic \in Topics, id \in CommandIds, payload \in Malformed :
            reject_malformed_delivery(state, topic, id, payload, now).result
              = "InvalidState" => ForgottenTooSoon(id) \/ SequenceExhausted
       /\ \A event \in KnownEvents :
            ConfirmOutbound(state, event).result = "InvalidState" =>
              \E i \in DOMAIN state.outbox :
                 /\ state.outbox[i].event = event
                 /\ state.outbox[i].kind = "ReportBlocked"
       /\ mark_current_credential_connected(state, state.current.revision).result
            # "InvalidState"
       /\ persist_inbound_settlement(state, None).result # "InvalidState"
  /\ process = "committing" =>
       (Commit(state, committing, now).result = "InvalidState" =>
          ForgottenTooSoon(CommandData[committing].id) \/ SequenceExhausted)

\* Open intake reserves the worst case: while command_intake_open holds, no
\* delivery can end in OutboxFull or CommandJournalFull, whose error stops the
\* process (agent.rs command_intake_open against commit, persist_rejection and
\* the replay branches).
IntakeReservesWorstCase ==
  Serving /\ command_intake_open(state, now) =>
     /\ \A topic \in Topics, c \in Commands, resolved \in CatalogAnswers :
          ~ /\ ~(/\ Commits(state, topic, c, resolved, now)
                 /\ CommitReserves(state, now))
            /\ ApplyWithoutCommit(state, topic, c, resolved, now).result
                 \in {"OutboxFull", "CommandJournalFull"}
     /\ \A topic \in Topics, id \in CommandIds, payload \in Malformed :
          reject_malformed_delivery(state, topic, id, payload, now).result
            \notin {"OutboxFull", "CommandJournalFull"}

\* A queued terminal ACK says what the journal says: same sequence number, same
\* rejection.  The two are written together, expire apart and meet again in
\* replay_command (state.rs accept, reject, replay_command, confirm_outbound).
QueuedAckAgreesWithJournal ==
  state # None =>
     \A i \in DOMAIN state.outbox, c \in state.command_journal :
        state.outbox[i].event = AckEvent(c.command_id) =>
           /\ state.outbox[i].sequence = c.acknowledgement.sequence
           /\ state.outbox[i].rejection = c.acknowledgement.rejection

\* The position is the old one, or the next.
SamePosition ==
  /\ state'.current = state.current
  /\ state'.credential_generation = state.credential_generation
NewPosition ==
  /\ state'.current.revision = state.current.revision + 1
  /\ state'.current.generation > state.current.generation
  /\ state'.current.fence >= state.current.fence
  /\ state'.credential_generation > state.credential_generation
PositionStep ==
  state # None =>
     /\ state' # None
     /\ state'.device_sequence >= state.device_sequence
     /\ SamePosition \/ NewPosition

\* A credential rotation replaces the whole position at once: the revision
\* advances by one, generation and MQTT credential generation strictly, the
\* fence never backwards; nothing else ever moves it (agent.rs apply_command,
\* commit; state.rs accept).
PositionAdvances == [][PositionStep]_vars

FactStep ==
  state # None =>
     \/ KeepsFacts(state.outbox, state'.outbox)
     \/ \E i \in DOMAIN state.outbox :
           /\ ConfirmFact(state.outbox[i].event)
           /\ state.outbox[i].kind # "ReportBlocked"
           /\ state'.outbox = RemoveAt(state.outbox, i)

\* Outbox pressure, replay, expiry and crashes never drop, reorder or renumber
\* a queued fact: it leaves only by its own PUBACK, the others keep their order
\* (state.rs outbox pushes, confirm_outbound, mark_reconnected).
FactsLeaveOnlyConfirmed == [][FactStep]_vars

-----------------------------------------------------------------------------
(* Refinement of the abstract protocol. *)

HandoffPhase ==
  IF state = None THEN "unprovisioned"
  ELSE IF ~rotation_in_flight(state) THEN "idle"
  ELSE IF state.reconnect_revision # None THEN "acknowledged"
  ELSE IF \E i \in DOMAIN state.outbox : Activates(state.outbox[i])
       THEN "committed" ELSE "connected"

Handoff == INSTANCE RotationHandoff WITH
  phase <- HandoffPhase,
  settled <- state # None /\ InboundSettled(state),
  revision <- IF state = None THEN 0 ELSE state.current.revision

\* Whatever the order of calls, crashes and restarts, the durable state walks
\* through the rotation protocol of RotationHandoff: no report without a
\* confirmed ACK, a session on the new credential and a settled delivery, and
\* no second rotation before that report (state.rs accept, confirm_outbound,
\* mark_reconnected, mark_inbound_settled).
ImplementsHandoff == Handoff!Spec

-----------------------------------------------------------------------------
\* The delivery that awaits settlement is recognised when the broker redelivers
\* it: "The private state retains the single old-topic delivery awaiting broker
\* settlement so a crash can acknowledge only that exact redelivery"
\* (docs/secure-device-credential-rotation.md:81).
PendingRedeliveryRecognised ==
  Serving /\ state.pending_inbound # None =>
     \A c \in Commands, resolved \in CatalogAnswers :
        command_fingerprint(c) = state.pending_inbound.fingerprint =>
          ApplyWithoutCommit(state, state.pending_inbound.topic, c, resolved,
                             now).result # "RotationInFlight"

=============================================================================
