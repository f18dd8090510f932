-------------------------- MODULE DeviceAgentProofs --------------------------
(***************************************************************************)
(* Proofs, for every value of the constants, about DeviceAgent: the store  *)
(* under crashes, the action properties, and that DeviceAgent implements   *)
(* RotationHandoff.                                                        *)
(*                                                                         *)
(* For the refinement: in a manifest that verifies, the abstract phase is  *)
(* a function of the report that is queued, if any, and the revision that  *)
(* awaits its first session.  What a handler does to these two, to the     *)
(* pending delivery and to the position is all the refinement needs.       *)
(***************************************************************************)
EXTENDS DeviceAgent, HandlerProofs

-----------------------------------------------------------------------------
(* The inductive invariant.  CurrentInstalled and RevisionsImmutable are   *)
(* not inductive alone: the rename at the end of commit needs the revision *)
(* that install_revision left behind, and the checks apply_command made    *)
(* before it; a first start needs that the store was empty.                *)

InitialMaterial == Material(InitialPosition.revision, InitialPosition.digest)

\* Between install_revision and persist, the command held has passed its checks
\* and its credential is on disk.
CommitPrepared ==
  process = "committing" =>
     LET cmd == CommandData[committing]
     IN /\ Material(next_revision(state), cmd.digest) \in installed
        /\ cmd.generation > state.current.generation
        /\ cmd.fence >= state.current.fence
        /\ cmd.credential_generation > state.credential_generation

Bootstrap ==
  /\ state = None => installed \subseteq {InitialMaterial}
  /\ process = "initializing" => state = None /\ installed = {InitialMaterial}

ManifestVerifies == state # None => verify(state)

StoreInv ==
  /\ TypeOK
  /\ CurrentInstalled
  /\ RevisionsImmutable
  /\ ManifestVerifies
  /\ Bootstrap
  /\ CommitPrepared

\* A device that was never started satisfies the inductive invariant.
LEMMA InitEstablishes == Init => StoreInv
  BY NoneAssumption
  DEF Init, StoreInv, TypeOK, CurrentInstalled, RevisionsImmutable,
      ManifestVerifies, Bootstrap, CommitPrepared

\* The state of a serving or committing process is a manifest.
LEMMA RunningState ==
  ASSUME StoreInv, process \in {"idle", "committing"}
  PROVE  state \in States /\ state # None /\ verify(state) /\ now \in Nat
  BY DEF StoreInv, TypeOK, ManifestVerifies

\* A handler that leaves the position alone keeps the invariant.
LEMMA HandlerStep ==
  ASSUME StoreInv, Serving, Preserves(state, state'),
         UNCHANGED <<installed, process, committing, now>>
  PROVE  StoreInv'
  <1>1. state \in States /\ state # None /\ verify(state)
    BY RunningState DEF Serving
  <1>2. /\ state' \in States /\ state' # None /\ verify(state')
        /\ state'.current = state.current
    BY <1>1, NoneAssumption DEF Preserves
  <1>3. TypeOK'
    BY <1>2 DEF StoreInv, TypeOK
  <1>4. CurrentInstalled'
    BY <1>1, <1>2 DEF StoreInv, CurrentInstalled, Material
  <1>5. RevisionsImmutable'
    BY <1>1, <1>2 DEF StoreInv, RevisionsImmutable, next_revision
  <1>6. ManifestVerifies' /\ Bootstrap' /\ CommitPrepared'
    BY <1>2 DEF ManifestVerifies, Bootstrap, CommitPrepared, Serving
  <1> QED BY <1>3, <1>4, <1>5, <1>6 DEF StoreInv

\* The arguments of the calls are those the handlers are made for.
LEMMA ArgumentTypes ==
  Topics \subseteq Nat /\ CatalogAnswers \subseteq CatalogReplies
  BY AgentAssumption DEF CatalogReplies

\* Every handler that finishes in one step is one of those.
LEMMA HandlerActions ==
  ASSUME StoreInv, Serving,
         \/ \E topic \in Topics, c \in Commands, resolved \in CatalogAnswers :
               Takes(ApplyWithoutCommit(state, topic, c, resolved, now))
         \/ \E topic \in Topics, id \in CommandIds, payload \in Malformed :
               Takes(reject_malformed_delivery(state, topic, id, payload, now))
         \/ \E revision :
               Takes(mark_current_credential_connected(state, revision))
         \/ \E token : Takes(persist_inbound_settlement(state, token))
  PROVE  Preserves(state, state') /\ KeepsFacts(state.outbox, state'.outbox)
  <1>1. state \in States /\ now \in Nat
    BY RunningState DEF Serving
  <1>2. Handles(state, state')
    BY <1>1, ArgumentTypes, ApplyHandles, RejectMalformedHandles,
       MarkConnectedHandles, MarkSettledHandles DEF Takes
  <1> QED BY <1>2, HandlesPreserves

\* install_revision adds one material for a revision nothing else holds.
LEMMA InstallStep ==
  ASSUME StoreInv, NEW topic \in Topics, NEW c \in Commands,
         NEW resolved \in CatalogAnswers, CommitInstall(topic, c, resolved)
  PROVE  StoreInv'
  <1> DEFINE cmd == CommandData[c]
             new == Material(next_revision(state), cmd.digest)
  <1>1. /\ state \in States /\ state # None /\ state' = state
        /\ process = "idle" /\ process' = "committing"
        /\ committing' = c /\ now' = now
        /\ installed' = installed \union {new}
    BY RunningState DEF CommitInstall, Serving, install_revision
  <1>2. /\ cmd.digest \in Digests /\ cmd.generation \in Nat /\ cmd.fence \in Nat
        /\ cmd.credential_generation \in Nat
    BY CommandsAssumption
  <1>3. /\ state.current.revision \in Nat /\ state.current.generation \in Nat
        /\ state.current.fence \in Nat /\ state.credential_generation \in Nat
    BY <1>1 DEF States, Positions
  <1>4. next_revision(state) \in Nat
    BY <1>3 DEF next_revision
  <1>5. TypeOK'
    <2>1. new \in [revision : Nat, digest : Digests]
      BY <1>2, <1>4 DEF Material
    <2> QED BY <1>1, <2>1, NoneAssumption DEF StoreInv, TypeOK
  <1>6. CurrentInstalled'
    BY <1>1 DEF StoreInv, CurrentInstalled
  <1>7. RevisionsImmutable'
    <2>1. \A m \in installed : m \in [revision : Nat, digest : Digests]
      BY DEF StoreInv, TypeOK
    <2>2. \A m \in installed : m.revision = new.revision => m = new
      BY <2>1 DEF CommitInstall, RevisionConflict, Material
    <2>3. new.revision <= next_revision(state)
      BY <1>4 DEF Material
    <2> QED BY <1>1, <2>2, <2>3 DEF StoreInv, RevisionsImmutable
  <1>8. ManifestVerifies' /\ Bootstrap'
    BY <1>1 DEF StoreInv, ManifestVerifies, Bootstrap
  <1>9. CommitPrepared'
    <2>1. Rejection(state, topic, c, resolved, now) = None
      BY DEF CommitInstall, Commits
    <2>2. /\ ~(cmd.fence < state.current.fence)
          /\ ~(cmd.generation < state.current.generation)
          /\ cmd.generation # state.current.generation
          /\ ~(cmd.credential_generation <= state.credential_generation)
      <3>1. resolved # "Resolved" => catalog_rejection(resolved) # None
        BY AgentAssumption, CommandsAssumption
        DEF catalog_rejection, CatalogErrors, Rejections
      <3> QED BY <2>1, <3>1, CommandsAssumption DEF Rejection, Rejections
    <2> QED BY <1>1, <1>2, <1>3, <2>2 DEF CommitPrepared
  <1> QED BY <1>5, <1>6, <1>7, <1>8, <1>9 DEF StoreInv

\* The rename makes the installed revision current.
LEMMA PersistStep ==
  ASSUME StoreInv, CommitPersist
  PROVE  StoreInv'
  <1>1. /\ state \in States /\ state # None /\ verify(state) /\ now \in Nat
        /\ process = "committing" /\ process' = "idle" /\ committing' = None
        /\ committing \in Commands
        /\ installed' = installed /\ now' = now
        /\ state' = Commit(state, committing, now).state
    BY RunningState DEF CommitPersist, Takes, StoreInv, TypeOK
  <1>2. \/ state' = state
        \/ /\ state' \in States /\ verify(state')
           /\ state'.current = NextPosition(state, committing)
    BY <1>1, CommitEffect
  <1>3. /\ state' \in States /\ state' # None /\ verify(state')
    BY <1>1, <1>2, NoneAssumption
  <1>4. state.current.revision \in Nat
    BY <1>1 DEF States, Positions
  <1>5. /\ Material(next_revision(state), CommandData[committing].digest)
             \in installed
        /\ Material(state.current.revision, state.current.digest) \in installed
        /\ \A m \in installed : m.revision <= state.current.revision + 1
        /\ \A m \in installed : m.revision \in Nat
    BY <1>1
    DEF StoreInv, CommitPrepared, CurrentInstalled, RevisionsImmutable,
        next_revision, TypeOK
  <1>6. TypeOK'
    BY <1>1, <1>3 DEF StoreInv, TypeOK
  <1>7. CurrentInstalled'
    <2>1. CASE state' = state
      BY <1>1, <1>5, <2>1 DEF CurrentInstalled
    <2>2. CASE state'.current = NextPosition(state, committing)
      BY <1>1, <1>5, <2>2 DEF CurrentInstalled, NextPosition
    <2> QED BY <1>2, <2>1, <2>2
  <1>8. RevisionsImmutable'
    <2>1. \/ state'.current.revision = state.current.revision
          \/ state'.current.revision = state.current.revision + 1
      BY <1>2 DEF NextPosition, next_revision
    <2>2. \A m \in installed : m.revision <= state'.current.revision + 1
      BY <1>4, <1>5, <2>1
    <2> QED BY <1>1, <2>2 DEF StoreInv, RevisionsImmutable, next_revision
  <1>9. ManifestVerifies' /\ Bootstrap' /\ CommitPrepared'
    BY <1>1, <1>3 DEF ManifestVerifies, Bootstrap, CommitPrepared
  <1> QED BY <1>6, <1>7, <1>8, <1>9 DEF StoreInv

\* The steps that touch neither the manifest nor, but for the first start, the
\* installed revisions.
LEMMA ProcessSteps ==
  ASSUME StoreInv,
         \/ OpenExisting \/ OpenFresh \/ PersistInitial
         \/ CommitFails \/ Crash \/ Tick \/ UNCHANGED vars
  PROVE  StoreInv'
  <1> USE DEF StoreInv, Bootstrap, ManifestVerifies, CommitPrepared
  <1>1. CASE OpenExisting
    BY <1>1 DEF OpenExisting, TypeOK, CurrentInstalled, RevisionsImmutable
  <1>2. CASE OpenFresh
    <2>1. InitialMaterial \in [revision : Nat, digest : Digests]
      BY AgentAssumption DEF InitialMaterial, Material
    <2> QED BY <1>2, <2>1
            DEF OpenFresh, install_revision, InitialMaterial, TypeOK,
                CurrentInstalled, RevisionsImmutable
  <1>3. CASE PersistInitial
    <2> DEFINE first == Initial(InitialCredentialGeneration, InitialPosition)
    <2>1. /\ process = "initializing" /\ process' = "idle" /\ state = None
          /\ state' = first /\ installed = {InitialMaterial}
          /\ committing = None
          /\ UNCHANGED <<installed, committing, now>>
      BY <1>3 DEF PersistInitial, TypeOK
    <2>2. first \in States /\ first.current = InitialPosition
      <3>1. /\ InitialPosition \in Positions
            /\ InitialCredentialGeneration \in Nat
        BY AgentAssumption DEF Positions
      <3>2. << >> \in Seq(Acks \union Reports)
        BY EmptySeq
      <3> QED BY <3>1, <3>2 DEF Initial, States
    <2>3. /\ first.outbox = << >> /\ first.command_journal = {}
          /\ first.pending_inbound = None /\ first.reconnect_revision = None
      BY DEF Initial
    <2>4. Len(<< >>) = 0 /\ Cardinality({}) = 0 /\ DOMAIN << >> = {}
      BY EmptySeq, FS_EmptySet
    <2> HIDE DEF first
    <2>5. verify(first)
      BY <2>3, <2>4, LimitsAssumption
      DEF verify, WithinLimits, OutboxEntriesValid, OutboxEntriesDistinct,
          JournalValid, PendingJournalled, AtMostOneReport, PendingIffReport,
          rotation_in_flight, ActivationMatched, BlockedReportAwaits,
          ReadyReportConnected, ReconnectMatchesCurrent
    <2>6. state' # None
      BY <2>1, <2>2, NoneAssumption
    <2>7. TypeOK'
      BY <2>1, <2>2, <2>6 DEF TypeOK
    <2>8. CurrentInstalled'
      BY <2>1, <2>2 DEF CurrentInstalled, InitialMaterial, Material
    <2>9. RevisionsImmutable'
      <3>1. InitialPosition.revision \in Nat
        BY AgentAssumption
      <3> QED BY <2>1, <2>2, <3>1
              DEF RevisionsImmutable, InitialMaterial, Material, next_revision
    <2> QED BY <2>1, <2>5, <2>6, <2>7, <2>8, <2>9
  <1>4. CASE CommitFails
    BY <1>4 DEF CommitFails, TypeOK, CurrentInstalled, RevisionsImmutable
  <1>5. CASE Crash
    BY <1>5 DEF Crash, TypeOK, CurrentInstalled, RevisionsImmutable
  <1>6. CASE Tick
    BY <1>6 DEF Tick, TypeOK, CurrentInstalled, RevisionsImmutable
  <1>7. CASE UNCHANGED vars
    BY <1>7 DEF vars, TypeOK, CurrentInstalled, RevisionsImmutable
  <1> QED BY <1>1, <1>2, <1>3, <1>4, <1>5, <1>6, <1>7

\* Every step of agent.rs and state.rs keeps the inductive invariant.
LEMMA NextPreserves == StoreInv /\ [Next]_vars => StoreInv'
  <1> SUFFICES ASSUME StoreInv, [Next]_vars PROVE StoreInv'
    OBVIOUS
  <1>1. ASSUME NEW topic \in Topics, NEW c \in Commands,
               NEW resolved \in CatalogAnswers, apply_command(topic, c, resolved)
        PROVE  StoreInv'
    <2>1. CASE CommitInstall(topic, c, resolved)
      BY <2>1, InstallStep
    <2>2. CASE CommitConflict(topic, c, resolved)
      BY <2>2, ProcessSteps DEF CommitConflict
    <2>3. CASE /\ Serving
               /\ Takes(ApplyWithoutCommit(state, topic, c, resolved, now))
               /\ UNCHANGED <<installed, process, committing, now>>
      BY <2>3, HandlerActions, HandlerStep
    <2> QED BY <1>1, <2>1, <2>2, <2>3 DEF apply_command
  <1>2. ASSUME NEW topic \in Topics, NEW id \in CommandIds,
               NEW payload \in Malformed,
               RejectMalformedDelivery(topic, id, payload)
        PROVE  StoreInv'
    BY <1>2, HandlerActions, HandlerStep DEF RejectMalformedDelivery
  <1>3. ASSUME NEW event, ConfirmFact(event)
        PROVE  StoreInv'
    <2>1. state \in States
      BY <1>3, RunningState DEF ConfirmFact, Serving
    <2>2. Preserves(state, state')
      BY <1>3, <2>1, ConfirmEffect DEF ConfirmFact, Takes
    <2> QED BY <1>3, <2>2, HandlerStep DEF ConfirmFact
  <1>4. ASSUME NEW revision, MarkConnected(revision)
        PROVE  StoreInv'
    BY <1>4, HandlerActions, HandlerStep DEF MarkConnected
  <1>5. ASSUME NEW token, MarkSettled(token)
        PROVE  StoreInv'
    BY <1>5, HandlerActions, HandlerStep DEF MarkSettled
  <1>6. CASE CommitPersist
    BY <1>6, PersistStep
  <1> QED BY <1>1, <1>2, <1>3, <1>4, <1>5, <1>6, ProcessSteps DEF Next

\* StoreInv is an invariant of every behaviour of the agent.
LEMMA StoreInvariant == Spec => []StoreInv
  BY InitEstablishes, NextPreserves, PTL DEF Spec

-----------------------------------------------------------------------------
(* The theorems. *)

\* The manifest always has the type of struct StateV1, a running process has a
\* manifest, and a command is held exactly between install_revision and persist.
THEOREM TypeCorrect == Spec => []TypeOK
  <1>1. StoreInv => TypeOK
    BY DEF StoreInv
  <1> QED BY <1>1, StoreInvariant, PTL

\* At every instant a crash can expose, the credential the manifest names is on
\* disk with the digest the manifest records (agent.rs commit).
THEOREM CredentialOnDisk == Spec => []CurrentInstalled
  <1>1. StoreInv => CurrentInstalled
    BY DEF StoreInv
  <1> QED BY <1>1, StoreInvariant, PTL

\* A committed revision directory never holds two materials and an orphan is
\* numbered just after the current revision (state.rs install_revision).
THEOREM RevisionsNeverOverwritten == Spec => []RevisionsImmutable
  <1>1. StoreInv => RevisionsImmutable
    BY DEF StoreInv
  <1> QED BY <1>1, StoreInvariant, PTL

\* A restart is refused only after a first start that died before its manifest
\* existed (state.rs open_or_initialize).
THEOREM RestartSafe == Spec => []RestartAccepted
  <1>1. StoreInv => RestartAccepted
    <2> SUFFICES ASSUME StoreInv PROVE RestartAccepted
      OBVIOUS
    <2>1. state # None => ManifestAccepted
      BY DEF StoreInv, ManifestVerifies, CurrentInstalled, ManifestAccepted
    <2>2. state = None => Cardinality(installed) <= 1
      <3>1. SUFFICES ASSUME installed \in SUBSET {InitialMaterial}
                     PROVE  Cardinality(installed) <= 1
        BY DEF StoreInv, Bootstrap
      <3>2. IsFiniteSet({InitialMaterial}) /\ Cardinality({InitialMaterial}) = 1
        BY FS_Singleton
      <3> QED BY <3>1, <3>2, FS_Subset
    <2> QED BY <2>1, <2>2 DEF RestartAccepted
  <1> QED BY <1>1, StoreInvariant, PTL

\* What one step does to the manifest.
LEMMA StepEffect ==
  ASSUME StoreInv, [Next]_vars, state # None
  PROVE  \/ state' = state
         \/ /\ Preserves(state, state')
            /\ FactStep
         \/ /\ CommitPersist
            /\ state' \in States
            /\ NewPosition
            /\ state'.device_sequence >= state.device_sequence
            /\ KeepsFacts(state.outbox, state'.outbox)
  <1> DEFINE Goal == \/ state' = state
                     \/ Preserves(state, state') /\ FactStep
                     \/ /\ CommitPersist
                        /\ state' \in States
                        /\ NewPosition
                        /\ state'.device_sequence >= state.device_sequence
                        /\ KeepsFacts(state.outbox, state'.outbox)
  <1> SUFFICES Goal
    OBVIOUS
  <1>1. ASSUME Preserves(state, state'), KeepsFacts(state.outbox, state'.outbox)
        PROVE  Goal
    BY <1>1 DEF FactStep
  <1>2. ASSUME NEW topic \in Topics, NEW c \in Commands,
               NEW resolved \in CatalogAnswers, apply_command(topic, c, resolved)
        PROVE  Goal
    <2>1. CASE /\ Serving
               /\ Takes(ApplyWithoutCommit(state, topic, c, resolved, now))
      BY <2>1, <1>1, HandlerActions
    <2> QED BY <1>2, <2>1 DEF apply_command, CommitInstall, CommitConflict, vars
  <1>3. ASSUME NEW topic \in Topics, NEW id \in CommandIds,
               NEW payload \in Malformed,
               RejectMalformedDelivery(topic, id, payload)
        PROVE  Goal
    BY <1>1, <1>3, HandlerActions DEF RejectMalformedDelivery
  <1>4. ASSUME NEW event, ConfirmFact(event)
        PROVE  Goal
    <2>1. state \in States /\ verify(state)
      BY <1>4, RunningState DEF ConfirmFact, Serving
    <2>2. state' = ConfirmOutbound(state, event).state
      BY <1>4 DEF ConfirmFact, Takes
    <2>3. /\ Preserves(state, state')
          /\ \/ state' = state
             \/ \E i \in DOMAIN state.outbox :
                   /\ state.outbox[i].event = event
                   /\ state.outbox[i].kind # "ReportBlocked"
                   /\ state'.outbox = RemoveAt(state.outbox, i)
      BY <2>1, <2>2, ConfirmEffect
    <2> QED BY <1>4, <2>3 DEF FactStep
  <1>5. ASSUME NEW revision, MarkConnected(revision)
        PROVE  Goal
    <2>1. Serving /\ Takes(mark_current_credential_connected(state, revision))
      BY <1>5 DEF MarkConnected
    <2> QED BY <1>1, <2>1, HandlerActions
  <1>6. ASSUME NEW token, MarkSettled(token)
        PROVE  Goal
    BY <1>1, <1>6, HandlerActions DEF MarkSettled
  <1>7. CASE CommitPersist
    <2>1. /\ state \in States /\ now \in Nat /\ committing \in Commands
          /\ process = "committing"
          /\ state' = Commit(state, committing, now).state
      BY <1>7, RunningState DEF CommitPersist, Takes, StoreInv, TypeOK
    <2>2. CASE state' = state
      BY <2>2
    <2>3. CASE state' # state
      <3>1. /\ state' \in States
            /\ state'.current = NextPosition(state, committing)
            /\ state'.credential_generation
                 = CommandData[committing].credential_generation
            /\ state'.device_sequence >= state.device_sequence
            /\ KeepsFacts(state.outbox, state'.outbox)
        BY <2>1, <2>3, CommitEffect
      <3>2. NewPosition
        BY <2>1, <3>1
        DEF StoreInv, CommitPrepared, NewPosition, NextPosition, next_revision
      <3> QED BY <1>7, <3>1, <3>2
    <2> QED BY <2>2, <2>3
  <1>8. CASE OpenExisting \/ OpenFresh \/ CommitFails \/ Crash \/ Tick
             \/ UNCHANGED vars
    BY <1>8 DEF OpenExisting, OpenFresh, CommitFails, Crash, Tick, vars
  <1>9. ~PersistInitial
    BY DEF PersistInitial, StoreInv, Bootstrap
  <1> HIDE DEF Goal
  <1> QED BY <1>2, <1>3, <1>4, <1>5, <1>6, <1>7, <1>8, <1>9 DEF Next

\* The position moves only by a committed rotation, and then strictly forward,
\* whatever stale or reordered commands arrive (agent.rs apply_command, commit).
THEOREM PositionNeverRollsBack == Spec => PositionAdvances
  <1>1. StoreInv /\ [Next]_vars => [PositionStep]_vars
    <2> SUFFICES ASSUME StoreInv, [Next]_vars, state # None
                 PROVE  /\ state' # None
                        /\ state'.device_sequence >= state.device_sequence
                        /\ SamePosition \/ NewPosition
      BY DEF PositionStep
    <2>1. state \in States
      BY DEF StoreInv, TypeOK
    <2>2. state.device_sequence \in Nat
      BY <2>1 DEF States
    <2>3. CASE state' = state
      BY <2>2, <2>3 DEF SamePosition
    <2>4. CASE Preserves(state, state')
      BY <2>4, NoneAssumption DEF Preserves, SamePosition
    <2>5. CASE /\ state' \in States /\ NewPosition
               /\ state'.device_sequence >= state.device_sequence
      BY <2>5, NoneAssumption
    <2> QED BY <2>3, <2>4, <2>5, StepEffect
  <1> QED BY <1>1, StoreInvariant, PTL DEF Spec, PositionAdvances

\* A queued fact leaves the outbox only by its own confirmation, and a blocked
\* report not even so (state.rs confirm_outbound, verify).
THEOREM FactsNeverLost == Spec => FactsLeaveOnlyConfirmed
  <1>1. StoreInv /\ [Next]_vars => [FactStep]_vars
    <2> SUFFICES ASSUME StoreInv, [Next]_vars, state # None
                 PROVE  FactStep
      BY DEF FactStep
    <2>1. state.outbox \in Seq(Facts)
      BY DEF StoreInv, TypeOK, States, Facts
    <2>2. KeepsFacts(state.outbox, state.outbox)
      BY <2>1, KeepsFactsReflexive
    <2>3. CASE state' = state
      BY <2>2, <2>3 DEF FactStep
    <2>4. CASE KeepsFacts(state.outbox, state'.outbox)
      BY <2>4 DEF FactStep
    <2> QED BY <2>3, <2>4, StepEffect
  <1> QED BY <1>1, StoreInvariant, PTL DEF Spec, FactsLeaveOnlyConfirmed

-----------------------------------------------------------------------------
(* The refinement. *)


Blocked(s) == \E i \in DOMAIN s.outbox : s.outbox[i].kind = "ReportBlocked"

Ready(s) == \E i \in DOMAIN s.outbox : s.outbox[i].kind = "ReportReady"

\* The abstract phase of a manifest, from the report and the awaited session.
Phase(s) ==
  IF Ready(s) THEN "connected"
  ELSE IF ~Blocked(s) THEN "idle"
  ELSE IF s.reconnect_revision # None THEN "acknowledged"
  ELSE "committed"

\* The phase HandoffPhase gives to a manifest.
PhaseIn(s) ==
  IF ~rotation_in_flight(s) THEN "idle"
  ELSE IF s.reconnect_revision # None THEN "acknowledged"
  ELSE IF \E i \in DOMAIN s.outbox : Activates(s.outbox[i])
       THEN "committed" ELSE "connected"

\* In a manifest that verifies, the phase follows the report (state.rs verify):
\* a blocked report without an awaited session still has its ACK queued, and a
\* ready one has none.
LEMMA PhaseFollowsReport ==
  ASSUME NEW s \in States, verify(s)
  PROVE  PhaseIn(s) = Phase(s)
  <1> DEFINE q == s.outbox
  <1>1. rotation_in_flight(s) <=> Blocked(s) \/ Ready(s)
    BY DEF rotation_in_flight, IsReport, Blocked, Ready
  <1>2. CASE Ready(s)
    <2>1. PICK r \in DOMAIN q : q[r].kind = "ReportReady"
      BY <1>2 DEF Ready
    <2>2. s.reconnect_revision = None
      BY <2>1 DEF verify, ReadyReportConnected
    <2>3. ASSUME NEW i \in DOMAIN q, Activates(q[i])
          PROVE  FALSE
      <3>1. PICK j \in DOMAIN q : q[j].kind = "ReportBlocked"
        BY <2>3 DEF verify, ActivationMatched, SameRotation
      <3>2. j = r
        BY <2>1, <3>1 DEF verify, AtMostOneReport, IsReport
      <3> QED BY <2>1, <3>1, <3>2
    <2> QED BY <1>1, <1>2, <2>2, <2>3 DEF PhaseIn, Phase
  <1>3. CASE ~Ready(s) /\ Blocked(s)
    <2>1. PICK r \in DOMAIN q : q[r].kind = "ReportBlocked"
      BY <1>3 DEF Blocked
    <2>2. (\E i \in DOMAIN q : SameRotation(q[i], q[r]))
             <=> s.reconnect_revision = None
      BY <2>1 DEF verify, BlockedReportAwaits
    <2>3. s.reconnect_revision = None => \E i \in DOMAIN q : Activates(q[i])
      BY <2>2 DEF SameRotation
    <2> QED BY <1>1, <1>3, <2>3 DEF PhaseIn, Phase
  <1>4. CASE ~Ready(s) /\ ~Blocked(s)
    BY <1>1, <1>4 DEF PhaseIn, Phase
  <1> QED BY <1>2, <1>3, <1>4

\* Nothing is pending and no session is awaited while no report is queued.
LEMMA IdleFacts ==
  ASSUME NEW s \in States, verify(s), ~Ready(s), ~Blocked(s)
  PROVE  s.pending_inbound = None /\ s.reconnect_revision = None
  <1>1. ~rotation_in_flight(s)
    BY DEF rotation_in_flight, IsReport, Blocked, Ready
  <1> QED BY <1>1 DEF verify, PendingIffReport, ReconnectMatchesCurrent

-----------------------------------------------------------------------------
(* What the handlers do to the report, the awaited session, the delivery.  *)

\* The step of a handler that changes none of them.
SameRotationState(s, t) ==
  /\ Blocked(t) <=> Blocked(s)
  /\ Ready(t) <=> Ready(s)
  /\ t.reconnect_revision = s.reconnect_revision
  /\ t.pending_inbound = s.pending_inbound
  /\ t.current = s.current

\* A queued ACK is no report.
LEMMA AppendAck ==
  ASSUME NEW s \in States, NEW ack \in Acks, NEW t,
         t.outbox = Append(s.outbox, ack)
  PROVE  (Blocked(t) <=> Blocked(s)) /\ (Ready(t) <=> Ready(s))
  <1> DEFINE q == s.outbox
             r == Append(q, ack)
  <1>1. q \in Seq(Facts) /\ ack \in Facts /\ ack.kind = "Ack"
    BY DEF States, Facts, Acks
  <1>2. /\ r \in Seq(Facts) /\ Len(r) = Len(q) + 1
        /\ \A i \in 1 .. Len(q) : r[i] = q[i]
        /\ r[Len(q) + 1] = ack
    BY <1>1, AppendProperties
  <1>3. DOMAIN r = 1 .. Len(q) + 1 /\ DOMAIN q = 1 .. Len(q) /\ Len(q) \in Nat
    BY <1>1, <1>2
  <1>4. DOMAIN r = DOMAIN q \union {Len(q) + 1}
    BY <1>3
  <1> HIDE DEF r
  <1>5. \A k \in {"ReportBlocked", "ReportReady"} :
          (\E i \in DOMAIN r : r[i].kind = k) <=> (\E i \in DOMAIN q : q[i].kind = k)
    BY <1>1, <1>2, <1>3, <1>4
  <1> QED BY <1>5 DEF Blocked, Ready, r

\* A rejection.
LEMMA RejectSame ==
  ASSUME NEW s \in States, NEW id \in CommandIds, NEW f \in Fingerprints,
         NEW r \in Rejections \union {None}, NEW t \in Nat
  PROVE  SameRotationState(s, reject(s, id, f, r, t))
  <1> DEFINE n == SaturatingSucc(s.device_sequence)
             ack == Ack(AckEvent(id), id, n, r, None, FALSE)
             u == reject(s, id, f, r, t)
  <1>1. n \in Nat
    BY SaturatingSuccMonotonic DEF States
  <1>2. ack \in Acks
    BY <1>1, AckType, EventTypes
  <1>3. /\ u.outbox = Append(s.outbox, ack)
        /\ u.reconnect_revision = s.reconnect_revision
        /\ u.pending_inbound = s.pending_inbound /\ u.current = s.current
    BY DEF reject, States
  <1> HIDE DEF ack, u
  <1> QED BY <1>2, <1>3, AppendAck DEF SameRotationState, u

\* A conflicting replay.
LEMMA RejectConflictingSame ==
  ASSUME NEW s \in States, NEW id \in CommandIds, NEW f \in Fingerprints
  PROVE  SameRotationState(s, reject_conflicting_replay(s, id, f))
  <1> DEFINE n == SaturatingSucc(s.device_sequence)
             ack == Ack(RejectedEvent(id, f), id, n, "MalformedCommand", None, FALSE)
             u == reject_conflicting_replay(s, id, f)
  <1>1. n \in Nat
    BY SaturatingSuccMonotonic DEF States
  <1>2. ack \in Acks
    BY <1>1, AckType, EventTypes DEF Rejections
  <1>3. /\ u.outbox = Append(s.outbox, ack)
        /\ u.reconnect_revision = s.reconnect_revision
        /\ u.pending_inbound = s.pending_inbound /\ u.current = s.current
    BY DEF reject_conflicting_replay, States
  <1> HIDE DEF ack, u
  <1> QED BY <1>2, <1>3, AppendAck DEF SameRotationState, u

\* An exact replay.
LEMMA ReplaySame ==
  ASSUME NEW s \in States, NEW id, NEW f, NEW t,
         command_match(s, id, f, t) = "same"
  PROVE  SameRotationState(s, replay_command(s, id, f))
  <1>1. PICK c \in s.command_journal :
          /\ ReplayedAck(c.acknowledgement) \in Acks
          /\ replay_command(s, id, f) =
               [s EXCEPT !.outbox = Append(@, ReplayedAck(c.acknowledgement))]
    BY ReplayedEntry
  <1>2. PICK ack : ack = ReplayedAck(c.acknowledgement)
    OBVIOUS
  <1> DEFINE u == replay_command(s, id, f)
  <1>3. /\ u.outbox = Append(s.outbox, ack)
        /\ u.reconnect_revision = s.reconnect_revision
        /\ u.pending_inbound = s.pending_inbound /\ u.current = s.current
    BY <1>1, <1>2 DEF States
  <1> HIDE DEF u
  <1> QED BY <1>1, <1>2, <1>3, AppendAck DEF SameRotationState, u

\* A state agrees with itself.
LEMMA SameReflexive ==
  ASSUME NEW s
  PROVE  SameRotationState(s, s)
  BY DEF SameRotationState

\* persist_candidate leaves the candidate, or what was there.
LEMMA PersistSame ==
  ASSUME NEW s, NEW candidate, SameRotationState(s, candidate), NEW r
  PROVE  SameRotationState(s, persist_candidate(s, candidate, r).state)
  <1>1. persist_candidate(s, candidate, r).state \in {s, candidate}
    BY DEF persist_candidate, Effect
  <1> QED BY <1>1, SameReflexive

\* The three ways a delivery that commits nothing can end.
LEMMA BranchesSame ==
  ASSUME NEW s \in States, NEW id \in CommandIds, NEW f \in Fingerprints,
         NEW r \in Rejections \union {None}, NEW t \in Nat
  PROVE  /\ command_match(s, id, f, t) = "same" =>
              SameRotationState(s, ExactReplay(s, id, f).state)
         /\ SameRotationState(s, ConflictingReplay(s, id, f).state)
         /\ SameRotationState(s, PersistRejection(s, id, f, r, t).state)
  <1>1. ASSUME command_match(s, id, f, t) = "same"
        PROVE  SameRotationState(s, ExactReplay(s, id, f).state)
    <2>1. SameRotationState(s,
            persist_candidate(s, replay_command(s, id, f), "Duplicate").state)
      BY <1>1, ReplaySame, PersistSame
    <2> QED BY <2>1, SameReflexive DEF ExactReplay, Effect
  <1>2. SameRotationState(s, ConflictingReplay(s, id, f).state)
    <2>1. SameRotationState(s,
            persist_candidate(s, reject_conflicting_replay(s, id, f),
                              "MalformedCommand").state)
      BY RejectConflictingSame, PersistSame
    <2> QED BY <2>1, SameReflexive DEF ConflictingReplay, Effect
  <1>3. SameRotationState(s, PersistRejection(s, id, f, r, t).state)
    <2> DEFINE kept == expire_command_journal(s, t)
               candidate == reject(kept, id, f, r, retention_deadline(t))
    <2>1. /\ kept \in States /\ kept.outbox = s.outbox /\ kept.current = s.current
          /\ kept.reconnect_revision = s.reconnect_revision
          /\ kept.pending_inbound = s.pending_inbound
      BY DEF expire_command_journal, States
    <2>2. retention_deadline(t) \in Nat
      BY CommandsAssumption DEF retention_deadline
    <2> HIDE DEF kept
    <2>3. SameRotationState(kept, candidate)
      BY <2>1, <2>2, RejectSame
    <2> HIDE DEF candidate
    <2>4. SameRotationState(s, candidate)
      BY <2>1, <2>3 DEF SameRotationState, Blocked, Ready
    <2>5. SameRotationState(s, persist_candidate(s, candidate, r).state)
      BY <2>4, PersistSame
    <2>6. PersistRejection(s, id, f, r, t).state
            \in {s, persist_candidate(s, candidate, r).state}
      BY DEF PersistRejection, Effect, kept, candidate
    <2> QED BY <2>5, <2>6, SameReflexive
  <1> QED BY <1>1, <1>2, <1>3

\* apply_command short of commit, and reject_malformed_delivery, leave the
\* rotation where it is.
LEMMA DeliverySame ==
  ASSUME NEW s \in States, NEW t \in Nat
  PROVE  /\ \A topic \in Topics, c \in Commands, resolved \in CatalogAnswers :
              SameRotationState(s, ApplyWithoutCommit(s, topic, c, resolved, t).state)
         /\ \A topic \in Topics, id \in CommandIds, payload \in Malformed :
              SameRotationState(s,
                reject_malformed_delivery(s, topic, id, payload, t).state)
  <1>1. ASSUME NEW topic \in Topics, NEW c \in Commands, NEW resolved \in CatalogAnswers
        PROVE  SameRotationState(s, ApplyWithoutCommit(s, topic, c, resolved, t).state)
    <2> DEFINE id == CommandData[c].id
               match == command_match(s, id, c, t)
               r == Rejection(s, topic, c, resolved, t)
    <2>1. id \in CommandIds /\ c \in Fingerprints /\ r \in Rejections \union {None}
      BY CommandsAssumption, ArgumentTypes, RejectionType DEF Fingerprints
    <2>2. match \in {"same", "different", "unknown"}
      BY DEF command_match
    <2> HIDE DEF id, match, r
    <2>3. /\ match = "same" => SameRotationState(s, ExactReplay(s, id, c).state)
          /\ SameRotationState(s, ConflictingReplay(s, id, c).state)
          /\ SameRotationState(s, PersistRejection(s, id, c, r, t).state)
      BY <2>1, BranchesSame DEF match
    <2>4. match = "same" => ApplyWithoutCommit(s, topic, c, resolved, t).state
                              = ExactReplay(s, id, c).state
      BY DEF ApplyWithoutCommit, command_fingerprint, match, id, Commits
    <2>5. match = "different" => ApplyWithoutCommit(s, topic, c, resolved, t).state
                                   = ConflictingReplay(s, id, c).state
      BY DEF ApplyWithoutCommit, command_fingerprint, match, id, Commits
    <2>6. match = "unknown" => ApplyWithoutCommit(s, topic, c, resolved, t).state
                                 \in {s, PersistRejection(s, id, c, r, t).state}
      BY DEF ApplyWithoutCommit, command_fingerprint, match, id, r, Effect
    <2> QED BY <2>2, <2>3, <2>4, <2>5, <2>6, SameReflexive
  <1>2. ASSUME NEW topic \in Topics, NEW id \in CommandIds, NEW payload \in Malformed
        PROVE  SameRotationState(s,
                 reject_malformed_delivery(s, topic, id, payload, t).state)
    <2> DEFINE f == <<topic, id, payload>>
               match == command_match(s, id, f, t)
    <2>1. f \in Fingerprints
      BY ArgumentTypes DEF Fingerprints
    <2>2. match \in {"same", "different", "unknown"}
      BY DEF command_match
    <2>3. "MalformedCommand" \in Rejections \union {None}
      BY DEF Rejections
    <2> HIDE DEF f
    <2>4. /\ match = "same" => SameRotationState(s, ExactReplay(s, id, f).state)
          /\ SameRotationState(s, ConflictingReplay(s, id, f).state)
          /\ SameRotationState(s,
               PersistRejection(s, id, f, "MalformedCommand", t).state)
      BY <2>1, <2>3, BranchesSame
    <2>5. SameRotationState(s, s)
      BY SameReflexive
    <2> HIDE DEF match
    <2> QED BY <2>2, <2>4, <2>5
            DEF reject_malformed_delivery, malformed_fingerprint, Effect, f, match
  <1> QED BY <1>1, <1>2

-----------------------------------------------------------------------------
(* The four handlers that move a rotation on. *)

\* Settling the delivery (agent.rs mark_pending_inbound_settled).
LEMMA SettleMoves ==
  ASSUME NEW s \in States, NEW token, NEW t,
         t = persist_inbound_settlement(s, token).state
  PROVE  \/ t = s
         \/ /\ s.pending_inbound # None /\ InboundSettled(t)
            /\ t.outbox = s.outbox /\ t.current = s.current
            /\ t.reconnect_revision = s.reconnect_revision
  <1>1. CASE t = s
    BY <1>1
  <1>2. CASE t # s
    <2>1. s.pending_inbound # None /\ t = mark_inbound_settled(s)
      BY <1>2 DEF persist_inbound_settlement, persist_candidate, Effect
    <2>2. s.pending_inbound \in PendingInbound
      BY <2>1 DEF States
    <2>3. PICK p : p = [s.pending_inbound EXCEPT !.settled = TRUE]
      OBVIOUS
    <2>4. p \in PendingInbound /\ p.settled
      BY <2>2, <2>3 DEF PendingInbound
    <2>5. t = [s EXCEPT !.pending_inbound = p]
      BY <2>1, <2>3 DEF mark_inbound_settled
    <2>6. /\ t.pending_inbound = p /\ t.outbox = s.outbox /\ t.current = s.current
          /\ t.reconnect_revision = s.reconnect_revision
      BY <2>5 DEF States
    <2> QED BY <2>1, <2>4, <2>6, NoneAssumption DEF InboundSettled
  <1> QED BY <1>1, <1>2

\* The first session with the new credential (mark_current_credential_connected).
LEMMA ConnectMoves ==
  ASSUME NEW s \in States, verify(s), NEW revision \in Nat, NEW t,
         t = mark_current_credential_connected(s, revision).state
  PROVE  \/ t = s
         \/ /\ Blocked(s) /\ ~Ready(s) /\ s.reconnect_revision # None
            /\ ~Blocked(t) /\ Ready(t)
            /\ t.pending_inbound = s.pending_inbound /\ t.current = s.current
  <1>1. CASE t = s
    BY <1>1
  <1>2. CASE t # s
    <2> DEFINE q == s.outbox
               readied == [i \in DOMAIN q |->
                  IF q[i].kind = "ReportBlocked"
                  THEN [q[i] EXCEPT !.kind = "ReportReady"] ELSE q[i]]
    <2>1. s.reconnect_revision = revision /\ t = mark_reconnected(s)
      BY <1>2 DEF mark_current_credential_connected, persist_candidate, Effect
    <2>2. s.reconnect_revision # None
      BY <2>1, LimitsAssumption
    <2>3. rotation_in_flight(s)
      BY <2>2 DEF verify, ReconnectMatchesCurrent
    <2>4. ~Ready(s)
      BY <2>2 DEF verify, ReadyReportConnected, Ready
    <2>5. Blocked(s)
      BY <2>3, <2>4 DEF rotation_in_flight, IsReport, Blocked, Ready
    <2>6. t = [s EXCEPT !.outbox = readied, !.reconnect_revision = None]
      BY <2>1 DEF mark_reconnected
    <2>7. /\ t.outbox = readied /\ t.current = s.current
          /\ t.pending_inbound = s.pending_inbound
      BY <2>6 DEF States
    <2>8. \A i \in DOMAIN q : q[i] \in Facts
      BY DEF States, Facts
    <2>9. ASSUME NEW i \in DOMAIN q
          PROVE  /\ readied[i].kind # "ReportBlocked"
                 /\ q[i].kind = "ReportBlocked" => readied[i].kind = "ReportReady"
      BY <2>8 DEF Facts, Acks, Reports
    <2>10. DOMAIN t.outbox = DOMAIN q
      BY <2>7
    <2> HIDE DEF readied
    <2> QED BY <2>2, <2>4, <2>5, <2>7, <2>9, <2>10 DEF Blocked, Ready
  <1> QED BY <1>1, <1>2

\* The confirmation of a fact: the activating ACK makes the agent await a session,
\* the ready report ends the rotation, any other ACK changes nothing (state.rs
\* confirm_outbound).
LEMMA ConfirmMoves ==
  ASSUME NEW s \in States, verify(s), NEW event, NEW t,
         t = ConfirmOutbound(s, event).state
  PROVE  \/ t = s
         \/ SameRotationState(s, t)
         \/ /\ Blocked(s) /\ ~Ready(s) /\ s.reconnect_revision = None
            /\ Blocked(t) /\ ~Ready(t) /\ t.reconnect_revision # None
            /\ t.pending_inbound = s.pending_inbound /\ t.current = s.current
         \/ /\ Ready(s) /\ InboundSettled(s)
            /\ ~Blocked(t) /\ ~Ready(t)
            /\ t.pending_inbound = None /\ t.current = s.current
  <1> DEFINE Goal == \/ t = s
                     \/ SameRotationState(s, t)
                     \/ /\ Blocked(s) /\ ~Ready(s) /\ s.reconnect_revision = None
                        /\ Blocked(t) /\ ~Ready(t) /\ t.reconnect_revision # None
                        /\ t.pending_inbound = s.pending_inbound
                        /\ t.current = s.current
                     \/ /\ Ready(s) /\ InboundSettled(s)
                        /\ ~Blocked(t) /\ ~Ready(t)
                        /\ t.pending_inbound = None /\ t.current = s.current
             matching == {i \in DOMAIN s.outbox : s.outbox[i].event = event}
             index == CHOOSE i \in matching : TRUE
  <1> SUFFICES ASSUME t # s PROVE Goal
    OBVIOUS
  <1>1. /\ matching # {} /\ Confirmable(s, index)
        /\ verify(confirm_outbound(s, index)) /\ t = confirm_outbound(s, index)
    BY DEF ConfirmOutbound, persist_candidate, Effect
  <1>2. PICK i \in DOMAIN s.outbox :
          /\ Confirmable(s, i) /\ verify(confirm_outbound(s, i))
          /\ t = confirm_outbound(s, i)
    BY <1>1
  <1> HIDE DEF matching, index
  <1> DEFINE confirmed == s.outbox[i]
             rest == RemoveAt(s.outbox, i)
             Unlocked(j) == /\ rest[j].kind = "ReportBlocked"
                            /\ rest[j].position.revision
                                 = confirmed.activates_revision
             unlocks == Activates(confirmed) /\ \E j \in DOMAIN rest : Unlocked(j)
             reconnect == IF unlocks THEN confirmed.activates_revision
                          ELSE s.reconnect_revision
             pending == IF confirmed.kind = "ReportReady" THEN None
                        ELSE s.pending_inbound
  <1>3. t = [s EXCEPT !.outbox = rest, !.reconnect_revision = reconnect,
                      !.pending_inbound = pending]
    BY <1>2 DEF confirm_outbound
  <1>4. /\ t.outbox = rest /\ t.reconnect_revision = reconnect
        /\ t.pending_inbound = pending /\ t.current = s.current
    <2> HIDE DEF rest, reconnect, pending
    <2> QED BY <1>3 DEF States
  <1>5. /\ \A j \in DOMAIN rest : \E k \in DOMAIN s.outbox :
              k # i /\ rest[j] = s.outbox[k]
        /\ \A k \in DOMAIN s.outbox : k # i =>
              \E j \in DOMAIN rest : rest[j] = s.outbox[k]
    BY RemovedEntries
  <1>6. confirmed.kind \in {"Ack", "ReportReady", "ReportBlocked"}
    <2>1. confirmed \in Facts
      BY DEF States, Facts
    <2> HIDE DEF confirmed
    <2> QED BY <2>1 DEF Facts, Acks, Reports
  <1>7. confirmed.kind # "ReportBlocked"
    BY <1>2, BlockedReportStays
  <1> HIDE DEF rest
  <1>8. CASE confirmed.kind = "ReportReady"
    <2>1. Ready(s) /\ InboundSettled(s)
      BY <1>2, <1>8 DEF Ready, Confirmable
    <2>2. ASSUME NEW j \in DOMAIN rest
          PROVE  rest[j].kind \notin {"ReportBlocked", "ReportReady"}
      <3>1. PICK k \in DOMAIN s.outbox : k # i /\ rest[j] = s.outbox[k]
        BY <1>5
      <3> QED BY <1>8, <3>1 DEF verify, AtMostOneReport, IsReport
    <2>3. ~Blocked(t) /\ ~Ready(t)
      BY <1>4, <2>2 DEF Blocked, Ready
    <2>4. t.pending_inbound = None
      BY <1>4, <1>8
    <2> QED BY <1>4, <2>1, <2>3, <2>4
  <1>9. CASE confirmed.kind = "Ack"
    <2>1. (Blocked(t) <=> Blocked(s)) /\ (Ready(t) <=> Ready(s))
      BY <1>4, <1>5, <1>9 DEF Blocked, Ready
    <2>2. t.pending_inbound = s.pending_inbound
      BY <1>4, <1>9
    <2>3. CASE ~unlocks
      BY <1>4, <2>1, <2>2, <2>3 DEF SameRotationState
    <2>4. CASE unlocks
      <3>1. t.reconnect_revision = confirmed.activates_revision
        BY <1>4, <2>4
      <3>2. Activates(confirmed) /\ \E j \in DOMAIN rest : Unlocked(j)
        BY <2>4
      <3>3. Blocked(t)
        BY <1>4, <3>2 DEF Blocked
      <3>4. t.reconnect_revision # None
        BY <3>1, <3>2 DEF Activates
      <3>5. s.reconnect_revision = None
        BY <3>2 DEF verify, ActivationMatched
      <3>6. ~Ready(s)
        <4>1. PICK k \in DOMAIN s.outbox : s.outbox[k].kind = "ReportBlocked"
          BY <2>1, <3>3 DEF Blocked
        <4> QED BY <4>1 DEF Ready, verify, AtMostOneReport, IsReport
      <3> QED BY <1>4, <2>1, <2>2, <3>3, <3>4, <3>5, <3>6
    <2> QED BY <2>3, <2>4
  <1> QED BY <1>6, <1>7, <1>8, <1>9

\* The commit starts a rotation, and only when none is under way (agent.rs commit).
LEMMA CommitMoves ==
  ASSUME NEW s \in States, NEW c \in Commands, NEW date \in Nat, NEW t,
         t = Commit(s, c, date).state
  PROVE  \/ t = s
         \/ /\ ~Blocked(s) /\ ~Ready(s) /\ Blocked(t) /\ ~Ready(t)
            /\ t.reconnect_revision = s.reconnect_revision
            /\ t.pending_inbound # None /\ ~t.pending_inbound.settled
            /\ t.current.revision = s.current.revision + 1
            /\ verify(t)
  <1> SUFFICES ASSUME t # s
               PROVE  /\ ~Blocked(s) /\ ~Ready(s) /\ Blocked(t) /\ ~Ready(t)
                      /\ t.reconnect_revision = s.reconnect_revision
                      /\ t.pending_inbound # None /\ ~t.pending_inbound.settled
                      /\ t.current.revision = s.current.revision + 1
                      /\ verify(t)
    OBVIOUS
  <1> DEFINE kept == expire_command_journal(s, date)
             cmd == CommandData[c]
             next == accept(kept, cmd.id, c, NextPosition(s, c),
                            cmd.credential_generation, retention_deadline(date))
  <1>1. /\ cmd.id \in CommandIds /\ cmd.generation \in Nat /\ cmd.fence \in Nat
        /\ cmd.digest \in Digests /\ cmd.credential_generation \in Nat
        /\ c \in Fingerprints /\ retention_deadline(date) \in Nat
    BY CommandsAssumption DEF Fingerprints, retention_deadline
  <1>2. /\ kept \in States /\ kept.outbox = s.outbox
        /\ kept.reconnect_revision = s.reconnect_revision
    BY DEF expire_command_journal, States
  <1>3. s.current.revision \in Nat
    BY DEF States, Positions
  <1>4. NextPosition(s, c) \in Positions
    BY <1>1, <1>3 DEF NextPosition, next_revision, Positions
  <1>5. t = next /\ verify(t)
    BY DEF Commit, command_fingerprint, persist_candidate, Effect
  <1> HIDE DEF kept
  <1>6. PICK ack \in Acks, report \in Reports, pending \in PendingInbound :
          /\ report.kind = "ReportBlocked" /\ ~pending.settled
          /\ next.outbox = Append(Append(kept.outbox, ack), report)
          /\ next.current = NextPosition(s, c)
          /\ next.reconnect_revision = kept.reconnect_revision
          /\ next.pending_inbound = pending
    <2>1. PICK id \in CommandIds, position \in Positions, g \in Nat, d \in Nat :
            /\ id = cmd.id /\ position = NextPosition(s, c)
            /\ g = cmd.credential_generation /\ d = retention_deadline(date)
      BY <1>1, <1>4
    <2>2. PICK u : u = accept(kept, id, c, position, g, d)
      OBVIOUS
    <2>3. next = u
      BY <2>1, <2>2
    <2>4. \E ack \in Acks, report \in Reports, pending \in PendingInbound :
            Accepted(kept, id, c, position, d, u, ack, report, pending)
      BY <1>1, <1>2, <2>2, AcceptQueues
    <2> HIDE DEF next
    <2> QED BY <2>1, <2>3, <2>4 DEF Accepted
  <1>7. next.pending_inbound # None /\ ~next.pending_inbound.settled
    BY <1>6, NoneAssumption
  <1>8. next.current.revision = s.current.revision + 1
    BY <1>6 DEF NextPosition, next_revision
  <1> HIDE DEF next
  <1> DEFINE q == s.outbox
             r == t.outbox
  <1>9. q \in Seq(Facts) /\ ack \in Facts /\ report \in Facts /\ ack.kind = "Ack"
    BY DEF States, Facts, Acks
  <1>10. /\ Len(q) \in Nat /\ DOMAIN q = 1 .. Len(q)
         /\ DOMAIN r = DOMAIN q \union {Len(q) + 1, Len(q) + 2}
         /\ \A i \in DOMAIN q : r[i] = q[i]
         /\ r[Len(q) + 1] = ack /\ r[Len(q) + 2] = report
    BY <1>2, <1>5, <1>6, <1>9, TwoMore
  <1>11. Blocked(t)
    BY <1>6, <1>10 DEF Blocked
  <1>12. ASSUME NEW i \in DOMAIN q
         PROVE  q[i].kind \notin {"ReportBlocked", "ReportReady"}
    <2>1. /\ i \in DOMAIN r /\ Len(q) + 2 \in DOMAIN r /\ i # Len(q) + 2
          /\ r[i] = q[i]
      BY <1>10
    <2>2. ~(IsReport(r[i]) /\ IsReport(r[Len(q) + 2]))
      BY <1>5, <2>1 DEF verify, AtMostOneReport
    <2> QED BY <1>6, <1>10, <2>1, <2>2 DEF IsReport
  <1>13. ~Blocked(s) /\ ~Ready(s) /\ ~Ready(t)
    BY <1>6, <1>9, <1>10, <1>12 DEF Blocked, Ready
  <1> QED BY <1>2, <1>5, <1>6, <1>7, <1>8, <1>11, <1>13

-----------------------------------------------------------------------------
(* The refinement. *)

\* The abstract state of a manifest.
LEMMA AbstractState ==
  ASSUME StoreInv, state # None
  PROVE  /\ state \in States /\ verify(state)
         /\ HandoffPhase = Phase(state)
  <1>1. state \in States /\ verify(state)
    BY DEF StoreInv, TypeOK, ManifestVerifies
  <1>2. HandoffPhase = PhaseIn(state)
    BY DEF HandoffPhase, PhaseIn
  <1> QED BY <1>1, <1>2, PhaseFollowsReport

\* The same, after a step.
LEMMA AbstractNext ==
  ASSUME StoreInv', state' # None
  PROVE  /\ state' \in States /\ verify(state')
         /\ HandoffPhase' = Phase(state')
  <1>1. state' \in States /\ verify(state')
    BY DEF StoreInv, TypeOK, ManifestVerifies
  <1>2. HandoffPhase' = PhaseIn(state')
    BY DEF HandoffPhase, PhaseIn
  <1> QED BY <1>1, <1>2, PhaseFollowsReport

\* A step that changes none of what the abstract state is made of is a stutter.
LEMMA SameStutters ==
  ASSUME StoreInv, StoreInv', state # None, state' # None,
         SameRotationState(state, state')
  PROVE  UNCHANGED Handoff!handoffVars
  <1>1. HandoffPhase = Phase(state) /\ HandoffPhase' = Phase(state')
    BY AbstractState, AbstractNext
  <1>2. Phase(state') = Phase(state)
    BY DEF SameRotationState, Phase
  <1>3. InboundSettled(state') <=> InboundSettled(state)
    BY DEF SameRotationState, InboundSettled
  <1> QED BY <1>1, <1>2, <1>3 DEF Handoff!handoffVars, SameRotationState

HandoffStep == [Handoff!Next]_(Handoff!handoffVars)

\* Every step of the agent is a step of the abstract protocol, or none.
LEMMA StepRefines ==
  ASSUME StoreInv, StoreInv', [Next]_vars
  PROVE  HandoffStep
  <1>1. ASSUME state' = state PROVE HandoffStep
    <2>1. HandoffPhase' = HandoffPhase
      BY <1>1 DEF HandoffPhase, rotation_in_flight
    <2> QED BY <1>1, <2>1 DEF HandoffStep, Handoff!handoffVars
  <1>2. CASE PersistInitial
    <2>1. state = None /\ state' = Initial(InitialCredentialGeneration, InitialPosition)
      BY <1>2 DEF PersistInitial, StoreInv, Bootstrap
    <2>2. /\ state'.outbox = << >> /\ state'.pending_inbound = None
          /\ state'.current = InitialPosition
      BY <2>1 DEF Initial
    <2>3. state' # None
      BY <1>2 DEF PersistInitial, StoreInv, TypeOK
    <2>4. HandoffPhase = "unprovisioned" /\ HandoffPhase' = "idle"
      BY <2>1, <2>2, <2>3 DEF HandoffPhase, rotation_in_flight
    <2>5. ~InboundSettled(state')
      BY <2>2 DEF InboundSettled
    <2>6. InitialPosition.revision \in Nat \ {0}
      BY AgentAssumption
    <2>7. Handoff!Provision
      BY <2>1, <2>2, <2>3, <2>4, <2>5, <2>6 DEF Handoff!Provision
    <2> QED BY <2>7 DEF HandoffStep, Handoff!Next
  <1>3. ASSUME Serving \/ CommitPersist
        PROVE  /\ state # None /\ state \in States /\ verify(state)
               /\ HandoffPhase = Phase(state) /\ now \in Nat
    BY <1>3, AbstractState, RunningState DEF Serving, CommitPersist
  <1>4. ASSUME Serving, UNCHANGED process
        PROVE  state' # None /\ HandoffPhase' = Phase(state')
    BY <1>4, AbstractNext DEF Serving, StoreInv, TypeOK
  <1>5. ASSUME Serving, UNCHANGED process, SameRotationState(state, state')
        PROVE  HandoffStep
    BY <1>3, <1>4, <1>5, SameStutters DEF HandoffStep
  <1>6. ASSUME NEW topic \in Topics, NEW c \in Commands,
               NEW resolved \in CatalogAnswers, apply_command(topic, c, resolved)
        PROVE  HandoffStep
    <2>1. CASE /\ Serving /\ UNCHANGED process
               /\ Takes(ApplyWithoutCommit(state, topic, c, resolved, now))
      BY <1>3, <1>5, <2>1, DeliverySame DEF Takes
    <2> QED BY <1>1, <1>6, <2>1 DEF apply_command, CommitInstall, CommitConflict, vars
  <1>7. ASSUME NEW topic \in Topics, NEW id \in CommandIds, NEW payload \in Malformed,
               RejectMalformedDelivery(topic, id, payload)
        PROVE  HandoffStep
    BY <1>3, <1>5, <1>7, DeliverySame DEF RejectMalformedDelivery, Takes
  <1>8. ASSUME NEW event, ConfirmFact(event)
        PROVE  HandoffStep
    <2>1. /\ Serving /\ UNCHANGED process
          /\ state' = ConfirmOutbound(state, event).state
      BY <1>8 DEF ConfirmFact, Takes
    <2>2. CASE /\ Blocked(state) /\ ~Ready(state) /\ state.reconnect_revision = None
               /\ Blocked(state') /\ ~Ready(state')
               /\ state'.reconnect_revision # None
               /\ state'.pending_inbound = state.pending_inbound
               /\ state'.current = state.current
      <3>1. Phase(state) = "committed" /\ Phase(state') = "acknowledged"
        BY <2>2 DEF Phase
      <3>2. InboundSettled(state') <=> InboundSettled(state)
        BY <2>2 DEF InboundSettled
      <3>3. Handoff!ConfirmAck
        BY <1>3, <1>4, <2>1, <2>2, <3>1, <3>2 DEF Handoff!ConfirmAck
      <3> QED BY <3>3 DEF HandoffStep, Handoff!Next
    <2>3. CASE /\ Ready(state) /\ InboundSettled(state)
               /\ ~Blocked(state') /\ ~Ready(state')
               /\ state'.pending_inbound = None /\ state'.current = state.current
      <3>1. Phase(state) = "connected" /\ Phase(state') = "idle"
        BY <2>3 DEF Phase
      <3>2. ~InboundSettled(state')
        BY <2>3 DEF InboundSettled
      <3>3. Handoff!ConfirmReport
        BY <1>3, <1>4, <2>1, <2>3, <3>1, <3>2 DEF Handoff!ConfirmReport
      <3> QED BY <3>3 DEF HandoffStep, Handoff!Next
    <2> QED BY <1>1, <1>3, <1>5, <2>1, <2>2, <2>3, ConfirmMoves
  <1>9. ASSUME Serving, MarkConnected(state.current.revision)
        PROVE  HandoffStep
    <2>1. PICK revision : revision = state.current.revision
      OBVIOUS
    <2>2. /\ Serving /\ UNCHANGED process /\ revision \in Nat
          /\ state' = mark_current_credential_connected(state, revision).state
      BY <1>3, <1>9, <2>1 DEF MarkConnected, Takes, States, Positions
    <2>3. CASE /\ Blocked(state) /\ ~Ready(state) /\ state.reconnect_revision # None
               /\ ~Blocked(state') /\ Ready(state')
               /\ state'.pending_inbound = state.pending_inbound
               /\ state'.current = state.current
      <3>1. Phase(state) = "acknowledged" /\ Phase(state') = "connected"
        BY <2>3 DEF Phase
      <3>2. InboundSettled(state') <=> InboundSettled(state)
        BY <2>3 DEF InboundSettled
      <3>3. Handoff!ConnectWithNewCredential
        BY <1>3, <1>4, <2>2, <2>3, <3>1, <3>2 DEF Handoff!ConnectWithNewCredential
      <3> QED BY <3>3 DEF HandoffStep, Handoff!Next
    <2> QED BY <1>1, <1>3, <2>2, <2>3, ConnectMoves
  <1>10. ASSUME NEW token, MarkSettled(token)
         PROVE  HandoffStep
    <2>1. /\ Serving /\ UNCHANGED process
          /\ state' = persist_inbound_settlement(state, token).state
      BY <1>10 DEF MarkSettled, Takes
    <2>2. CASE /\ state.pending_inbound # None /\ InboundSettled(state')
               /\ state'.outbox = state.outbox /\ state'.current = state.current
               /\ state'.reconnect_revision = state.reconnect_revision
      <3>1. Phase(state') = Phase(state)
        BY <2>2 DEF Phase, Blocked, Ready
      <3>2. Blocked(state) \/ Ready(state)
        BY <1>3, <2>1, <2>2, IdleFacts
      <3>3. Phase(state) \in {"committed", "acknowledged", "connected"}
        BY <3>2 DEF Phase
      <3>4. Handoff!SettleDelivery
        BY <1>3, <1>4, <2>1, <2>2, <3>1, <3>3 DEF Handoff!SettleDelivery
      <3> QED BY <3>4 DEF HandoffStep, Handoff!Next
    <2> QED BY <1>1, <1>3, <2>1, <2>2, SettleMoves
  <1>11. CASE CommitPersist
    <2>1. /\ committing \in Commands /\ state' = Commit(state, committing, now).state
          /\ process' = "idle"
      BY <1>11 DEF CommitPersist, Takes, StoreInv, TypeOK
    <2>2. state' # None /\ HandoffPhase' = Phase(state')
      BY <2>1, AbstractNext DEF StoreInv, TypeOK
    <2>3. CASE /\ ~Blocked(state) /\ ~Ready(state) /\ Blocked(state') /\ ~Ready(state')
               /\ state'.reconnect_revision = state.reconnect_revision
               /\ state'.pending_inbound # None /\ ~state'.pending_inbound.settled
               /\ state'.current.revision = state.current.revision + 1
      <3>1. state.pending_inbound = None /\ state.reconnect_revision = None
        BY <1>3, <1>11, <2>3, IdleFacts
      <3>2. Phase(state) = "idle" /\ Phase(state') = "committed"
        BY <2>3, <3>1 DEF Phase
      <3>3. ~InboundSettled(state) /\ ~InboundSettled(state')
        BY <2>3, <3>1 DEF InboundSettled
      <3>4. Handoff!CommitRotation
        BY <1>3, <1>11, <2>2, <2>3, <3>2, <3>3 DEF Handoff!CommitRotation
      <3> QED BY <3>4 DEF HandoffStep, Handoff!Next
    <2>4. \/ state' = state
          \/ /\ ~Blocked(state) /\ ~Ready(state) /\ Blocked(state') /\ ~Ready(state')
             /\ state'.reconnect_revision = state.reconnect_revision
             /\ state'.pending_inbound # None /\ ~state'.pending_inbound.settled
             /\ state'.current.revision = state.current.revision + 1
      BY <1>3, <1>11, <2>1, CommitMoves
    <2> QED BY <1>1, <2>3, <2>4
  <1>12. CASE OpenExisting \/ OpenFresh \/ CommitFails \/ Crash \/ Tick
              \/ UNCHANGED vars
    BY <1>1, <1>12 DEF OpenExisting, OpenFresh, CommitFails, Crash, Tick, vars
  <1> QED BY <1>2, <1>6, <1>7, <1>8, <1>9, <1>10, <1>11, <1>12 DEF Next

\* The agent implements the rotation protocol: whatever the order of calls, crashes
\* and restarts, no report is confirmed without a confirmed ACK, a session on the
\* new credential and a settled delivery, and no second rotation starts before it
\* (state.rs accept, confirm_outbound, mark_reconnected, mark_inbound_settled).
THEOREM RefinesHandoff == Spec => ImplementsHandoff
  <1>1. Init => Handoff!Init
    BY DEF Init, Handoff!Init, HandoffPhase
  <1>2. StoreInv /\ StoreInv' /\ [Next]_vars => [Handoff!Next]_(Handoff!handoffVars)
    BY StepRefines DEF HandoffStep
  <1> QED BY <1>1, <1>2, StoreInvariant, PTL DEF Spec, ImplementsHandoff, Handoff!Spec

-----------------------------------------------------------------------------
(***************************************************************************)
(* The candidates the handlers build: a queued ACK agrees with the         *)
(* journal, open intake reserves the worst case, and verify refuses a      *)
(* candidate only in the cases ValidateRefusesOnlyExpired names.           *)
(***************************************************************************)

\* Between install_revision and persist, what apply_command checked still holds.
CommitChecked ==
  process = "committing" =>
     /\ command_match(state, CommandData[committing].id,
                      command_fingerprint(committing), now) = "unknown"
     /\ ~rotation_in_flight(state)
     /\ CommitReserves(state, now)

CandidateInv ==
  /\ StoreInv
  /\ state # None => Consistent(state)
  /\ CommitChecked

\* The manifest stays consistent, whatever step is taken.
LEMMA ConsistentStep ==
  ASSUME CandidateInv, [Next]_vars
  PROVE  state' # None => Consistent(state')
  <1> DEFINE Goal == state' # None => Consistent(state')
  <1> USE DEF CandidateInv
  <1>1. ASSUME state' = state PROVE Goal
    BY <1>1
  <1>2. ASSUME process \in {"idle", "committing"}
        PROVE  state \in States /\ verify(state) /\ now \in Nat /\ Consistent(state)
    BY <1>2, RunningState
  <1>3. CASE PersistInitial
    <2>1. /\ state'.outbox = << >> /\ state'.command_journal = {}
          /\ state'.device_sequence = 0
      BY <1>3 DEF PersistInitial, Initial
    <2>2. DOMAIN << >> = {} /\ IsFiniteSet({})
      BY EmptySeq, FS_EmptySet
    <2> QED BY <2>1, <2>2
            DEF Consistent, JournalSound, ActivationsFirst, AckAgrees, NumbersUnique
  <1>4. ASSUME NEW topic \in Topics, NEW c \in Commands,
               NEW resolved \in CatalogAnswers, apply_command(topic, c, resolved)
        PROVE  Goal
    <2>1. CASE /\ Serving
               /\ Takes(ApplyWithoutCommit(state, topic, c, resolved, now))
      BY <1>2, <2>1, ArgumentTypes, DeliveryConsistent DEF Serving, Takes
    <2> QED BY <1>1, <1>4, <2>1 DEF apply_command, CommitInstall, CommitConflict, vars
  <1>5. ASSUME NEW topic \in Topics, NEW id \in CommandIds, NEW payload \in Malformed,
               RejectMalformedDelivery(topic, id, payload)
        PROVE  Goal
    BY <1>2, <1>5, ArgumentTypes, DeliveryConsistent
    DEF RejectMalformedDelivery, Serving, Takes
  <1>6. ASSUME NEW event, ConfirmFact(event) PROVE Goal
    BY <1>2, <1>6, OthersConsistent DEF ConfirmFact, Serving, Takes
  <1>7. ASSUME NEW revision, MarkConnected(revision) PROVE Goal
    BY <1>2, <1>7, OthersConsistent DEF MarkConnected, Serving, Takes
  <1>8. ASSUME NEW token, MarkSettled(token) PROVE Goal
    BY <1>2, <1>8, OthersConsistent DEF MarkSettled, Serving, Takes
  <1>9. CASE CommitPersist
    <2>1. committing \in Commands
      BY <1>9 DEF CommitPersist, StoreInv, TypeOK
    <2> QED BY <1>2, <1>9, <2>1, OthersConsistent DEF CommitPersist, Takes
  <1>10. CASE OpenExisting \/ OpenFresh \/ CommitFails \/ Crash \/ Tick
              \/ UNCHANGED vars
    BY <1>1, <1>10 DEF OpenExisting, OpenFresh, CommitFails, Crash, Tick, vars
  <1> HIDE DEF Goal
  <1>11. Goal
    BY <1>3, <1>4, <1>5, <1>6, <1>7, <1>8, <1>9, <1>10 DEF Next, Goal
  <1> QED BY <1>11 DEF Goal

\* Nothing but commit runs between install_revision and persist.
LEMMA CheckedStep ==
  ASSUME CandidateInv, [Next]_vars
  PROVE  CommitChecked'
  <1> SUFFICES ASSUME process' = "committing" PROVE CommitChecked'
    BY DEF CommitChecked
  <1>1. CASE \E topic \in Topics, c \in Commands, resolved \in CatalogAnswers :
                CommitInstall(topic, c, resolved)
    <2>1. PICK topic \in Topics, c \in Commands, resolved \in CatalogAnswers :
            CommitInstall(topic, c, resolved)
      BY <1>1
    <2>2. /\ state' = state /\ now' = now /\ committing' = c
          /\ Commits(state, topic, c, resolved, now) /\ CommitReserves(state, now)
      BY <2>1 DEF CommitInstall
    <2>3. /\ command_match(state, CommandData[c].id, command_fingerprint(c), now)
               = "unknown"
          /\ ~rotation_in_flight(state)
      BY <2>2 DEF Commits
    <2> QED BY <2>2, <2>3 DEF CommitChecked
  <1>2. CASE UNCHANGED vars
    BY <1>2 DEF CandidateInv, CommitChecked, vars
  <1>3. ASSUME Next
        PROVE  \/ UNCHANGED vars
               \/ \E topic \in Topics, c \in Commands, resolved \in CatalogAnswers :
                     CommitInstall(topic, c, resolved)
    BY <1>3
    DEF Next, OpenExisting, OpenFresh, PersistInitial, apply_command, CommitConflict,
        CommitPersist, CommitFails, RejectMalformedDelivery, ConfirmFact,
        MarkConnected, MarkSettled, Crash, Tick, Serving
  <1> QED BY <1>1, <1>2, <1>3

\* CandidateInv is an invariant of every behaviour of the agent.
LEMMA CandidateInvariant == Spec => []CandidateInv
  <1>1. Init => CandidateInv
    BY InitEstablishes DEF CandidateInv, Init, CommitChecked
  <1>2. CandidateInv /\ [Next]_vars => CandidateInv'
    BY NextPreserves, ConsistentStep, CheckedStep DEF CandidateInv
  <1> QED BY <1>1, <1>2, PTL DEF Spec

\* A queued terminal ACK says what the journal says: the two are written together,
\* expire apart and meet again in replay_command (state.rs accept, reject,
\* replay_command, confirm_outbound).
THEOREM AckMatchesJournal == Spec => []QueuedAckAgreesWithJournal
  <1>1. CandidateInv => QueuedAckAgreesWithJournal
    BY DEF CandidateInv, Consistent, AckAgrees, QueuedAckAgreesWithJournal
  <1> QED BY <1>1, CandidateInvariant, PTL

\* While command_intake_open holds, no delivery of any command, well formed or not,
\* can end in OutboxFull or CommandJournalFull, whose error stops the process
\* (agent.rs command_intake_open).
THEOREM OpenIntakeFits == Spec => []IntakeReservesWorstCase
  <1>1. CandidateInv => IntakeReservesWorstCase
    <2> DEFINE full == {"OutboxFull", "CommandJournalFull"}
    <2> SUFFICES ASSUME CandidateInv, Serving, command_intake_open(state, now)
                 PROVE  IntakeReservesWorstCase
      BY DEF IntakeReservesWorstCase
    <2>1. state \in States /\ verify(state) /\ now \in Nat /\ Consistent(state)
      BY RunningState DEF CandidateInv, Serving
    <2>2. /\ reserve_outbox(state, 2)
          /\ reserve_command_journal(expire_command_journal(state, now))
      BY <2>1, ExpiredHasRoom DEF command_intake_open, Consistent, JournalSound
    <2>3. CommitReserves(state, now)
      <3>1. PICK k : k = expire_command_journal(state, now)
        OBVIOUS
      <3>2. k.outbox = state.outbox
        BY <2>1, <3>1, ExpireFacts
      <3> QED BY <2>2, <3>1, <3>2 DEF CommitReserves, reserve_outbox
    <2>4. ASSUME NEW topic \in Topics, NEW c \in Commands,
                 NEW resolved \in CatalogAnswers,
                 ~Commits(state, topic, c, resolved, now)
          PROVE  ApplyWithoutCommit(state, topic, c, resolved, now).result \notin full
      BY <2>1, <2>2, <2>4, ArgumentTypes, ApplyFits
    <2>5. ASSUME NEW topic \in Topics, NEW id \in CommandIds, NEW payload \in Malformed
          PROVE  reject_malformed_delivery(state, topic, id, payload, now).result
                   \notin full
      BY <2>1, <2>2, MalformedFits
    <2> QED BY <2>3, <2>4, <2>5 DEF IntakeReservesWorstCase
  <1> QED BY <1>1, CandidateInvariant, PTL

\* A command that has not been forgotten too soon is known, or nothing of it is
\* outstanding.
LEMMA NotForgotten ==
  ASSUME NEW id, NEW f, ~ForgottenTooSoon(id),
         command_match(state, id, f, now) = "unknown"
  PROVE  Unknown(state, id, now)
  <1>1. LiveEntries(state, id, now) = {}
    BY DEF command_match
  <1> QED BY <1>1 DEF ForgottenTooSoon, Unknown

\* validate() refuses a candidate only for a command whose journal entry expired
\* while a fact of it is outstanding, at an exhausted sequence counter, or for the
\* confirmation of a blocked report (agent.rs persist_candidate, state.rs verify).
THEOREM ValidateIsSafetyNet == Spec => []ValidateRefusesOnlyExpired
  <1>1. CandidateInv => ValidateRefusesOnlyExpired
    <2> SUFFICES ASSUME CandidateInv PROVE ValidateRefusesOnlyExpired
      OBVIOUS
    <2>1. ASSUME process \in {"idle", "committing"}
          PROVE  /\ state \in States /\ verify(state) /\ now \in Nat
                 /\ Consistent(state)
                 /\ ~SequenceExhausted => Numbers(state)
      <3>1. /\ state \in States /\ verify(state) /\ now \in Nat /\ Consistent(state)
        BY <2>1, RunningState DEF CandidateInv
      <3>2. state.device_sequence \in Nat /\ SequenceMax \in Nat
        BY <3>1, LimitsAssumption DEF States
      <3> QED BY <3>1, <3>2 DEF SequenceExhausted, Numbers
    <2>2. ASSUME Serving, ~SequenceExhausted,
                 NEW topic \in Topics, NEW c \in Commands,
                 NEW resolved \in CatalogAnswers, ~ForgottenTooSoon(CommandData[c].id)
          PROVE  ApplyWithoutCommit(state, topic, c, resolved, now).result
                   # "InvalidState"
      <3>1. /\ state \in States /\ verify(state) /\ now \in Nat
            /\ Consistent(state) /\ Numbers(state)
        BY <2>1, <2>2 DEF Serving
      <3>2. command_match(state, CommandData[c].id, c, now) = "unknown" =>
              Unknown(state, CommandData[c].id, now)
        BY <2>2, NotForgotten
      <3> QED BY <3>1, <3>2, ArgumentTypes, ApplyAccepted
    <2>3. ASSUME Serving, ~SequenceExhausted, NEW topic \in Topics,
                 NEW id \in CommandIds, NEW payload \in Malformed, ~ForgottenTooSoon(id)
          PROVE  reject_malformed_delivery(state, topic, id, payload, now).result
                   # "InvalidState"
      <3>1. /\ state \in States /\ verify(state) /\ now \in Nat
            /\ Consistent(state) /\ Numbers(state)
        BY <2>1, <2>3 DEF Serving
      <3>2. \A f : command_match(state, id, f, now) = "unknown" => Unknown(state, id, now)
        BY <2>3, NotForgotten
      <3> QED BY <3>1, <3>2, ArgumentTypes, MalformedAccepted
    <2>4. ASSUME Serving, NEW event,
                 ConfirmOutbound(state, event).result = "InvalidState"
          PROVE  \E i \in DOMAIN state.outbox :
                    /\ state.outbox[i].event = event
                    /\ state.outbox[i].kind = "ReportBlocked"
      <3> DEFINE matching == {i \in DOMAIN state.outbox : state.outbox[i].event = event}
                 index == CHOOSE i \in matching : TRUE
      <3>1. state \in States /\ verify(state) /\ Consistent(state)
        BY <2>1, <2>4 DEF Serving
      <3>2. ~(matching = {} \/ ~Confirmable(state, index))
        BY <2>4 DEF ConfirmOutbound, Effect
      <3>3. /\ index \in DOMAIN state.outbox /\ state.outbox[index].event = event
            /\ persist_candidate(state, confirm_outbound(state, index),
                                 "Confirmed").result = "InvalidState"
        BY <2>4, <3>2 DEF ConfirmOutbound
      <3> HIDE DEF index
      <3>4. state.outbox[index].kind = "ReportBlocked"
        BY <3>1, <3>3, ConfirmVerifies, NotRefused
      <3> QED BY <3>3, <3>4
    <2>5. ASSUME Serving
          PROVE  /\ mark_current_credential_connected(state, state.current.revision)
                      .result # "InvalidState"
                 /\ persist_inbound_settlement(state, None).result # "InvalidState"
      <3>1. state \in States /\ verify(state)
        BY <2>1, <2>5 DEF Serving
      <3>2. state.reconnect_revision = state.current.revision =>
              persist_candidate(state, mark_reconnected(state), "Connected").result
                # "InvalidState"
        BY <3>1, ReconnectVerifies, NotRefused
      <3>3. state.pending_inbound # None =>
              persist_candidate(state, mark_inbound_settled(state), "Settled").result
                # "InvalidState"
        BY <3>1, SettleVerifies, NotRefused
      <3>4. mark_current_credential_connected(state, state.current.revision).result
              # "InvalidState"
        BY <3>2 DEF mark_current_credential_connected, Effect
      <3>5. persist_inbound_settlement(state, None).result # "InvalidState"
        BY <3>3 DEF persist_inbound_settlement, Effect
      <3> QED BY <3>4, <3>5
    <2>6. ASSUME process = "committing", ~SequenceExhausted,
                 ~ForgottenTooSoon(CommandData[committing].id)
          PROVE  Commit(state, committing, now).result # "InvalidState"
      <3>1. PICK c \in Commands : c = committing
        BY <2>6 DEF CandidateInv, StoreInv, TypeOK
      <3>2. /\ state \in States /\ verify(state) /\ now \in Nat
            /\ Consistent(state) /\ Numbers(state)
        BY <2>1, <2>6
      <3>3. /\ command_match(state, CommandData[c].id, command_fingerprint(c), now)
                 = "unknown"
            /\ ~rotation_in_flight(state) /\ CommitReserves(state, now)
        BY <2>6, <3>1 DEF CandidateInv, CommitChecked
      <3>4. Unknown(state, CommandData[c].id, now)
        BY <2>6, <3>1, <3>3, NotForgotten
      <3> QED BY <3>1, <3>2, <3>3, <3>4, CommitAccepted
    <2> QED BY <2>2, <2>3, <2>4, <2>5, <2>6 DEF ValidateRefusesOnlyExpired
  <1> QED BY <1>1, CandidateInvariant, PTL

=============================================================================
