---------------------------- MODULE HandlerProofs ----------------------------
(***************************************************************************)
(* What one call of a handler does, for every state and every value of the *)
(* constants: its result is a state and verifies if the state before it    *)
(* did, it leaves the position alone unless it commits, queued facts stay, *)
(* and journal, outbox and counter stay consistent with each other.  The   *)
(* proofs about the state machines built from the handlers rest on these   *)
(* lemmas.                                                                 *)
(***************************************************************************)
EXTENDS AgentHandlers, SequenceTheorems, FiniteSetTheorems, TLAPS

Facts == Acks \union Reports

-----------------------------------------------------------------------------
(* What the transitions of StateV1 do to a state. *)

\* Everything a handler other than commit and confirm promises of its result.
Extends(s, t) ==
  /\ t \in States
  /\ t.current = s.current
  /\ t.credential_generation = s.credential_generation
  /\ t.device_sequence >= s.device_sequence
  /\ KeepsFacts(s.outbox, t.outbox)

\* SaturatingSucc never goes backwards (u64::saturating_add in state.rs).
LEMMA SaturatingSuccMonotonic ==
  ASSUME NEW n \in Nat
  PROVE  SaturatingSucc(n) \in Nat /\ SaturatingSucc(n) >= n
  BY LimitsAssumption DEF SaturatingSucc

\* Pushing a fact keeps the queued ones in place.
LEMMA AppendKeepsFacts ==
  ASSUME NEW q \in Seq(Facts), NEW e \in Facts
  PROVE  /\ Append(q, e) \in Seq(Facts)
         /\ KeepsFacts(q, Append(q, e))
  <1>1. /\ Append(q, e) \in Seq(Facts)
        /\ Len(Append(q, e)) = Len(q) + 1
        /\ \A i \in 1 .. Len(q) : Append(q, e)[i] = q[i]
    BY AppendProperties
  <1> QED BY <1>1 DEF KeepsFacts, SameFact

\* An outbox that does not change keeps its facts.
LEMMA KeepsFactsReflexive ==
  ASSUME NEW q \in Seq(Facts)
  PROVE  KeepsFacts(q, q)
  BY DEF KeepsFacts, SameFact

\* A transition that uses no new sequence number.
LEMMA SameNumberExtends ==
  ASSUME NEW s \in States, NEW t \in States,
         t.current = s.current,
         t.credential_generation = s.credential_generation,
         t.device_sequence = s.device_sequence,
         KeepsFacts(s.outbox, t.outbox)
  PROVE  Extends(s, t)
  <1>1. s.device_sequence \in Nat
    BY DEF States
  <1> QED BY <1>1 DEF Extends

\* Expiry prunes the journal and nothing else.
LEMMA ExpireType ==
  ASSUME NEW s \in States, NEW t
  PROVE  /\ expire_command_journal(s, t) \in States
         /\ expire_command_journal(s, t)
              = [s EXCEPT !.command_journal =
                   expire_command_journal(s, t).command_journal]
  BY DEF States, expire_command_journal

\* The ACK a rejection queues and journals.
LEMMA AckType ==
  ASSUME NEW id \in CommandIds, NEW event \in Events, NEW n \in Nat,
         NEW r \in Rejections \union {None}, NEW a \in Nat \union {None},
         NEW b \in BOOLEAN
  PROVE  Ack(event, id, n, r, a, b) \in Acks
  BY DEF Ack, Acks

\* The three shapes of event id.
LEMMA EventTypes ==
  ASSUME NEW id \in CommandIds
  PROVE  /\ AckEvent(id) \in Events
         /\ ReportEvent(id) \in Events
         /\ \A f \in Fingerprints : RejectedEvent(id, f) \in Events
  BY DEF AckEvent, ReportEvent, RejectedEvent, Events

\* reject queues one ACK and journals it.
LEMMA RejectExtends ==
  ASSUME NEW s \in States, NEW id \in CommandIds, NEW f \in Fingerprints,
         NEW r \in Rejections \union {None}, NEW t \in Nat
  PROVE  Extends(s, reject(s, id, f, r, t))
  <1> DEFINE n == SaturatingSucc(s.device_sequence)
             ack == Ack(AckEvent(id), id, n, r, None, FALSE)
  <1>1. s.device_sequence \in Nat /\ s.outbox \in Seq(Facts)
    BY DEF States, Facts
  <1>2. n \in Nat /\ n >= s.device_sequence
    BY <1>1, SaturatingSuccMonotonic
  <1>3. ack \in Acks
    BY <1>2, AckType, EventTypes
  <1>4. /\ Append(s.outbox, ack) \in Seq(Facts)
        /\ KeepsFacts(s.outbox, Append(s.outbox, ack))
    BY <1>1, <1>3, AppendKeepsFacts DEF Facts
  <1>5. StoredCommand(id, f, ack, t) \in StoredCommands
    BY <1>3 DEF StoredCommand, StoredCommands
  <1> HIDE DEF n, ack
  <1>6. reject(s, id, f, r, t)
          = [s EXCEPT !.device_sequence = n,
                      !.command_journal = @ \union {StoredCommand(id, f, ack, t)},
                      !.outbox = Append(@, ack)]
    BY DEF reject, n, ack
  <1> DEFINE journal == s.command_journal \union {StoredCommand(id, f, ack, t)}
  <1>7. journal \in SUBSET StoredCommands
    BY <1>5 DEF States
  <1>8. /\ reject(s, id, f, r, t).current = s.current
        /\ reject(s, id, f, r, t).credential_generation = s.credential_generation
        /\ reject(s, id, f, r, t).device_sequence = n
        /\ reject(s, id, f, r, t).outbox = Append(s.outbox, ack)
    BY <1>6 DEF States
  <1>9. reject(s, id, f, r, t)
          = [s EXCEPT !.device_sequence = n, !.command_journal = journal,
                      !.outbox = Append(s.outbox, ack)]
    BY <1>6
  <1> HIDE DEF journal
  <1>10. reject(s, id, f, r, t) \in States
    BY <1>2, <1>4, <1>7, <1>9 DEF States, Facts
  <1> QED BY <1>2, <1>4, <1>8, <1>10 DEF Extends

\* A conflicting replay queues one rejection.
LEMMA RejectConflictingExtends ==
  ASSUME NEW s \in States, NEW id \in CommandIds, NEW f \in Fingerprints
  PROVE  Extends(s, reject_conflicting_replay(s, id, f))
  <1> DEFINE n == SaturatingSucc(s.device_sequence)
             ack == Ack(RejectedEvent(id, f), id, n, "MalformedCommand", None,
                        FALSE)
  <1>1. s.device_sequence \in Nat /\ s.outbox \in Seq(Facts)
    BY DEF States, Facts
  <1>2. n \in Nat /\ n >= s.device_sequence
    BY <1>1, SaturatingSuccMonotonic
  <1>3. ack \in Acks
    BY <1>2, AckType, EventTypes DEF Rejections
  <1>4. /\ Append(s.outbox, ack) \in Seq(Facts)
        /\ KeepsFacts(s.outbox, Append(s.outbox, ack))
    BY <1>1, <1>3, AppendKeepsFacts DEF Facts
  <1> HIDE DEF n, ack
  <1>5. reject_conflicting_replay(s, id, f)
          = [s EXCEPT !.device_sequence = n, !.outbox = Append(@, ack)]
    BY DEF reject_conflicting_replay, n, ack
  <1>6. /\ reject_conflicting_replay(s, id, f).current = s.current
        /\ reject_conflicting_replay(s, id, f).credential_generation
             = s.credential_generation
        /\ reject_conflicting_replay(s, id, f).device_sequence = n
        /\ reject_conflicting_replay(s, id, f).outbox = Append(s.outbox, ack)
    BY <1>5 DEF States
  <1>7. reject_conflicting_replay(s, id, f) \in States
    BY <1>2, <1>4, <1>5 DEF States, Facts
  <1> QED BY <1>2, <1>4, <1>6, <1>7 DEF Extends

\* The journal entry that command_match found is the one that is replayed.
LEMMA ReplayExtends ==
  ASSUME NEW s \in States, NEW id, NEW f, NEW t,
         command_match(s, id, f, t) = "same"
  PROVE  Extends(s, replay_command(s, id, f))
  <1> DEFINE Matches(c) == c.command_id = id /\ c.fingerprint = f
             command == CHOOSE c \in s.command_journal : Matches(c)
             ack == ReplayedAck(command.acknowledgement)
  <1>1. \E c \in s.command_journal : Matches(c)
    BY DEF command_match, LiveEntries
  <1>2. command \in s.command_journal
    BY <1>1
  <1>3. command.acknowledgement \in Acks
    BY <1>2 DEF States, StoredCommands
  <1> HIDE DEF command
  <1>4. ack \in Acks
    BY <1>3 DEF ReplayedAck, Acks
  <1>5. s.outbox \in Seq(Facts)
    BY DEF States, Facts
  <1>6. /\ Append(s.outbox, ack) \in Seq(Facts)
        /\ KeepsFacts(s.outbox, Append(s.outbox, ack))
    BY <1>4, <1>5, AppendKeepsFacts DEF Facts
  <1> HIDE DEF ack
  <1>7. replay_command(s, id, f) = [s EXCEPT !.outbox = Append(@, ack)]
    BY DEF replay_command, ack, command
  <1>8. replay_command(s, id, f) \in States
    BY <1>6, <1>7 DEF States, Facts
  <1>9. /\ replay_command(s, id, f).current = s.current
        /\ replay_command(s, id, f).credential_generation = s.credential_generation
        /\ replay_command(s, id, f).device_sequence = s.device_sequence
        /\ replay_command(s, id, f).outbox = Append(s.outbox, ack)
    BY <1>7 DEF States
  <1> QED BY <1>6, <1>8, <1>9, SameNumberExtends

\* Readying the blocked report changes no event id and no sequence number.
LEMMA ReconnectedExtends ==
  ASSUME NEW s \in States
  PROVE  Extends(s, mark_reconnected(s))
  <1> DEFINE q == s.outbox
             Ready(e) == IF e.kind = "ReportBlocked"
                         THEN [e EXCEPT !.kind = "ReportReady"] ELSE e
             readied == [i \in DOMAIN q |-> Ready(q[i])]
  <1>1. /\ q \in Seq(Facts) /\ Len(q) \in Nat /\ DOMAIN q = 1 .. Len(q)
        /\ \A i \in 1 .. Len(q) : q[i] \in Facts
    BY DEF States, Facts
  <1>2. ASSUME NEW e \in Facts
        PROVE  Ready(e) \in Facts /\ SameFact(e, Ready(e))
    BY DEF Facts, Acks, Reports, SameFact
  <1> HIDE DEF Ready
  <1>3. readied \in Seq(Facts) /\ Len(readied) = Len(q)
    BY <1>1, <1>2
  <1>4. KeepsFacts(q, readied)
    BY <1>1, <1>2, <1>3 DEF KeepsFacts
  <1>5. mark_reconnected(s)
          = [s EXCEPT !.outbox = readied, !.reconnect_revision = None]
    BY DEF mark_reconnected, Ready
  <1> HIDE DEF readied
  <1>6. mark_reconnected(s) \in States
    BY <1>3, <1>5 DEF States, Facts
  <1>7. /\ mark_reconnected(s).current = s.current
        /\ mark_reconnected(s).credential_generation = s.credential_generation
        /\ mark_reconnected(s).device_sequence = s.device_sequence
        /\ mark_reconnected(s).outbox = readied
    BY <1>5 DEF States
  <1> QED BY <1>3, <1>4, <1>6, <1>7, SameNumberExtends

\* Settling the pending delivery touches the outbox no more than the position.
LEMMA SettledExtends ==
  ASSUME NEW s \in States, s.pending_inbound # None
  PROVE  Extends(s, mark_inbound_settled(s))
  <1>1. s.pending_inbound \in PendingInbound
    BY DEF States
  <1>2. [s.pending_inbound EXCEPT !.settled = TRUE] \in PendingInbound
    BY <1>1 DEF PendingInbound
  <1>3. mark_inbound_settled(s)
          = [s EXCEPT !.pending_inbound = [s.pending_inbound EXCEPT !.settled = TRUE]]
    BY DEF mark_inbound_settled
  <1>4. KeepsFacts(s.outbox, s.outbox)
    BY KeepsFactsReflexive DEF States, Facts
  <1> QED BY <1>2, <1>3, <1>4, SameNumberExtends DEF States

-----------------------------------------------------------------------------
(* What the handlers of AgentHandlers do to a state. *)

\* A handler's result extends the state before it and still verifies.
Handles(s, t) == Extends(s, t) /\ (verify(s) => verify(t))

\* A handler that returns early leaves the state as it is.
LEMMA HandlesReflexive ==
  ASSUME NEW s \in States
  PROVE  Handles(s, s)
  <1>1. KeepsFacts(s.outbox, s.outbox)
    BY KeepsFactsReflexive DEF States, Facts
  <1>2. Extends(s, s)
    BY <1>1, SameNumberExtends
  <1> QED BY <1>2 DEF Handles

\* persist_candidate installs the candidate only if it verifies.
LEMMA PersistHandles ==
  ASSUME NEW s \in States, NEW candidate, Extends(s, candidate), NEW r
  PROVE  Handles(s, persist_candidate(s, candidate, r).state)
  <1>1. CASE verify(candidate)
    BY <1>1 DEF persist_candidate, Effect, Handles
  <1>2. CASE ~verify(candidate)
    BY <1>2, HandlesReflexive DEF persist_candidate, Effect
  <1> QED BY <1>1, <1>2

\* agent.rs replays an exact duplicate: the effect is that of replay_command.
LEMMA ExactReplayHandles ==
  ASSUME NEW s \in States, NEW id, NEW f, NEW t,
         command_match(s, id, f, t) = "same"
  PROVE  Handles(s, ExactReplay(s, id, f).state)
  <1>1. Handles(s, persist_candidate(s, replay_command(s, id, f), "Duplicate").state)
    BY ReplayExtends, PersistHandles
  <1> QED BY <1>1, HandlesReflexive DEF ExactReplay, Effect

\* agent.rs answers a conflicting duplicate without moving the position.
LEMMA ConflictingReplayHandles ==
  ASSUME NEW s \in States, NEW id \in CommandIds, NEW f \in Fingerprints
  PROVE  Handles(s, ConflictingReplay(s, id, f).state)
  <1>1. Handles(s, persist_candidate(s, reject_conflicting_replay(s, id, f),
                                     "MalformedCommand").state)
    BY RejectConflictingExtends, PersistHandles
  <1> QED BY <1>1, HandlesReflexive DEF ConflictingReplay, Effect

\* persist_rejection and persist_raw_rejection leave the position alone.
LEMMA PersistRejectionHandles ==
  ASSUME NEW s \in States, NEW id \in CommandIds, NEW f \in Fingerprints,
         NEW r \in Rejections \union {None}, NEW t \in Nat
  PROVE  Handles(s, PersistRejection(s, id, f, r, t).state)
  <1> DEFINE kept == expire_command_journal(s, t)
             candidate == reject(kept, id, f, r, retention_deadline(t))
  <1>1. /\ kept \in States
        /\ kept.current = s.current
        /\ kept.credential_generation = s.credential_generation
        /\ kept.device_sequence = s.device_sequence
        /\ kept.outbox = s.outbox
    BY DEF expire_command_journal, States
  <1>2. retention_deadline(t) \in Nat
    BY CommandsAssumption DEF retention_deadline
  <1> HIDE DEF kept
  <1>3. Extends(kept, candidate)
    BY <1>1, <1>2, RejectExtends
  <1> HIDE DEF candidate
  <1>4. Extends(s, candidate)
    BY <1>1, <1>3 DEF Extends
  <1>5. Handles(s, persist_candidate(s, candidate, r).state)
    BY <1>4, PersistHandles
  <1>6. PersistRejection(s, id, f, r, t).state
          \in {s, persist_candidate(s, candidate, r).state}
    BY DEF PersistRejection, Effect, kept, candidate
  <1> QED BY <1>5, <1>6, HandlesReflexive

\* The reason a command is rejected with is one of the reasons of types.rs.
LEMMA RejectionType ==
  ASSUME NEW s, NEW topic, NEW c, NEW resolved \in CatalogReplies, NEW t
  PROVE  Rejection(s, topic, c, resolved, t) \in Rejections \union {None}
  <1>1. resolved # "Resolved" => catalog_rejection(resolved) \in Rejections
    BY DEF catalog_rejection, CatalogReplies, CatalogErrors, Rejections
  <1> QED BY <1>1 DEF Rejection, Rejections

\* apply_command, up to the commit, leaves the position alone.
LEMMA ApplyHandles ==
  ASSUME NEW s \in States, NEW topic, NEW c \in Commands,
         NEW resolved \in CatalogReplies, NEW t \in Nat
  PROVE  Handles(s, ApplyWithoutCommit(s, topic, c, resolved, t).state)
  <1> DEFINE id == CommandData[c].id
             match == command_match(s, id, c, t)
             r == Rejection(s, topic, c, resolved, t)
  <1>1. id \in CommandIds /\ c \in Fingerprints
    BY CommandsAssumption DEF Fingerprints
  <1>2. r \in Rejections \union {None}
    BY RejectionType
  <1>3. match \in {"same", "different", "unknown"}
    BY DEF command_match
  <1> HIDE DEF id, match, r
  <1>4. CASE match = "same"
    <2>1. Handles(s, ExactReplay(s, id, c).state)
      BY <1>4, ExactReplayHandles DEF match
    <2>2. ApplyWithoutCommit(s, topic, c, resolved, t).state
            = ExactReplay(s, id, c).state
      BY <1>4 DEF ApplyWithoutCommit, command_fingerprint, match, id, Commits
    <2> QED BY <2>1, <2>2
  <1>5. CASE match = "different"
    <2>1. Handles(s, ConflictingReplay(s, id, c).state)
      BY <1>1, ConflictingReplayHandles
    <2>2. ApplyWithoutCommit(s, topic, c, resolved, t).state
            = ConflictingReplay(s, id, c).state
      BY <1>5 DEF ApplyWithoutCommit, command_fingerprint, match, id, Commits
    <2> QED BY <2>1, <2>2
  <1>6. CASE match = "unknown"
    <2>1. Handles(s, PersistRejection(s, id, c, r, t).state)
      BY <1>1, <1>2, PersistRejectionHandles
    <2>2. ApplyWithoutCommit(s, topic, c, resolved, t).state
            \in {s, PersistRejection(s, id, c, r, t).state}
      BY <1>6 DEF ApplyWithoutCommit, command_fingerprint, match, id, r, Effect
    <2> QED BY <2>1, <2>2, HandlesReflexive
  <1> QED BY <1>3, <1>4, <1>5, <1>6

\* reject_malformed_delivery leaves the position alone.
LEMMA RejectMalformedHandles ==
  ASSUME NEW s \in States, NEW topic \in Nat, NEW id \in CommandIds,
         NEW payload \in Malformed, NEW t \in Nat
  PROVE  Handles(s, reject_malformed_delivery(s, topic, id, payload, t).state)
  <1> DEFINE f == <<topic, id, payload>>
             match == command_match(s, id, f, t)
  <1>1. f \in Fingerprints
    BY DEF Fingerprints
  <1>2. match \in {"same", "different", "unknown"}
    BY DEF command_match
  <1>3. match = "same" => Handles(s, ExactReplay(s, id, f).state)
    BY ExactReplayHandles
  <1>4. Handles(s, ConflictingReplay(s, id, f).state)
    BY <1>1, ConflictingReplayHandles
  <1>5. Handles(s, PersistRejection(s, id, f, "MalformedCommand", t).state)
    BY <1>1, PersistRejectionHandles DEF Rejections
  <1>6. Handles(s, s)
    BY HandlesReflexive
  <1> HIDE DEF f, match
  <1> QED BY <1>2, <1>3, <1>4, <1>5, <1>6
          DEF reject_malformed_delivery, malformed_fingerprint, Effect, f, match

\* mark_current_credential_connected leaves the position alone.
LEMMA MarkConnectedHandles ==
  ASSUME NEW s \in States, NEW revision
  PROVE  Handles(s, mark_current_credential_connected(s, revision).state)
  <1>1. Handles(s, persist_candidate(s, mark_reconnected(s), "Connected").state)
    BY ReconnectedExtends, PersistHandles
  <1> QED BY <1>1, HandlesReflexive DEF mark_current_credential_connected, Effect

\* mark_pending_inbound_settled and _absent leave the position alone.
LEMMA MarkSettledHandles ==
  ASSUME NEW s \in States, NEW token
  PROVE  Handles(s, persist_inbound_settlement(s, token).state)
  <1>1. s.pending_inbound # None =>
          Handles(s, persist_candidate(s, mark_inbound_settled(s), "Settled").state)
    BY SettledExtends, PersistHandles
  <1> QED BY <1>1, HandlesReflexive DEF persist_inbound_settlement, Effect

-----------------------------------------------------------------------------
(* Confirmation removes one fact; commit replaces the position. *)

\* Removing one fact of the outbox keeps the others, in their order.
LEMMA RemoveAtProperties ==
  ASSUME NEW S, NEW q \in Seq(S), NEW i \in 1 .. Len(q)
  PROVE  /\ RemoveAt(q, i) \in Seq(S)
         /\ Len(RemoveAt(q, i)) = Len(q) - 1
         /\ \A j \in 1 .. Len(q) - 1 :
               RemoveAt(q, i)[j] = IF j < i THEN q[j] ELSE q[j + 1]
  <1> DEFINE left == SubSeq(q, 1, i - 1)
             right == SubSeq(q, i + 1, Len(q))
  <1>1. Len(q) \in Nat /\ i \in Nat /\ \A j \in 1 .. Len(q) : q[j] \in S
    BY ElementOfSeq, LenProperties
  <1>2. /\ left \in Seq(S) /\ Len(left) = i - 1
        /\ \A j \in 1 .. i - 1 : left[j] = q[j]
    BY <1>1, SubSeqProperties
  <1>3. /\ right \in Seq(S) /\ Len(right) = Len(q) - i
        /\ \A j \in 1 .. Len(q) - i : right[j] = q[j + i]
    BY <1>1, SubSeqProperties
  <1> HIDE DEF left, right
  <1>4. /\ left \o right \in Seq(S)
        /\ Len(left \o right) = Len(left) + Len(right)
        /\ \A j \in 1 .. Len(left) + Len(right) : (left \o right)[j] =
              IF j <= Len(left) THEN left[j] ELSE right[j - Len(left)]
    BY <1>2, <1>3, ConcatProperties
  <1>5. RemoveAt(q, i) = left \o right
    BY DEF RemoveAt, left, right
  <1>6. ASSUME NEW j \in 1 .. Len(q) - 1
        PROVE  (left \o right)[j] = IF j < i THEN q[j] ELSE q[j + 1]
    <2>1. CASE j < i
      BY <1>1, <1>2, <1>3, <1>4, <2>1
    <2>2. CASE ~(j < i)
      <3>1. j - Len(left) \in 1 .. Len(q) - i /\ (j - Len(left)) + i = j + 1
        BY <1>1, <1>2, <2>2
      <3>2. right[j - Len(left)] = q[j + 1]
        BY <1>3, <3>1
      <3> QED BY <1>1, <1>2, <1>3, <1>4, <2>2, <3>2
    <2> QED BY <2>1, <2>2
  <1>7. Len(left) + Len(right) = Len(q) - 1
    BY <1>1, <1>2, <1>3
  <1> QED BY <1>4, <1>5, <1>6, <1>7

\* What every handler but commit preserves.
Preserves(s, t) ==
  /\ t \in States
  /\ t.current = s.current
  /\ t.credential_generation = s.credential_generation
  /\ t.device_sequence >= s.device_sequence
  /\ verify(s) => verify(t)

\* A handler leaves a state of the right type that verifies if it did before.
LEMMA HandlesPreserves ==
  ASSUME NEW s, NEW t, Handles(s, t)
  PROVE  Preserves(s, t) /\ KeepsFacts(s.outbox, t.outbox)
  BY DEF Handles, Extends, Preserves

\* confirm_outbound leaves a state of the right type.
LEMMA ConfirmType ==
  ASSUME NEW s \in States, NEW i \in DOMAIN s.outbox
  PROVE  /\ confirm_outbound(s, i) \in States
         /\ confirm_outbound(s, i).current = s.current
         /\ confirm_outbound(s, i).credential_generation = s.credential_generation
         /\ confirm_outbound(s, i).device_sequence = s.device_sequence
         /\ confirm_outbound(s, i).outbox = RemoveAt(s.outbox, i)
         /\ s.outbox[i].kind = "ReportBlocked" =>
              confirm_outbound(s, i).pending_inbound = s.pending_inbound
  <1> DEFINE confirmed == s.outbox[i]
             rest == RemoveAt(s.outbox, i)
             unlocks == /\ Activates(confirmed)
                        /\ \E j \in DOMAIN rest :
                              /\ rest[j].kind = "ReportBlocked"
                              /\ rest[j].position.revision
                                   = confirmed.activates_revision
             reconnect == IF unlocks THEN confirmed.activates_revision
                          ELSE s.reconnect_revision
             pending == IF confirmed.kind = "ReportReady" THEN None
                        ELSE s.pending_inbound
  <1>1. /\ s.outbox \in Seq(Acks \union Reports)
        /\ s.reconnect_revision \in Nat \union {None}
        /\ s.pending_inbound \in PendingInbound \union {None}
    BY DEF States
  <1>2. i \in 1 .. Len(s.outbox) /\ confirmed \in Acks \union Reports
    BY <1>1
  <1>3. rest \in Seq(Acks \union Reports)
    BY <1>1, <1>2, RemoveAtProperties
  <1>4. Activates(confirmed) => confirmed.activates_revision \in Nat
    BY <1>2 DEF Activates, IsAck, Acks, Reports
  <1> HIDE DEF rest, confirmed
  <1>5. reconnect \in Nat \union {None} /\ pending \in PendingInbound \union {None}
    BY <1>1, <1>4
  <1> HIDE DEF reconnect, unlocks
  <1>6. confirm_outbound(s, i)
          = [s EXCEPT !.outbox = rest, !.reconnect_revision = reconnect,
                      !.pending_inbound = pending]
    BY DEF confirm_outbound, confirmed, rest, unlocks, reconnect
  <1>7. confirmed.kind = "ReportBlocked" => pending = s.pending_inbound
    OBVIOUS
  <1> HIDE DEF pending
  <1> QED BY <1>3, <1>5, <1>6, <1>7 DEF States, rest, confirmed

\* A blocked report cannot be confirmed: without it the pending delivery would
\* have no report, which verify refuses.
LEMMA BlockedReportStays ==
  ASSUME NEW s \in States, NEW i \in DOMAIN s.outbox, verify(s),
         verify(confirm_outbound(s, i))
  PROVE  s.outbox[i].kind # "ReportBlocked"
  <1> SUFFICES ASSUME s.outbox[i].kind = "ReportBlocked" PROVE FALSE
    OBVIOUS
  <1> DEFINE t == confirm_outbound(s, i)
             q == s.outbox
  <1>1. t.outbox = RemoveAt(q, i) /\ t.pending_inbound = s.pending_inbound
    BY ConfirmType
  <1>2. q \in Seq(Facts) /\ Len(q) \in Nat /\ DOMAIN q = 1 .. Len(q)
    BY DEF States, Facts
  <1>3. /\ RemoveAt(q, i) \in Seq(Facts)
        /\ Len(RemoveAt(q, i)) = Len(q) - 1
        /\ \A j \in 1 .. Len(q) - 1 :
              RemoveAt(q, i)[j] = IF j < i THEN q[j] ELSE q[j + 1]
    BY <1>2, RemoveAtProperties
  <1>4. rotation_in_flight(s) /\ s.pending_inbound # None
    BY DEF rotation_in_flight, IsReport, verify, PendingIffReport
  <1>5. rotation_in_flight(t)
    BY <1>1, <1>4 DEF verify, PendingIffReport
  <1>6. PICK j \in DOMAIN t.outbox : IsReport(t.outbox[j])
    BY <1>5 DEF rotation_in_flight
  <1>7. j \in 1 .. Len(q) - 1
    BY <1>1, <1>3, <1>6
  <1>8. PICK k \in DOMAIN q : k # i /\ q[k] = t.outbox[j]
    <2>1. CASE j < i
      BY <1>1, <1>2, <1>3, <1>7, <2>1
    <2>2. CASE ~(j < i)
      <3>1. j + 1 \in DOMAIN q /\ j + 1 # i
        BY <1>2, <1>7, <2>2
      <3> QED BY <1>1, <1>3, <1>7, <2>2, <3>1
    <2> QED BY <2>1, <2>2
  <1>9. IsReport(q[k]) /\ IsReport(q[i])
    BY <1>6, <1>8 DEF IsReport
  <1> QED BY <1>8, <1>9 DEF verify, AtMostOneReport

\* What confirm_outbound leaves behind, the refused confirmation included.
LEMMA ConfirmEffect ==
  ASSUME NEW s \in States, NEW event
  PROVE  /\ Preserves(s, ConfirmOutbound(s, event).state)
         /\ verify(s) =>
              \/ ConfirmOutbound(s, event).state = s
              \/ \E i \in DOMAIN s.outbox :
                    /\ s.outbox[i].event = event
                    /\ s.outbox[i].kind # "ReportBlocked"
                    /\ ConfirmOutbound(s, event).state.outbox
                         = RemoveAt(s.outbox, i)
  <1> DEFINE matching == {i \in DOMAIN s.outbox : s.outbox[i].event = event}
             index == CHOOSE i \in matching : TRUE
             t == ConfirmOutbound(s, event).state
  <1>1. Preserves(s, s)
    BY HandlesReflexive, HandlesPreserves
  <1>2. CASE t = s
    BY <1>1, <1>2
  <1>3. CASE t # s
    <2>1. /\ matching # {}
          /\ verify(confirm_outbound(s, index))
          /\ t = confirm_outbound(s, index)
      BY <1>3 DEF ConfirmOutbound, persist_candidate, Effect
    <2>2. index \in DOMAIN s.outbox /\ s.outbox[index].event = event
      BY <2>1
    <2>3. s.device_sequence \in Nat
      BY DEF States
    <2> HIDE DEF index, t
    <2>4. /\ t \in States /\ t.current = s.current
          /\ t.credential_generation = s.credential_generation
          /\ t.device_sequence = s.device_sequence
          /\ t.outbox = RemoveAt(s.outbox, index)
      BY <2>1, <2>2, ConfirmType
    <2>5. Preserves(s, t)
      BY <2>1, <2>3, <2>4 DEF Preserves
    <2>6. verify(s) => s.outbox[index].kind # "ReportBlocked"
      BY <2>1, <2>2, BlockedReportStays
    <2> QED BY <2>2, <2>4, <2>5, <2>6 DEF t
  <1> QED BY <1>2, <1>3

\* accept queues the ACK and the blocked report and moves to the new position.
LEMMA AcceptEffect ==
  ASSUME NEW s \in States, NEW id \in CommandIds, NEW f \in Fingerprints,
         NEW position \in Positions, NEW g \in Nat, NEW t \in Nat
  PROVE  /\ accept(s, id, f, position, g, t) \in States
         /\ accept(s, id, f, position, g, t).current = position
         /\ accept(s, id, f, position, g, t).credential_generation = g
         /\ accept(s, id, f, position, g, t).device_sequence >= s.device_sequence
         /\ KeepsFacts(s.outbox, accept(s, id, f, position, g, t).outbox)
  <1> DEFINE n == SaturatingSucc(s.device_sequence)
             m == SaturatingSucc(n)
             ack == Ack(AckEvent(id), id, n, None, position.revision, FALSE)
             report == ReportBlocked(id, m, position)
             acked == Append(s.outbox, ack)
             queue == Append(acked, report)
             entry == StoredCommand(id, f, ack, t)
             journal == s.command_journal \union {entry}
             pending == [topic |-> s.credential_generation, command_id |-> id,
                         fingerprint |-> f, settled |-> FALSE]
  <1>1. /\ s.device_sequence \in Nat /\ s.outbox \in Seq(Facts)
        /\ s.credential_generation \in Nat
    BY DEF States, Facts
  <1>2. n \in Nat /\ m \in Nat /\ n >= s.device_sequence /\ m >= n
    BY <1>1, SaturatingSuccMonotonic
  <1>3. position.revision \in Nat
    BY DEF Positions
  <1> HIDE DEF n, m
  <1>4. ack \in Acks
    BY <1>2, <1>3, AckType, EventTypes
  <1>5. report \in Reports
    BY <1>2, EventTypes DEF ReportBlocked, Reports
  <1> HIDE DEF ack, report
  <1>6. acked \in Seq(Facts) /\ KeepsFacts(s.outbox, acked)
    BY <1>1, <1>4, AppendKeepsFacts DEF Facts
  <1> HIDE DEF acked
  <1>7. queue \in Seq(Facts) /\ KeepsFacts(acked, queue)
    BY <1>5, <1>6, AppendKeepsFacts DEF Facts
  <1> HIDE DEF queue
  <1>8. KeepsFacts(s.outbox, queue)
    BY <1>1, <1>6, <1>7 DEF KeepsFacts, SameFact
  <1>9. entry \in StoredCommands /\ pending \in PendingInbound
    BY <1>1, <1>4 DEF StoredCommand, StoredCommands, PendingInbound
  <1> HIDE DEF entry, pending
  <1>10. journal \in SUBSET StoredCommands
    BY <1>9 DEF States
  <1> HIDE DEF journal
  <1>11. accept(s, id, f, position, g, t)
           = [s EXCEPT !.credential_generation = g, !.current = position,
                       !.device_sequence = m,
                       !.command_journal = journal,
                       !.pending_inbound = pending,
                       !.outbox = queue]
    BY DEF accept, n, m, ack, report, acked, queue, entry, journal,
           pending
  <1>12. m >= s.device_sequence
    BY <1>1, <1>2
  <1>13. accept(s, id, f, position, g, t) \in States
    BY <1>2, <1>7, <1>9, <1>10, <1>11 DEF States, Facts
  <1>14. /\ accept(s, id, f, position, g, t).current = position
         /\ accept(s, id, f, position, g, t).credential_generation = g
         /\ accept(s, id, f, position, g, t).device_sequence = m
         /\ accept(s, id, f, position, g, t).outbox = queue
    BY <1>11 DEF States
  <1> QED BY <1>8, <1>12, <1>13, <1>14

\* The commit of a command either changes nothing or takes its whole effect.
LEMMA CommitEffect ==
  ASSUME NEW s \in States, NEW c \in Commands, NEW t \in Nat
  PROVE  \/ Commit(s, c, t).state = s
         \/ /\ Commit(s, c, t).state \in States
            /\ verify(Commit(s, c, t).state)
            /\ Commit(s, c, t).state.current = NextPosition(s, c)
            /\ Commit(s, c, t).state.credential_generation
                 = CommandData[c].credential_generation
            /\ Commit(s, c, t).state.device_sequence >= s.device_sequence
            /\ KeepsFacts(s.outbox, Commit(s, c, t).state.outbox)
  <1> DEFINE kept == expire_command_journal(s, t)
             cmd == CommandData[c]
             next == accept(kept, cmd.id, command_fingerprint(c),
                            NextPosition(s, c), cmd.credential_generation,
                            retention_deadline(t))
  <1>1. /\ cmd.id \in CommandIds /\ cmd.generation \in Nat /\ cmd.fence \in Nat
        /\ cmd.digest \in Digests /\ cmd.credential_generation \in Nat
    BY CommandsAssumption
  <1>2. /\ kept \in States
        /\ kept.device_sequence = s.device_sequence
        /\ kept.outbox = s.outbox
    BY DEF expire_command_journal, States
  <1>3. s.current.revision \in Nat
    BY DEF States, Positions
  <1>4. NextPosition(s, c) \in Positions
    BY <1>1, <1>3 DEF NextPosition, next_revision, Positions
  <1>5. command_fingerprint(c) \in Fingerprints
    BY DEF command_fingerprint, Fingerprints
  <1>6. retention_deadline(t) \in Nat
    BY CommandsAssumption DEF retention_deadline
  <1> HIDE DEF kept
  <1>7. /\ next \in States
        /\ next.current = NextPosition(s, c)
        /\ next.credential_generation = cmd.credential_generation
        /\ next.device_sequence >= s.device_sequence
        /\ KeepsFacts(s.outbox, next.outbox)
    BY <1>1, <1>2, <1>4, <1>5, <1>6, AcceptEffect
  <1>8. Commit(s, c, t) = persist_candidate(s, next, "Accepted")
    BY DEF Commit, kept
  <1> HIDE DEF next
  <1>9. CASE verify(next)
    <2>1. Commit(s, c, t).state = next
      BY <1>8, <1>9 DEF persist_candidate, Effect
    <2> QED BY <1>7, <1>9, <2>1
  <1>10. CASE ~verify(next)
    BY <1>8, <1>10 DEF persist_candidate, Effect
  <1> QED BY <1>9, <1>10

\* The ACK a replay queues is the journal's, or a copy of it that activates
\* nothing.
LEMMA ReplayedEntry ==
  ASSUME NEW s \in States, NEW id, NEW f, NEW t,
         command_match(s, id, f, t) = "same"
  PROVE  \E c \in s.command_journal :
            /\ c.command_id = id /\ c.fingerprint = f
            /\ ReplayedAck(c.acknowledgement) \in Acks
            /\ replay_command(s, id, f) =
                 [s EXCEPT !.outbox = Append(@, ReplayedAck(c.acknowledgement))]
  <1> DEFINE Matches(c) == c.command_id = id /\ c.fingerprint = f
             command == CHOOSE c \in s.command_journal : Matches(c)
  <1>1. \E c \in s.command_journal : Matches(c)
    BY DEF command_match, LiveEntries
  <1>2. command \in s.command_journal /\ Matches(command)
    BY <1>1
  <1>3. replay_command(s, id, f) =
          [s EXCEPT !.outbox = Append(@, ReplayedAck(command.acknowledgement))]
    BY DEF replay_command
  <1> HIDE DEF command
  <1>4. command.acknowledgement \in Acks
    BY <1>2 DEF States, StoredCommands
  <1>5. ReplayedAck(command.acknowledgement) \in Acks
    BY <1>4 DEF ReplayedAck, Acks
  <1> QED BY <1>2, <1>3, <1>5

\* An entry of the outbox without its i-th, and where it was.
LEMMA RemovedEntries ==
  ASSUME NEW s \in States, NEW i \in DOMAIN s.outbox
  PROVE  /\ \A j \in DOMAIN RemoveAt(s.outbox, i) :
               \E k \in DOMAIN s.outbox :
                  k # i /\ RemoveAt(s.outbox, i)[j] = s.outbox[k]
         /\ \A k \in DOMAIN s.outbox : k # i =>
               \E j \in DOMAIN RemoveAt(s.outbox, i) :
                  RemoveAt(s.outbox, i)[j] = s.outbox[k]
  <1> DEFINE q == s.outbox
             rest == RemoveAt(q, i)
  <1>1. q \in Seq(Facts) /\ Len(q) \in Nat /\ DOMAIN q = 1 .. Len(q)
    BY DEF States, Facts
  <1>2. /\ rest \in Seq(Facts) /\ Len(rest) = Len(q) - 1
        /\ \A j \in 1 .. Len(q) - 1 : rest[j] = IF j < i THEN q[j] ELSE q[j + 1]
    BY <1>1, RemoveAtProperties
  <1>3. DOMAIN rest = 1 .. Len(q) - 1
    BY <1>1, <1>2
  <1> HIDE DEF rest
  <1>4. ASSUME NEW j \in DOMAIN rest
        PROVE  \E k \in DOMAIN q : k # i /\ rest[j] = q[k]
    <2>1. CASE j < i
      BY <1>1, <1>2, <1>3, <2>1
    <2>2. CASE ~(j < i)
      <3>1. j + 1 \in DOMAIN q /\ j + 1 # i
        BY <1>1, <1>3, <2>2
      <3> QED BY <1>2, <1>3, <2>2, <3>1
    <2> QED BY <2>1, <2>2
  <1>5. ASSUME NEW k \in DOMAIN q, k # i
        PROVE  \E j \in DOMAIN rest : rest[j] = q[k]
    <2>1. CASE k < i
      BY <1>1, <1>2, <1>3, <2>1
    <2>2. CASE ~(k < i)
      <3>1. k - 1 \in DOMAIN rest /\ ~(k - 1 < i) /\ (k - 1) + 1 = k
        BY <1>1, <1>3, <1>5, <2>2
      <3> QED BY <1>2, <1>3, <3>1
    <2> QED BY <2>1, <2>2
  <1> QED BY <1>4, <1>5 DEF rest

\* u is s after accept: what it queues, journals and leaves.
Accepted(s, id, f, position, t, u, ack, report, pending) ==
  /\ ack.event = AckEvent(id) /\ ack.command_id = id
  /\ ack.sequence = SaturatingSucc(s.device_sequence)
  /\ ack.rejection = None /\ ack.activates_revision = position.revision
  /\ ~ack.settled_replay
  /\ report.kind = "ReportBlocked" /\ report.event = ReportEvent(id)
  /\ report.command_id = id /\ report.position = position
  /\ report.sequence = SaturatingSucc(ack.sequence)
  /\ pending.command_id = id /\ pending.fingerprint = f
  /\ ~pending.settled
  /\ u.outbox = Append(Append(s.outbox, ack), report)
  /\ u.current = position
  /\ u.device_sequence = report.sequence
  /\ u.reconnect_revision = s.reconnect_revision
  /\ u.command_journal = s.command_journal \union {StoredCommand(id, f, ack, t)}
  /\ u.pending_inbound = pending

\* What accept queues, and what it leaves (state.rs accept).
LEMMA AcceptQueues ==
  ASSUME NEW s \in States, NEW id \in CommandIds, NEW f \in Fingerprints,
         NEW position \in Positions, NEW g \in Nat, NEW t \in Nat
  PROVE  \E ack \in Acks, report \in Reports, pending \in PendingInbound :
            Accepted(s, id, f, position, t, accept(s, id, f, position, g, t),
                     ack, report, pending)
  <1> DEFINE n == SaturatingSucc(s.device_sequence)
             m == SaturatingSucc(n)
             ack == Ack(AckEvent(id), id, n, None, position.revision, FALSE)
             report == ReportBlocked(id, m, position)
             queue == Append(Append(s.outbox, ack), report)
             journal == s.command_journal \union {StoredCommand(id, f, ack, t)}
             pending == [topic |-> s.credential_generation, command_id |-> id,
                         fingerprint |-> f, settled |-> FALSE]
             u == accept(s, id, f, position, g, t)
  <1>1. /\ s.device_sequence \in Nat /\ position.revision \in Nat
        /\ s.credential_generation \in Nat
    BY DEF States, Positions
  <1>2. n \in Nat /\ m \in Nat
    BY <1>1, SaturatingSuccMonotonic
  <1>3. u = [s EXCEPT !.credential_generation = g, !.current = position,
                      !.device_sequence = m, !.command_journal = journal,
                      !.pending_inbound = pending, !.outbox = queue]
    BY DEF accept
  <1> HIDE DEF n, m, u
  <1>4. ack \in Acks
    BY <1>1, <1>2, AckType, EventTypes
  <1>5. report \in Reports
    BY <1>2, EventTypes DEF ReportBlocked, Reports
  <1>6. pending \in PendingInbound
    BY <1>1 DEF PendingInbound
  <1>7. /\ ack.event = AckEvent(id) /\ ack.command_id = id /\ ack.sequence = n
        /\ ack.rejection = None /\ ack.activates_revision = position.revision
        /\ ~ack.settled_replay
    BY DEF Ack
  <1>8. /\ report.kind = "ReportBlocked" /\ report.event = ReportEvent(id)
        /\ report.command_id = id /\ report.position = position
        /\ report.sequence = m
    BY DEF ReportBlocked
  <1>9. pending.command_id = id /\ pending.fingerprint = f /\ ~pending.settled
    OBVIOUS
  <1> HIDE DEF pending, queue, journal
  <1>10. /\ u.outbox = queue /\ u.current = position /\ u.device_sequence = m
         /\ u.reconnect_revision = s.reconnect_revision
         /\ u.command_journal = journal /\ u.pending_inbound = pending
    BY <1>3 DEF States
  <1>11. m = SaturatingSucc(ack.sequence)
    BY <1>7 DEF m
  <1>12. /\ queue = Append(Append(s.outbox, ack), report)
         /\ journal = s.command_journal \union {StoredCommand(id, f, ack, t)}
    BY DEF queue, journal
  <1> HIDE DEF ack, report
  <1>13. Accepted(s, id, f, position, t, u, ack, report, pending)
    BY <1>7, <1>8, <1>9, <1>10, <1>11, <1>12 DEF Accepted, n
  <1> QED BY <1>4, <1>5, <1>6, <1>13 DEF u

\* The entries of a queue with two more.
LEMMA TwoMore ==
  ASSUME NEW S, NEW q \in Seq(S), NEW a \in S, NEW b \in S, NEW r,
         r = Append(Append(q, a), b)
  PROVE  /\ r \in Seq(S) /\ Len(r) = Len(q) + 2
         /\ DOMAIN q = 1 .. Len(q) /\ Len(q) \in Nat
         /\ DOMAIN r = DOMAIN q \union {Len(q) + 1, Len(q) + 2}
         /\ \A i \in DOMAIN q : r[i] = q[i]
         /\ r[Len(q) + 1] = a /\ r[Len(q) + 2] = b
  <1>1. PICK p : p = Append(q, a)
    OBVIOUS
  <1>2. Len(q) \in Nat /\ DOMAIN q = 1 .. Len(q)
    OBVIOUS
  <1>3. /\ p \in Seq(S) /\ Len(p) = Len(q) + 1
        /\ \A i \in 1 .. Len(q) : p[i] = q[i]
        /\ p[Len(q) + 1] = a
    BY <1>1, AppendProperties
  <1>4. /\ r \in Seq(S) /\ Len(r) = Len(p) + 1
        /\ \A i \in 1 .. Len(p) : r[i] = p[i]
        /\ r[Len(p) + 1] = b
    BY <1>1, <1>3, AppendProperties
  <1>5. Len(r) = Len(q) + 2 /\ DOMAIN r = 1 .. Len(q) + 2
    BY <1>2, <1>3, <1>4
  <1>6. DOMAIN r = DOMAIN q \union {Len(q) + 1, Len(q) + 2}
    BY <1>2, <1>5
  <1>7. Len(p) + 1 = Len(q) + 2 /\ Len(q) + 1 \in 1 .. Len(p)
    BY <1>2, <1>3
  <1>8. r[Len(q) + 1] = a /\ r[Len(q) + 2] = b
    BY <1>3, <1>4, <1>7
  <1>9. \A i \in DOMAIN q : r[i] = q[i]
    BY <1>2, <1>3, <1>4
  <1> QED BY <1>2, <1>4, <1>5, <1>6, <1>8, <1>9


\* The journal holds terminal ACKs, numbered by this device.
JournalSound(s) ==
  /\ IsFiniteSet(s.command_journal)
  /\ \A c \in s.command_journal :
        /\ c.acknowledgement.event = AckEvent(c.command_id)
        /\ c.acknowledgement.sequence <= s.device_sequence

\* Only the first ACK of a command activates a revision.
ActivationsFirst(s) ==
  \A i \in DOMAIN s.outbox :
     Activates(s.outbox[i]) => s.outbox[i].event = AckEvent(s.outbox[i].command_id)

AckAgrees(s) ==
  \A i \in DOMAIN s.outbox, c \in s.command_journal :
     s.outbox[i].event = AckEvent(c.command_id) =>
        /\ s.outbox[i].sequence = c.acknowledgement.sequence
        /\ s.outbox[i].rejection = c.acknowledgement.rejection

\* Until the counter saturates, a number belongs to one fact, queued or journalled.
NumbersUnique(s) ==
  s.device_sequence < SequenceMax =>
     /\ \A i \in DOMAIN s.outbox, c \in s.command_journal :
           s.outbox[i].sequence = c.acknowledgement.sequence =>
              s.outbox[i].event = AckEvent(c.command_id)
     /\ \A c, d \in s.command_journal :
           c.acknowledgement.sequence = d.acknowledgement.sequence =>
              c.command_id = d.command_id

Consistent(s) ==
  /\ JournalSound(s) /\ ActivationsFirst(s) /\ AckAgrees(s) /\ NumbersUnique(s)

-----------------------------------------------------------------------------
(* What a handler may build: old facts and entries, replays, fresh ones.   *)

\* A fact is the old one, or the blocked report made ready.
SameEntry(e, f) ==
  e = f \/ (~IsAck(e) /\ ~IsAck(f) /\ e.event = f.event /\ e.sequence = f.sequence)

OldFact(s, e) == \E k \in DOMAIN s.outbox : SameEntry(e, s.outbox[k])

ReplayedFact(s, t, e) ==
  \E c \in s.command_journal :
     c \in t.command_journal /\ e = ReplayedAck(c.acknowledgement)

FreshFact(s, t, e) ==
  /\ t.device_sequence < SequenceMax => e.sequence > s.device_sequence
  /\ e.event.kind # "ack" \/ \E c \in t.command_journal : c.acknowledgement = e
  /\ Activates(e) => e.event = AckEvent(e.command_id)

FreshEntry(s, t, c) ==
  /\ c.acknowledgement.event = AckEvent(c.command_id)
  /\ c.acknowledgement.sequence <= t.device_sequence
  /\ t.device_sequence < SequenceMax =>
        c.acknowledgement.sequence > s.device_sequence
  /\ \E i \in DOMAIN t.outbox : t.outbox[i] = c.acknowledgement

Builds(s, t) ==
  /\ t \in States /\ t.device_sequence >= s.device_sequence
  /\ IsFiniteSet(t.command_journal)
  /\ \A i \in DOMAIN t.outbox :
        \/ OldFact(s, t.outbox[i])
        \/ ReplayedFact(s, t, t.outbox[i])
        \/ FreshFact(s, t, t.outbox[i])
  /\ \A c \in t.command_journal :
        c \in s.command_journal \/ FreshEntry(s, t, c)

\* An event id names its kind and its cause (SHA-256 is injective).
LEMMA EventsDiffer ==
  \A a, b :
    /\ AckEvent(a) = AckEvent(b) => a = b
    /\ AckEvent(a).kind = "ack" /\ AckEvent(a) # ReportEvent(b)
    /\ \A f : AckEvent(a) # RejectedEvent(b, f) /\ RejectedEvent(b, f).kind = "rejected"
    /\ \A f : ReportEvent(a) # RejectedEvent(b, f)
    /\ ReportEvent(a).kind = "report"
    /\ ReportEvent(a) = ReportEvent(b) => a = b
  BY DEF AckEvent, ReportEvent, RejectedEvent

\* A replayed ACK keeps event, command, number and outcome, and activates nothing.
LEMMA ReplayedAckFacts ==
  ASSUME NEW a \in Acks, AckSemanticValid(a)
  PROVE  LET b == ReplayedAck(a) IN
         /\ b \in Acks /\ ~Activates(b) /\ AckSemanticValid(b) /\ b.kind = "Ack"
         /\ b.event = a.event /\ b.command_id = a.command_id
         /\ b.sequence = a.sequence /\ b.rejection = a.rejection
  BY DEF ReplayedAck, Acks, AckSemanticValid, Activates, IsAck

\* In a manifest that verifies, an entry with an ACK's event is an ACK.
LEMMA AckByEvent ==
  ASSUME NEW s \in States, verify(s), NEW i \in DOMAIN s.outbox, NEW id,
         s.outbox[i].event = AckEvent(id)
  PROVE  IsAck(s.outbox[i]) /\ s.outbox[i].command_id = id
  <1>1. EntrySemanticValid(s.outbox[i])
    BY DEF verify, OutboxEntriesValid
  <1>2. IsAck(s.outbox[i])
    BY <1>1, EventsDiffer DEF EntrySemanticValid
  <1>3. s.outbox[i].event.kind # "rejected"
    BY EventsDiffer
  <1> QED BY <1>1, <1>2, <1>3, EventsDiffer DEF EntrySemanticValid

\* The journal's ACKs are ACKs, and valid.
LEMMA JournalAcks ==
  ASSUME NEW s \in States, verify(s), NEW c \in s.command_journal
  PROVE  /\ c.acknowledgement \in Acks /\ AckSemanticValid(c.acknowledgement)
         /\ c.acknowledgement.sequence \in Nat
         /\ c.acknowledgement.sequence > 0
         /\ c.command_id = c.acknowledgement.command_id
  BY DEF States, StoredCommands, Acks, verify, JournalValid, AckSemanticValid

\* Whatever is built that way, and verifies, is consistent.
LEMMA BuildsConsistent ==
  ASSUME NEW s \in States, verify(s), Consistent(s),
         NEW t, verify(t), Builds(s, t)
  PROVE  Consistent(t)
  <1> DEFINE q == t.outbox
             J == t.command_journal
             NumberOf(c) == c.acknowledgement.sequence
  <1>1. /\ t \in States /\ s.device_sequence \in Nat /\ t.device_sequence \in Nat
        /\ t.device_sequence >= s.device_sequence
        /\ SequenceMax \in Nat
    BY LimitsAssumption DEF Builds, States
  <1>2. \A i, j \in DOMAIN q : i # j => q[i].event # q[j].event
                                        /\ q[i].sequence # q[j].sequence
    BY DEF verify, OutboxEntriesDistinct
  <1>3. \A c, d \in J : c.command_id = d.command_id => c = d
    BY DEF verify, JournalValid
  <1>4. ASSUME NEW c \in s.command_journal
        PROVE  /\ NumberOf(c) \in Nat /\ NumberOf(c) <= s.device_sequence
               /\ c.acknowledgement.event = AckEvent(c.command_id)
    BY JournalAcks DEF Consistent, JournalSound
  <1>5. ASSUME NEW k \in DOMAIN s.outbox
        PROVE  s.outbox[k].sequence \in Nat /\ s.outbox[k].sequence <= s.device_sequence
    BY <1>1 DEF verify, OutboxEntriesValid
  <1>6. ASSUME NEW c \in J
        PROVE  /\ NumberOf(c) \in Nat
               /\ c.acknowledgement.event = AckEvent(c.command_id)
               /\ NumberOf(c) <= t.device_sequence
    <2>1. NumberOf(c) \in Nat
      BY <1>1, JournalAcks
    <2>2. CASE c \in s.command_journal
      BY <1>1, <1>4, <2>2
    <2>3. CASE FreshEntry(s, t, c)
      BY <2>1, <2>3 DEF FreshEntry
    <2> QED BY <2>1, <2>2, <2>3 DEF Builds
  <1>7. JournalSound(t)
    BY <1>6 DEF JournalSound, Builds
  <1>8. ASSUME NEW i \in DOMAIN q
        PROVE  \/ OldFact(s, q[i])
               \/ \E c \in s.command_journal :
                     /\ c \in J /\ q[i].event = AckEvent(c.command_id)
                     /\ q[i].sequence = NumberOf(c) /\ ~Activates(q[i])
                     /\ q[i].rejection = c.acknowledgement.rejection
               \/ FreshFact(s, t, q[i])
    <2>1. CASE ReplayedFact(s, t, q[i])
      <3>1. PICK c \in s.command_journal :
              c \in J /\ q[i] = ReplayedAck(c.acknowledgement)
        BY <2>1 DEF ReplayedFact
      <3>2. c.acknowledgement \in Acks /\ AckSemanticValid(c.acknowledgement)
        BY JournalAcks
      <3>3. /\ q[i].event = c.acknowledgement.event
            /\ q[i].sequence = NumberOf(c) /\ ~Activates(q[i])
            /\ q[i].rejection = c.acknowledgement.rejection
        BY <3>1, <3>2, ReplayedAckFacts
      <3> QED BY <1>4, <3>1, <3>3
    <2> QED BY <2>1 DEF Builds
  <1>9. ActivationsFirst(t)
    <2> SUFFICES ASSUME NEW i \in DOMAIN q, Activates(q[i])
                 PROVE  q[i].event = AckEvent(q[i].command_id)
      BY DEF ActivationsFirst
    <2>1. CASE OldFact(s, q[i])
      BY <2>1 DEF OldFact, SameEntry, Activates, Consistent, ActivationsFirst
    <2> QED BY <1>8, <2>1 DEF FreshFact
  <1>10. AckAgrees(t)
    <2> SUFFICES ASSUME NEW i \in DOMAIN q, NEW c \in J,
                        q[i].event = AckEvent(c.command_id)
                 PROVE  /\ q[i].sequence = NumberOf(c)
                        /\ q[i].rejection = c.acknowledgement.rejection
      BY DEF AckAgrees
    <2>1. ASSUME NEW d \in J, d.acknowledgement = q[i]
          PROVE  d = c
      BY <1>3, <1>6, <2>1, EventsDiffer
    <2>2. CASE FreshEntry(s, t, c)
      <3>1. PICK j \in DOMAIN q : q[j] = c.acknowledgement
        BY <2>2 DEF FreshEntry
      <3>2. j = i
        BY <1>2, <1>6, <3>1
      <3> QED BY <3>1, <3>2
    <2>3. CASE c \in s.command_journal
      <3>1. CASE OldFact(s, q[i])
        <4>1. IsAck(q[i])
          BY <1>1, AckByEvent
        <4>2. PICK k \in DOMAIN s.outbox : q[i] = s.outbox[k]
          BY <3>1, <4>1 DEF OldFact, SameEntry
        <4> QED BY <2>3, <4>2 DEF Consistent, AckAgrees
      <3>2. CASE FreshFact(s, t, q[i])
        <4>1. q[i].event.kind = "ack"
          BY EventsDiffer
        <4>2. PICK d \in J : d.acknowledgement = q[i]
          BY <3>2, <4>1 DEF FreshFact
        <4> QED BY <2>1, <4>2
      <3>3. CASE \E d \in s.command_journal :
                    /\ d \in J /\ q[i].event = AckEvent(d.command_id)
                    /\ q[i].sequence = NumberOf(d)
                    /\ q[i].rejection = d.acknowledgement.rejection
        BY <1>3, <3>3, EventsDiffer, ZenonT(40)
      <3> QED BY <1>8, <3>1, <3>2, <3>3
    <2> QED BY <2>2, <2>3 DEF Builds
  <1>11. NumbersUnique(t)
    <2> SUFFICES ASSUME t.device_sequence < SequenceMax
                 PROVE  /\ \A i \in DOMAIN q, c \in J :
                              q[i].sequence = NumberOf(c) => q[i].event = AckEvent(c.command_id)
                        /\ \A c, d \in J : NumberOf(c) = NumberOf(d) => c.command_id = d.command_id
      BY DEF NumbersUnique
    <2>1. s.device_sequence < SequenceMax
      BY <1>1
    <2>2. /\ \A k \in DOMAIN s.outbox, c \in s.command_journal :
                s.outbox[k].sequence = NumberOf(c) =>
                   s.outbox[k].event = AckEvent(c.command_id)
          /\ \A c, d \in s.command_journal : NumberOf(c) = NumberOf(d) =>
                c.command_id = d.command_id
      BY <2>1 DEF Consistent, NumbersUnique
    <2>3. ASSUME NEW c \in J, c \notin s.command_journal
          PROVE  /\ NumberOf(c) > s.device_sequence
                 /\ \E j \in DOMAIN q : q[j] = c.acknowledgement
      BY <2>3 DEF Builds, FreshEntry
    <2>4. ASSUME NEW i \in DOMAIN q, NEW c \in J, q[i].sequence = NumberOf(c)
          PROVE  q[i].event = AckEvent(c.command_id)
      <3>1. CASE c \notin s.command_journal
        <4>1. PICK j \in DOMAIN q : q[j] = c.acknowledgement
          BY <2>3, <3>1
        <4>2. j = i
          BY <1>2, <2>4, <4>1
        <4> QED BY <1>6, <4>1, <4>2
      <3>2. CASE c \in s.command_journal
        <4>1. CASE OldFact(s, q[i])
          <5>1. PICK k \in DOMAIN s.outbox :
                  q[i].event = s.outbox[k].event /\ q[i].sequence = s.outbox[k].sequence
            BY <4>1 DEF OldFact, SameEntry
          <5> QED BY <2>2, <2>4, <3>2, <5>1
        <4>2. CASE FreshFact(s, t, q[i])
          <5>1. NumberOf(c) > s.device_sequence
            BY <2>4, <4>2 DEF FreshFact
          <5> QED BY <1>1, <1>4, <3>2, <5>1
        <4>3. CASE \E d \in s.command_journal :
                      q[i].event = AckEvent(d.command_id) /\ q[i].sequence = NumberOf(d)
          BY <2>2, <2>4, <3>2, <4>3
        <4> QED BY <1>8, <4>1, <4>2, <4>3
      <3> QED BY <3>1, <3>2
    <2>5. ASSUME NEW c \in J, NEW d \in J, NumberOf(c) = NumberOf(d)
          PROVE  c.command_id = d.command_id
      <3>1. CASE c \in s.command_journal /\ d \in s.command_journal
        BY <2>2, <2>5, <3>1
      <3>2. CASE c \notin s.command_journal /\ d \notin s.command_journal
        <4>1. PICK j \in DOMAIN q : q[j] = c.acknowledgement
          BY <2>3, <3>2
        <4>2. PICK k \in DOMAIN q : q[k] = d.acknowledgement
          BY <2>3, <3>2
        <4>3. j = k
          BY <1>2, <2>5, <4>1, <4>2
        <4> QED BY <1>6, <4>1, <4>2, <4>3, EventsDiffer
      <3>3. CASE c \in s.command_journal /\ d \notin s.command_journal
        BY <1>1, <1>4, <2>3, <2>5, <3>3
      <3>4. CASE c \notin s.command_journal /\ d \in s.command_journal
        BY <1>1, <1>4, <2>3, <2>5, <3>4
      <3> QED BY <3>1, <3>2, <3>3, <3>4
    <2> QED BY <2>4, <2>5
  <1> QED BY <1>7, <1>9, <1>10, <1>11 DEF Consistent

-----------------------------------------------------------------------------
(* What each transition of StateV1 builds. *)

\* The entries of a queue with one more.
LEMMA OneMore ==
  ASSUME NEW S, NEW q \in Seq(S), NEW a \in S, NEW r, r = Append(q, a)
  PROVE  /\ r \in Seq(S) /\ Len(r) = Len(q) + 1
         /\ DOMAIN q = 1 .. Len(q) /\ Len(q) \in Nat
         /\ DOMAIN r = DOMAIN q \union {Len(q) + 1} /\ Len(q) + 1 \notin DOMAIN q
         /\ \A i \in DOMAIN q : r[i] = q[i]
         /\ r[Len(q) + 1] = a
  <1>1. Len(q) \in Nat /\ DOMAIN q = 1 .. Len(q)
    OBVIOUS
  <1>2. /\ r \in Seq(S) /\ Len(r) = Len(q) + 1
        /\ \A i \in 1 .. Len(q) : r[i] = q[i]
        /\ r[Len(q) + 1] = a
    BY AppendProperties
  <1>3. DOMAIN r = 1 .. Len(q) + 1
    BY <1>2
  <1>4. DOMAIN r = DOMAIN q \union {Len(q) + 1} /\ Len(q) + 1 \notin DOMAIN q
    BY <1>1, <1>3
  <1> QED BY <1>1, <1>2, <1>4

\* u is s with ack queued, and nothing else of the rotation touched.
Queues(s, u, ack) ==
  /\ u.outbox = Append(s.outbox, ack)
  /\ u.current = s.current
  /\ u.reconnect_revision = s.reconnect_revision
  /\ u.pending_inbound = s.pending_inbound

\* A rejection with an event id of its own, numbered next.
FreshRejection(s, u, ack, event, id) ==
  /\ ack.kind = "Ack" /\ ack.event = event /\ ack.command_id = id
  /\ ack.activates_revision = None /\ ~ack.settled_replay
  /\ ack.sequence = SaturatingSucc(s.device_sequence)
  /\ u.device_sequence = ack.sequence
  /\ Queues(s, u, ack)

\* What reject queues and journals (state.rs reject).
LEMMA RejectFacts ==
  ASSUME NEW s \in States, NEW id \in CommandIds, NEW f \in Fingerprints,
         NEW r \in Rejections \union {None}, NEW t \in Nat
  PROVE  \E ack \in Acks :
            LET u == reject(s, id, f, r, t) IN
            /\ FreshRejection(s, u, ack, AckEvent(id), id)
            /\ ack.rejection = r
            /\ u.command_journal
                 = s.command_journal \union {StoredCommand(id, f, ack, t)}
  <1> DEFINE n == SaturatingSucc(s.device_sequence)
             ack == Ack(AckEvent(id), id, n, r, None, FALSE)
             u == reject(s, id, f, r, t)
             queue == Append(s.outbox, ack)
             journal == s.command_journal \union {StoredCommand(id, f, ack, t)}
  <1>1. n \in Nat
    BY SaturatingSuccMonotonic DEF States
  <1>2. ack \in Acks
    BY <1>1, AckType, EventTypes
  <1>3. /\ ack.kind = "Ack" /\ ack.event = AckEvent(id) /\ ack.command_id = id
        /\ ack.activates_revision = None /\ ~ack.settled_replay
        /\ ack.sequence = n /\ ack.rejection = r
    BY DEF Ack
  <1>4. u = [s EXCEPT !.device_sequence = n, !.command_journal = journal,
                      !.outbox = queue]
    BY DEF reject
  <1> HIDE DEF n, u, queue, journal
  <1>5. /\ u.device_sequence = n /\ u.command_journal = journal /\ u.outbox = queue
        /\ u.current = s.current /\ u.reconnect_revision = s.reconnect_revision
        /\ u.pending_inbound = s.pending_inbound
    BY <1>4 DEF States
  <1>6. Queues(s, u, ack)
    BY <1>5 DEF Queues, queue
  <1>7. u.command_journal = s.command_journal \union {StoredCommand(id, f, ack, t)}
    BY <1>5 DEF journal
  <1> HIDE DEF ack
  <1>8. FreshRejection(s, u, ack, AckEvent(id), id)
    BY <1>3, <1>5, <1>6 DEF FreshRejection, n
  <1> QED BY <1>2, <1>3, <1>7, <1>8 DEF u

\* What a conflicting replay queues (state.rs reject_conflicting_replay).
LEMMA ConflictFacts ==
  ASSUME NEW s \in States, NEW id \in CommandIds, NEW f \in Fingerprints
  PROVE  \E ack \in Acks :
            LET u == reject_conflicting_replay(s, id, f) IN
            /\ FreshRejection(s, u, ack, RejectedEvent(id, f), id)
            /\ ack.rejection = "MalformedCommand"
            /\ u.command_journal = s.command_journal
  <1> DEFINE n == SaturatingSucc(s.device_sequence)
             event == RejectedEvent(id, f)
             ack == Ack(event, id, n, "MalformedCommand", None, FALSE)
             u == reject_conflicting_replay(s, id, f)
             queue == Append(s.outbox, ack)
  <1>1. n \in Nat
    BY SaturatingSuccMonotonic DEF States
  <1>2. ack \in Acks
    BY <1>1, AckType, EventTypes DEF Rejections
  <1>3. /\ ack.kind = "Ack" /\ ack.event = event /\ ack.command_id = id
        /\ ack.activates_revision = None /\ ~ack.settled_replay
        /\ ack.sequence = n /\ ack.rejection = "MalformedCommand"
    BY DEF Ack
  <1>4. u = [s EXCEPT !.device_sequence = n, !.outbox = queue]
    BY DEF reject_conflicting_replay
  <1> HIDE DEF n, u, queue
  <1>5. /\ u.device_sequence = n /\ u.command_journal = s.command_journal
        /\ u.outbox = queue
        /\ u.current = s.current /\ u.reconnect_revision = s.reconnect_revision
        /\ u.pending_inbound = s.pending_inbound
    BY <1>4 DEF States
  <1>6. Queues(s, u, ack)
    BY <1>5 DEF Queues, queue
  <1> HIDE DEF ack
  <1>7. FreshRejection(s, u, ack, event, id)
    BY <1>3, <1>5, <1>6 DEF FreshRejection, n
  <1> QED BY <1>2, <1>3, <1>5, <1>7 DEF u

\* What an exact replay queues (state.rs replay_command).
LEMMA ReplayFacts ==
  ASSUME NEW s \in States, NEW id, NEW f, NEW date,
         command_match(s, id, f, date) = "same"
  PROVE  \E c \in s.command_journal :
            LET u == replay_command(s, id, f)
                ack == ReplayedAck(c.acknowledgement) IN
            /\ c.command_id = id /\ ack \in Acks /\ Queues(s, u, ack)
            /\ u.command_journal = s.command_journal
            /\ u.device_sequence = s.device_sequence
  <1>1. PICK c \in s.command_journal :
          /\ c.command_id = id
          /\ ReplayedAck(c.acknowledgement) \in Acks
          /\ replay_command(s, id, f) =
               [s EXCEPT !.outbox = Append(@, ReplayedAck(c.acknowledgement))]
    BY ReplayedEntry
  <1>2. PICK ack : ack = ReplayedAck(c.acknowledgement)
    OBVIOUS
  <1>3. PICK queue : queue = Append(s.outbox, ack)
    OBVIOUS
  <1>4. PICK u : u = replay_command(s, id, f)
    OBVIOUS
  <1>5. u = [s EXCEPT !.outbox = queue]
    BY <1>1, <1>2, <1>3, <1>4
  <1>6. /\ u.device_sequence = s.device_sequence
        /\ u.command_journal = s.command_journal
        /\ u.outbox = queue
        /\ u.current = s.current /\ u.reconnect_revision = s.reconnect_revision
        /\ u.pending_inbound = s.pending_inbound
    BY <1>5 DEF States
  <1>7. Queues(s, u, ack)
    BY <1>3, <1>6 DEF Queues
  <1> QED BY <1>1, <1>2, <1>4, <1>6, <1>7

\* Until the counter saturates, the next number is new.
LEMMA NextNumber ==
  ASSUME NEW n \in Nat, SaturatingSucc(n) < SequenceMax
  PROVE  SaturatingSucc(n) > n
  BY LimitsAssumption DEF SaturatingSucc

\* An entry keeps what SameEntry asks when it is kept as it is.
LEMMA OldEntry ==
  ASSUME NEW s, NEW k \in DOMAIN s.outbox
  PROVE  OldFact(s, s.outbox[k])
  BY DEF OldFact, SameEntry

\* A rejection, journalled or not, is built from fresh facts.
LEMMA RejectionBuilds ==
  ASSUME NEW s \in States, NEW k, NEW u \in States, NEW ack \in Acks,
         NEW event, NEW id,
         k.outbox = s.outbox, k.device_sequence = s.device_sequence,
         FreshRejection(k, u, ack, event, id),
         IsFiniteSet(u.command_journal),
         event.kind # "ack" \/ \E c \in u.command_journal : c.acknowledgement = ack,
         \A c \in u.command_journal :
            \/ c \in s.command_journal
            \/ c.acknowledgement = ack /\ event = AckEvent(c.command_id)
  PROVE  Builds(s, u)
  <1> DEFINE q == s.outbox
  <1>1. s.device_sequence \in Nat /\ q \in Seq(Facts) /\ ack \in Facts
    BY DEF States, Facts
  <1>2. /\ u.outbox = Append(q, ack) /\ ack.event = event
        /\ ack.sequence = SaturatingSucc(s.device_sequence)
        /\ u.device_sequence = ack.sequence /\ ~Activates(ack)
    BY DEF FreshRejection, Queues, Activates
  <1>3. ack.sequence \in Nat /\ ack.sequence >= s.device_sequence
    BY <1>1, <1>2, SaturatingSuccMonotonic
  <1>4. /\ DOMAIN u.outbox = DOMAIN q \union {Len(q) + 1}
        /\ \A i \in DOMAIN q : u.outbox[i] = q[i]
        /\ u.outbox[Len(q) + 1] = ack
    BY <1>1, <1>2, OneMore
  <1>5. u.device_sequence < SequenceMax => ack.sequence > s.device_sequence
    BY <1>1, <1>2, NextNumber
  <1>6. FreshFact(s, u, ack)
    BY <1>2, <1>5 DEF FreshFact
  <1>7. ASSUME NEW i \in DOMAIN u.outbox
        PROVE  OldFact(s, u.outbox[i]) \/ FreshFact(s, u, u.outbox[i])
    BY <1>4, <1>6, OldEntry
  <1>8. ASSUME NEW c \in u.command_journal, c \notin s.command_journal
        PROVE  FreshEntry(s, u, c)
    <2>1. c.acknowledgement = ack /\ ack.event = AckEvent(c.command_id)
      BY <1>2, <1>8
    <2>2. \E i \in DOMAIN u.outbox : u.outbox[i] = ack
      BY <1>4
    <2>3. ack.sequence <= u.device_sequence
      BY <1>2, <1>3
    <2> QED BY <1>5, <2>1, <2>2, <2>3 DEF FreshEntry
  <1> QED BY <1>2, <1>3, <1>7, <1>8 DEF Builds

\* What expiry keeps of a state.
LEMMA ExpireFacts ==
  ASSUME NEW s \in States, NEW date
  PROVE  LET k == expire_command_journal(s, date) IN
         /\ k \in States /\ k.outbox = s.outbox
         /\ k.device_sequence = s.device_sequence
         /\ k.current = s.current
         /\ k.reconnect_revision = s.reconnect_revision
         /\ k.pending_inbound = s.pending_inbound
         /\ k.credential_generation = s.credential_generation
         /\ k.command_journal = {c \in s.command_journal :
              c.retain_until > date \/ IsPendingCommand(s, c.command_id)}
  BY DEF expire_command_journal, States

\* A finite journal stays finite when entries expire and one is added.
LEMMA JournalFinite ==
  ASSUME NEW J, IsFiniteSet(J), NEW K \in SUBSET J, NEW e
  PROVE  /\ IsFiniteSet(K) /\ Cardinality(K) <= Cardinality(J)
         /\ IsFiniteSet(K \union {e})
         /\ Cardinality(K \union {e}) <= Cardinality(K) + 1
  <1>1. IsFiniteSet(K) /\ Cardinality(K) <= Cardinality(J)
    BY FS_Subset
  <1>2. Cardinality(K) \in Nat
    BY <1>1, FS_CardinalityType
  <1>3. /\ IsFiniteSet(K \union {e})
        /\ Cardinality(K \union {e}) = IF e \in K THEN Cardinality(K)
                                       ELSE Cardinality(K) + 1
    BY <1>1, FS_AddElement
  <1> QED BY <1>1, <1>2, <1>3

\* The rejection of a command (agent.rs persist_rejection).
LEMMA RejectBuilds ==
  ASSUME NEW s \in States, Consistent(s), NEW id \in CommandIds,
         NEW f \in Fingerprints, NEW r \in Rejections \union {None},
         NEW date, NEW t \in Nat
  PROVE  Builds(s, reject(expire_command_journal(s, date), id, f, r, t))
  <1>1. PICK k : k = expire_command_journal(s, date)
    OBVIOUS
  <1>2. /\ k \in States /\ k.outbox = s.outbox
        /\ k.device_sequence = s.device_sequence
        /\ k.command_journal \in SUBSET s.command_journal
    BY <1>1, ExpireFacts
  <1>3. PICK u : u = reject(k, id, f, r, t)
    OBVIOUS
  <1>4. PICK ack \in Acks :
          /\ FreshRejection(k, u, ack, AckEvent(id), id)
          /\ u.command_journal
               = k.command_journal \union {StoredCommand(id, f, ack, t)}
    BY <1>2, <1>3, RejectFacts
  <1>5. u \in States
    BY <1>2, <1>3, RejectExtends DEF Extends
  <1>6. PICK e : e = StoredCommand(id, f, ack, t)
    OBVIOUS
  <1>7. e.acknowledgement = ack /\ e.command_id = id
    BY <1>6 DEF StoredCommand
  <1>8. IsFiniteSet(u.command_journal)
    BY <1>2, <1>4, <1>6, JournalFinite DEF Consistent, JournalSound
  <1>9. \E c \in u.command_journal : c.acknowledgement = ack
    BY <1>4, <1>6, <1>7
  <1>10. \A c \in u.command_journal :
           c \in s.command_journal
             \/ (c.acknowledgement = ack /\ AckEvent(id) = AckEvent(c.command_id))
    BY <1>2, <1>4, <1>6, <1>7
  <1>11. Builds(s, u)
    BY <1>2, <1>4, <1>5, <1>8, <1>9, <1>10, RejectionBuilds
  <1> QED BY <1>1, <1>3, <1>11

\* The rejection of a conflicting replay.
LEMMA ConflictBuilds ==
  ASSUME NEW s \in States, Consistent(s), NEW id \in CommandIds,
         NEW f \in Fingerprints
  PROVE  Builds(s, reject_conflicting_replay(s, id, f))
  <1>1. PICK u : u = reject_conflicting_replay(s, id, f)
    OBVIOUS
  <1>2. PICK ack \in Acks :
          /\ FreshRejection(s, u, ack, RejectedEvent(id, f), id)
          /\ u.command_journal = s.command_journal
    BY <1>1, ConflictFacts
  <1>3. u \in States
    BY <1>1, RejectConflictingExtends DEF Extends
  <1>4. IsFiniteSet(u.command_journal)
    BY <1>2 DEF Consistent, JournalSound
  <1>5. RejectedEvent(id, f).kind # "ack"
    BY EventsDiffer
  <1>6. Builds(s, u)
    BY <1>2, <1>3, <1>4, <1>5, RejectionBuilds
  <1> QED BY <1>1, <1>6

\* A transition that keeps journal and counter, and queues nothing.
LEMMA KeptBuilds ==
  ASSUME NEW s \in States, Consistent(s), NEW u \in States,
         u.device_sequence = s.device_sequence,
         u.command_journal = s.command_journal,
         \A i \in DOMAIN u.outbox :
            OldFact(s, u.outbox[i]) \/ ReplayedFact(s, u, u.outbox[i])
  PROVE  Builds(s, u)
  <1>1. s.device_sequence \in Nat
    BY DEF States
  <1> QED BY <1>1 DEF Builds, Consistent, JournalSound

\* An exact replay.
LEMMA ReplayBuilds ==
  ASSUME NEW s \in States, Consistent(s), NEW id, NEW f, NEW date,
         command_match(s, id, f, date) = "same"
  PROVE  Builds(s, replay_command(s, id, f))
  <1>1. PICK u : u = replay_command(s, id, f)
    OBVIOUS
  <1>2. PICK c \in s.command_journal :
          /\ ReplayedAck(c.acknowledgement) \in Acks
          /\ Queues(s, u, ReplayedAck(c.acknowledgement))
          /\ u.command_journal = s.command_journal
          /\ u.device_sequence = s.device_sequence
    BY <1>1, ReplayFacts
  <1>3. PICK ack \in Acks : ack = ReplayedAck(c.acknowledgement)
    BY <1>2
  <1>4. u \in States
    BY <1>1, ReplayExtends DEF Extends
  <1> DEFINE q == s.outbox
  <1>5. q \in Seq(Facts) /\ ack \in Facts
    BY DEF States, Facts
  <1>6. u.outbox = Append(q, ack)
    BY <1>2, <1>3 DEF Queues
  <1>7. /\ DOMAIN u.outbox = DOMAIN q \union {Len(q) + 1}
        /\ \A i \in DOMAIN q : u.outbox[i] = q[i]
        /\ u.outbox[Len(q) + 1] = ack
    BY <1>5, <1>6, OneMore
  <1>8. ReplayedFact(s, u, ack)
    BY <1>2, <1>3 DEF ReplayedFact
  <1>9. \A i \in DOMAIN u.outbox :
          OldFact(s, u.outbox[i]) \/ ReplayedFact(s, u, u.outbox[i])
    BY <1>7, <1>8, OldEntry
  <1>10. Builds(s, u)
    BY <1>2, <1>4, <1>9, KeptBuilds
  <1> QED BY <1>1, <1>10

\* The confirmed fact unlocks the report it activates.
Unlocks(s, i) ==
  /\ Activates(s.outbox[i])
  /\ \E j \in DOMAIN RemoveAt(s.outbox, i) :
        /\ RemoveAt(s.outbox, i)[j].kind = "ReportBlocked"
        /\ RemoveAt(s.outbox, i)[j].position.revision
             = s.outbox[i].activates_revision

\* u is s after the confirmation of its i-th fact.
Confirmed(s, i, u) ==
  /\ u.outbox = RemoveAt(s.outbox, i)
  /\ u.command_journal = s.command_journal
  /\ u.device_sequence = s.device_sequence
  /\ u.current = s.current
  /\ u.reconnect_revision = IF Unlocks(s, i) THEN s.outbox[i].activates_revision
                            ELSE s.reconnect_revision
  /\ u.pending_inbound = IF s.outbox[i].kind = "ReportReady" THEN None
                         ELSE s.pending_inbound

\* What a confirmation changes (state.rs confirm_outbound).
LEMMA ConfirmFacts ==
  ASSUME NEW s \in States, NEW i \in DOMAIN s.outbox
  PROVE  Confirmed(s, i, confirm_outbound(s, i))
  <1> DEFINE rest == RemoveAt(s.outbox, i)
             reconnect == IF Unlocks(s, i) THEN s.outbox[i].activates_revision
                          ELSE s.reconnect_revision
             pending == IF s.outbox[i].kind = "ReportReady" THEN None
                        ELSE s.pending_inbound
             u == confirm_outbound(s, i)
  <1>1. u = [s EXCEPT !.outbox = rest, !.reconnect_revision = reconnect,
                      !.pending_inbound = pending]
    BY DEF confirm_outbound, Unlocks
  <1> HIDE DEF rest, reconnect, pending, u
  <1>2. /\ u.outbox = rest /\ u.reconnect_revision = reconnect
        /\ u.pending_inbound = pending /\ u.current = s.current
        /\ u.command_journal = s.command_journal
        /\ u.device_sequence = s.device_sequence
    BY <1>1 DEF States
  <1>3. Confirmed(s, i, u)
    BY <1>2 DEF Confirmed, rest, reconnect, pending
  <1> QED BY <1>3 DEF u

\* A confirmation builds from old facts only.
LEMMA ConfirmBuilds ==
  ASSUME NEW s \in States, Consistent(s), NEW i \in DOMAIN s.outbox
  PROVE  Builds(s, confirm_outbound(s, i))
  <1>1. PICK u : u = confirm_outbound(s, i)
    OBVIOUS
  <1>2. u \in States /\ Confirmed(s, i, u)
    BY <1>1, ConfirmType, ConfirmFacts
  <1>3. PICK rest : rest = RemoveAt(s.outbox, i)
    OBVIOUS
  <1>4. ASSUME NEW j \in DOMAIN rest
        PROVE  OldFact(s, rest[j])
    <2>1. PICK k \in DOMAIN s.outbox : rest[j] = s.outbox[k]
      BY <1>3, RemovedEntries
    <2> QED BY <2>1, OldEntry
  <1>5. \A j \in DOMAIN u.outbox : OldFact(s, u.outbox[j])
    BY <1>2, <1>3, <1>4 DEF Confirmed
  <1>6. Builds(s, u)
    BY <1>2, <1>5, KeptBuilds DEF Confirmed
  <1> QED BY <1>1, <1>6

\* u is s after its first session with the new credential.
Reconnected(s, u) ==
  /\ DOMAIN u.outbox = DOMAIN s.outbox /\ Len(u.outbox) = Len(s.outbox)
  /\ \A i \in DOMAIN s.outbox :
        IF s.outbox[i].kind = "ReportBlocked"
        THEN /\ u.outbox[i].kind = "ReportReady"
             /\ u.outbox[i].event = s.outbox[i].event
             /\ u.outbox[i].command_id = s.outbox[i].command_id
             /\ u.outbox[i].sequence = s.outbox[i].sequence
             /\ u.outbox[i].position = s.outbox[i].position
        ELSE u.outbox[i] = s.outbox[i]
  /\ u.command_journal = s.command_journal
  /\ u.device_sequence = s.device_sequence
  /\ u.current = s.current
  /\ u.reconnect_revision = None
  /\ u.pending_inbound = s.pending_inbound

\* What mark_reconnected changes.
LEMMA ReconnectFacts ==
  ASSUME NEW s \in States
  PROVE  Reconnected(s, mark_reconnected(s))
  <1> DEFINE q == s.outbox
             readied == [i \in DOMAIN q |->
                IF q[i].kind = "ReportBlocked"
                THEN [q[i] EXCEPT !.kind = "ReportReady"] ELSE q[i]]
             u == mark_reconnected(s)
  <1>1. /\ q \in Seq(Facts) /\ Len(q) \in Nat /\ DOMAIN q = 1 .. Len(q)
        /\ \A i \in DOMAIN q : q[i] \in Facts
    BY DEF States, Facts
  <1>2. u = [s EXCEPT !.outbox = readied, !.reconnect_revision = None]
    BY DEF mark_reconnected
  <1>3. DOMAIN readied = DOMAIN q
    OBVIOUS
  <1>4. ASSUME NEW i \in DOMAIN q
        PROVE  IF q[i].kind = "ReportBlocked"
               THEN /\ readied[i].kind = "ReportReady"
                    /\ readied[i].event = q[i].event
                    /\ readied[i].command_id = q[i].command_id
                    /\ readied[i].sequence = q[i].sequence
                    /\ readied[i].position = q[i].position
               ELSE readied[i] = q[i]
    <2>1. q[i] \in Facts
      BY <1>1
    <2>2. CASE q[i].kind = "ReportBlocked"
      <3>1. q[i] \in Reports
        BY <2>1, <2>2 DEF Facts, Acks
      <3>2. readied[i] = [q[i] EXCEPT !.kind = "ReportReady"]
        BY <2>2
      <3> QED BY <2>2, <3>1, <3>2 DEF Reports
    <2>3. CASE q[i].kind # "ReportBlocked"
      BY <2>3
    <2> QED BY <2>2, <2>3
  <1> HIDE DEF readied, u
  <1>5. /\ u.outbox = readied /\ u.reconnect_revision = None
        /\ u.pending_inbound = s.pending_inbound /\ u.current = s.current
        /\ u.command_journal = s.command_journal
        /\ u.device_sequence = s.device_sequence
    BY <1>2 DEF States
  <1>6. u.outbox \in Seq(Facts)
    BY ReconnectedExtends DEF Extends, States, Facts, u
  <1>7. Len(u.outbox) = Len(q)
    BY <1>1, <1>3, <1>5, <1>6
  <1>8. Reconnected(s, u)
    BY <1>3, <1>4, <1>5, <1>7 DEF Reconnected
  <1> QED BY <1>8 DEF u

\* The readied report is the fact it was.
LEMMA ReconnectBuilds ==
  ASSUME NEW s \in States, Consistent(s)
  PROVE  Builds(s, mark_reconnected(s))
  <1>1. PICK u : u = mark_reconnected(s)
    OBVIOUS
  <1>2. u \in States /\ Reconnected(s, u)
    BY <1>1, ReconnectedExtends, ReconnectFacts DEF Extends
  <1>3. ASSUME NEW i \in DOMAIN u.outbox
        PROVE  OldFact(s, u.outbox[i])
    BY <1>2 DEF Reconnected, OldFact, SameEntry, IsAck
  <1>4. Builds(s, u)
    BY <1>2, <1>3, KeptBuilds DEF Reconnected
  <1> QED BY <1>1, <1>4

\* u is s with its delivery settled.
IsSettled(s, u) ==
  /\ u.pending_inbound # None
  /\ u.pending_inbound.command_id = s.pending_inbound.command_id
  /\ u.pending_inbound.fingerprint = s.pending_inbound.fingerprint
  /\ u.pending_inbound.topic = s.pending_inbound.topic
  /\ u.pending_inbound.settled
  /\ u.outbox = s.outbox
  /\ u.command_journal = s.command_journal
  /\ u.device_sequence = s.device_sequence
  /\ u.current = s.current
  /\ u.reconnect_revision = s.reconnect_revision

\* What mark_inbound_settled changes.
LEMMA SettleFacts ==
  ASSUME NEW s \in States, s.pending_inbound # None
  PROVE  IsSettled(s, mark_inbound_settled(s))
  <1>1. s.pending_inbound \in PendingInbound
    BY DEF States
  <1>2. PICK p : p = [s.pending_inbound EXCEPT !.settled = TRUE]
    OBVIOUS
  <1>3. /\ p \in PendingInbound /\ p.command_id = s.pending_inbound.command_id
        /\ p.fingerprint = s.pending_inbound.fingerprint
        /\ p.topic = s.pending_inbound.topic /\ p.settled
    BY <1>1, <1>2 DEF PendingInbound
  <1>4. PICK u : u = mark_inbound_settled(s)
    OBVIOUS
  <1>5. u = [s EXCEPT !.pending_inbound = p]
    BY <1>2, <1>4 DEF mark_inbound_settled
  <1>6. /\ u.pending_inbound = p /\ u.outbox = s.outbox /\ u.current = s.current
        /\ u.reconnect_revision = s.reconnect_revision
        /\ u.command_journal = s.command_journal
        /\ u.device_sequence = s.device_sequence
    BY <1>5 DEF States
  <1>7. p # None
    BY <1>3, NoneAssumption
  <1> QED BY <1>3, <1>4, <1>6, <1>7 DEF IsSettled

\* Settling builds from old facts only.
LEMMA SettleBuilds ==
  ASSUME NEW s \in States, Consistent(s), s.pending_inbound # None
  PROVE  Builds(s, mark_inbound_settled(s))
  <1>1. PICK u : u = mark_inbound_settled(s)
    OBVIOUS
  <1>2. u \in States /\ IsSettled(s, u)
    BY <1>1, SettledExtends, SettleFacts DEF Extends
  <1>3. \A i \in DOMAIN u.outbox : OldFact(s, u.outbox[i])
    BY <1>2, OldEntry DEF IsSettled
  <1>4. Builds(s, u)
    BY <1>2, <1>3, KeptBuilds DEF IsSettled
  <1> QED BY <1>1, <1>4

\* The candidate of commit: the expired state k, with the command accepted.
AcceptedCandidate(s, c, date, u, k, ack, report, pending) ==
  /\ Commit(s, c, date) = persist_candidate(s, u, "Accepted")
  /\ k = expire_command_journal(s, date)
  /\ u \in States /\ k \in States
  /\ Accepted(k, CommandData[c].id, c, NextPosition(s, c),
              retention_deadline(date), u, ack, report, pending)

\* What commit validates (agent.rs commit).
LEMMA CommitCandidate ==
  ASSUME NEW s \in States, NEW c \in Commands, NEW date \in Nat
  PROVE  \E u, k : \E ack \in Acks, report \in Reports, pending \in PendingInbound :
            AcceptedCandidate(s, c, date, u, k, ack, report, pending)
  <1>1. PICK k : k = expire_command_journal(s, date)
    OBVIOUS
  <1>2. k \in States
    BY <1>1, ExpireFacts
  <1>3. s.current.revision \in Nat
    BY DEF States, Positions
  <1>4. PICK id \in CommandIds, position \in Positions, g \in Nat, d \in Nat :
          /\ id = CommandData[c].id /\ position = NextPosition(s, c)
          /\ g = CommandData[c].credential_generation
          /\ d = retention_deadline(date)
    <2>1. /\ CommandData[c].id \in CommandIds /\ CommandData[c].generation \in Nat
          /\ CommandData[c].fence \in Nat /\ CommandData[c].digest \in Digests
          /\ CommandData[c].credential_generation \in Nat
          /\ retention_deadline(date) \in Nat
      BY CommandsAssumption DEF retention_deadline
    <2>2. NextPosition(s, c) \in Positions
      BY <1>3, <2>1 DEF NextPosition, next_revision, Positions
    <2> QED BY <2>1, <2>2
  <1>5. c \in Fingerprints
    BY DEF Fingerprints
  <1>6. PICK u : u = accept(k, id, c, position, g, d)
    OBVIOUS
  <1>7. u \in States
    BY <1>2, <1>5, <1>6, AcceptEffect
  <1>8. PICK ack \in Acks, report \in Reports, pending \in PendingInbound :
          Accepted(k, id, c, position, d, u, ack, report, pending)
    BY <1>2, <1>5, <1>6, AcceptQueues
  <1>9. Commit(s, c, date) = persist_candidate(s, u, "Accepted")
    BY <1>1, <1>4, <1>6 DEF Commit, command_fingerprint
  <1>10. AcceptedCandidate(s, c, date, u, k, ack, report, pending)
    BY <1>1, <1>2, <1>4, <1>7, <1>8, <1>9 DEF AcceptedCandidate
  <1> QED BY <1>10

\* The acceptance queues two fresh facts and journals the first.
LEMMA AcceptBuilds ==
  ASSUME NEW s \in States, Consistent(s), NEW c, NEW date, NEW u, NEW k,
         NEW ack \in Acks, NEW report \in Reports, NEW pending,
         AcceptedCandidate(s, c, date, u, k, ack, report, pending)
  PROVE  Builds(s, u)
  <1> DEFINE q == s.outbox
  <1>1. /\ u \in States /\ k = expire_command_journal(s, date)
        /\ Accepted(k, CommandData[c].id, c, NextPosition(s, c),
                    retention_deadline(date), u, ack, report, pending)
    BY DEF AcceptedCandidate
  <1>2. PICK id, d : id = CommandData[c].id /\ d = retention_deadline(date)
    OBVIOUS
  <1>3. /\ k.outbox = s.outbox /\ k.device_sequence = s.device_sequence
        /\ k.command_journal \in SUBSET s.command_journal
    BY <1>1, ExpireFacts
  <1>4. /\ u.outbox = Append(Append(q, ack), report)
        /\ u.command_journal = k.command_journal \union {StoredCommand(id, c, ack, d)}
        /\ ack.event = AckEvent(id) /\ ack.command_id = id
        /\ report.event = ReportEvent(id) /\ report.kind = "ReportBlocked"
        /\ ack.sequence = SaturatingSucc(s.device_sequence)
        /\ report.sequence = SaturatingSucc(ack.sequence)
        /\ u.device_sequence = report.sequence
    BY <1>1, <1>2, <1>3 DEF Accepted
  <1>5. s.device_sequence \in Nat /\ q \in Seq(Facts) /\ ack \in Facts /\ report \in Facts
    BY DEF States, Facts
  <1>6. /\ ack.sequence \in Nat /\ ack.sequence >= s.device_sequence
        /\ report.sequence \in Nat /\ report.sequence >= ack.sequence
    BY <1>4, <1>5, SaturatingSuccMonotonic
  <1>7. SequenceMax \in Nat
    BY LimitsAssumption
  <1>8. u.device_sequence < SequenceMax =>
          /\ report.sequence > ack.sequence
          /\ ack.sequence > s.device_sequence
    <2> SUFFICES ASSUME report.sequence < SequenceMax
                 PROVE  report.sequence > ack.sequence /\ ack.sequence > s.device_sequence
      BY <1>4
    <2>1. report.sequence > ack.sequence
      BY <1>4, <1>6, NextNumber
    <2>2. ack.sequence < SequenceMax
      BY <1>6, <1>7
    <2>3. ack.sequence > s.device_sequence
      BY <1>4, <1>5, <2>2, NextNumber
    <2> QED BY <2>1, <2>3
  <1>9. /\ DOMAIN u.outbox = DOMAIN q \union {Len(q) + 1, Len(q) + 2}
        /\ \A i \in DOMAIN q : u.outbox[i] = q[i]
        /\ u.outbox[Len(q) + 1] = ack /\ u.outbox[Len(q) + 2] = report
    BY <1>4, <1>5, TwoMore
  <1>10. PICK e : e = StoredCommand(id, c, ack, d)
    OBVIOUS
  <1>11. e.acknowledgement = ack /\ e.command_id = id /\ e \in u.command_journal
    BY <1>4, <1>10 DEF StoredCommand
  <1>12. FreshFact(s, u, ack)
    BY <1>4, <1>8, <1>11 DEF FreshFact
  <1>13. FreshFact(s, u, report)
    <2>1. ~Activates(report) /\ report.event.kind # "ack"
      BY <1>4, EventsDiffer DEF Activates, IsAck
    <2>2. u.device_sequence < SequenceMax => report.sequence > s.device_sequence
      BY <1>5, <1>6, <1>8
    <2> QED BY <2>1, <2>2 DEF FreshFact
  <1>14. IsFiniteSet(u.command_journal)
    BY <1>3, <1>4, <1>10, JournalFinite DEF Consistent, JournalSound
  <1>15. FreshEntry(s, u, e)
    <2>1. \E i \in DOMAIN u.outbox : u.outbox[i] = ack
      BY <1>9
    <2>2. ack.sequence <= u.device_sequence
      BY <1>4, <1>6
    <2> QED BY <1>4, <1>8, <1>11, <2>1, <2>2 DEF FreshEntry
  <1>16. \A i \in DOMAIN u.outbox :
           OldFact(s, u.outbox[i]) \/ FreshFact(s, u, u.outbox[i])
    BY <1>9, <1>12, <1>13, OldEntry
  <1>17. \A x \in u.command_journal : x \in s.command_journal \/ FreshEntry(s, u, x)
    BY <1>3, <1>4, <1>10, <1>15
  <1>18. u.device_sequence >= s.device_sequence
    BY <1>4, <1>5, <1>6
  <1> QED BY <1>1, <1>14, <1>16, <1>17, <1>18 DEF Builds

-----------------------------------------------------------------------------
(* The invariant of the candidates. *)

\* persist_candidate leaves what was there, or the candidate, verified.
LEMMA PersistKeeps ==
  ASSUME NEW s \in States, verify(s), Consistent(s), NEW u, NEW r,
         verify(u) => Builds(s, u)
  PROVE  Consistent(persist_candidate(s, u, r).state)
  <1>1. CASE verify(u)
    BY <1>1, BuildsConsistent DEF persist_candidate, Effect
  <1>2. CASE ~verify(u)
    BY <1>2 DEF persist_candidate, Effect
  <1> QED BY <1>1, <1>2

\* The three ways a delivery that commits nothing can end.
LEMMA BranchesConsistent ==
  ASSUME NEW s \in States, verify(s), Consistent(s),
         NEW id \in CommandIds, NEW f \in Fingerprints,
         NEW r \in Rejections \union {None}, NEW date \in Nat
  PROVE  /\ command_match(s, id, f, date) = "same" =>
              Consistent(ExactReplay(s, id, f).state)
         /\ Consistent(ConflictingReplay(s, id, f).state)
         /\ Consistent(PersistRejection(s, id, f, r, date).state)
  <1>1. ASSUME command_match(s, id, f, date) = "same"
        PROVE  Consistent(ExactReplay(s, id, f).state)
    <2>1. Consistent(
            persist_candidate(s, replay_command(s, id, f), "Duplicate").state)
      BY <1>1, ReplayBuilds, PersistKeeps
    <2> QED BY <2>1 DEF ExactReplay, Effect
  <1>2. Consistent(ConflictingReplay(s, id, f).state)
    <2>1. Consistent(
            persist_candidate(s, reject_conflicting_replay(s, id, f),
                              "MalformedCommand").state)
      BY ConflictBuilds, PersistKeeps
    <2> QED BY <2>1 DEF ConflictingReplay, Effect
  <1>3. Consistent(PersistRejection(s, id, f, r, date).state)
    <2> DEFINE kept == expire_command_journal(s, date)
               candidate == reject(kept, id, f, r, retention_deadline(date))
    <2>1. retention_deadline(date) \in Nat
      BY CommandsAssumption DEF retention_deadline
    <2>2. Builds(s, candidate)
      BY <2>1, RejectBuilds
    <2> HIDE DEF candidate
    <2>3. Consistent(persist_candidate(s, candidate, r).state)
      BY <2>2, PersistKeeps
    <2>4. PersistRejection(s, id, f, r, date).state
            \in {s, persist_candidate(s, candidate, r).state}
      BY DEF PersistRejection, Effect, candidate
    <2> QED BY <2>3, <2>4
  <1> QED BY <1>1, <1>2, <1>3

\* apply_command short of commit, and reject_malformed_delivery.
LEMMA DeliveryConsistent ==
  ASSUME NEW s \in States, verify(s), Consistent(s), NEW date \in Nat
  PROVE  /\ \A topic \in Nat, c \in Commands, resolved \in CatalogReplies :
              Consistent(ApplyWithoutCommit(s, topic, c, resolved, date).state)
         /\ \A topic \in Nat, id \in CommandIds, payload \in Malformed :
              Consistent(reject_malformed_delivery(s, topic, id, payload, date).state)
  <1>1. ASSUME NEW topic \in Nat, NEW c \in Commands, NEW resolved \in CatalogReplies
        PROVE  Consistent(ApplyWithoutCommit(s, topic, c, resolved, date).state)
    <2> DEFINE id == CommandData[c].id
               match == command_match(s, id, c, date)
               r == Rejection(s, topic, c, resolved, date)
    <2>1. id \in CommandIds /\ c \in Fingerprints /\ r \in Rejections \union {None}
      BY CommandsAssumption, RejectionType DEF Fingerprints
    <2>2. match \in {"same", "different", "unknown"}
      BY DEF command_match
    <2> HIDE DEF id, match, r
    <2>3. /\ match = "same" => Consistent(ExactReplay(s, id, c).state)
          /\ Consistent(ConflictingReplay(s, id, c).state)
          /\ Consistent(PersistRejection(s, id, c, r, date).state)
      BY <2>1, BranchesConsistent DEF match
    <2>4. match = "same" => ApplyWithoutCommit(s, topic, c, resolved, date).state
                              = ExactReplay(s, id, c).state
      BY DEF ApplyWithoutCommit, command_fingerprint, match, id, Commits
    <2>5. match = "different" => ApplyWithoutCommit(s, topic, c, resolved, date).state
                                   = ConflictingReplay(s, id, c).state
      BY DEF ApplyWithoutCommit, command_fingerprint, match, id, Commits
    <2>6. match = "unknown" => ApplyWithoutCommit(s, topic, c, resolved, date).state
                                 \in {s, PersistRejection(s, id, c, r, date).state}
      BY DEF ApplyWithoutCommit, command_fingerprint, match, id, r, Effect
    <2> QED BY <2>2, <2>3, <2>4, <2>5, <2>6
  <1>2. ASSUME NEW topic \in Nat, NEW id \in CommandIds, NEW payload \in Malformed
        PROVE  Consistent(reject_malformed_delivery(s, topic, id, payload, date).state)
    <2> DEFINE f == <<topic, id, payload>>
               match == command_match(s, id, f, date)
    <2>1. f \in Fingerprints /\ "MalformedCommand" \in Rejections \union {None}
      BY DEF Fingerprints, Rejections
    <2>2. match \in {"same", "different", "unknown"}
      BY DEF command_match
    <2> HIDE DEF f
    <2>3. /\ match = "same" => Consistent(ExactReplay(s, id, f).state)
          /\ Consistent(ConflictingReplay(s, id, f).state)
          /\ Consistent(PersistRejection(s, id, f, "MalformedCommand", date).state)
      BY <2>1, BranchesConsistent
    <2> HIDE DEF match
    <2> QED BY <2>2, <2>3
            DEF reject_malformed_delivery, malformed_fingerprint, Effect, f, match
  <1> QED BY <1>1, <1>2

\* The calls that confirm, connect, settle and commit.
LEMMA OthersConsistent ==
  ASSUME NEW s \in States, verify(s), Consistent(s), NEW date \in Nat
  PROVE  /\ \A event : Consistent(ConfirmOutbound(s, event).state)
         /\ \A revision :
              Consistent(mark_current_credential_connected(s, revision).state)
         /\ \A token : Consistent(persist_inbound_settlement(s, token).state)
         /\ \A c \in Commands : Consistent(Commit(s, c, date).state)
  <1>1. ASSUME NEW event PROVE Consistent(ConfirmOutbound(s, event).state)
    <2> DEFINE matching == {i \in DOMAIN s.outbox : s.outbox[i].event = event}
               index == CHOOSE i \in matching : TRUE
    <2>1. CASE matching = {} \/ ~Confirmable(s, index)
      BY <2>1 DEF ConfirmOutbound, Effect
    <2>2. CASE ~(matching = {} \/ ~Confirmable(s, index))
      <3>1. index \in DOMAIN s.outbox
        BY <2>2
      <3>2. ConfirmOutbound(s, event)
              = persist_candidate(s, confirm_outbound(s, index), "Confirmed")
        BY <2>2 DEF ConfirmOutbound
      <3> HIDE DEF index
      <3> QED BY <3>1, <3>2, ConfirmBuilds, PersistKeeps
    <2> QED BY <2>1, <2>2
  <1>2. ASSUME NEW revision
        PROVE  Consistent(mark_current_credential_connected(s, revision).state)
    <2>1. Consistent(persist_candidate(s, mark_reconnected(s), "Connected").state)
      BY ReconnectBuilds, PersistKeeps
    <2> QED BY <2>1 DEF mark_current_credential_connected, Effect
  <1>3. ASSUME NEW token
        PROVE  Consistent(persist_inbound_settlement(s, token).state)
    <2>1. s.pending_inbound # None =>
            Consistent(persist_candidate(s, mark_inbound_settled(s), "Settled").state)
      BY SettleBuilds, PersistKeeps
    <2> QED BY <2>1 DEF persist_inbound_settlement, Effect
  <1>4. ASSUME NEW c \in Commands PROVE Consistent(Commit(s, c, date).state)
    <2>1. PICK u, k : \E ack \in Acks, report \in Reports, pending \in PendingInbound :
            AcceptedCandidate(s, c, date, u, k, ack, report, pending)
      BY CommitCandidate
    <2>2. Builds(s, u)
      BY <2>1, AcceptBuilds
    <2>3. Commit(s, c, date) = persist_candidate(s, u, "Accepted")
      BY <2>1 DEF AcceptedCandidate
    <2> QED BY <2>2, <2>3, PersistKeeps
  <1> QED BY <1>1, <1>2, <1>3, <1>4

-----------------------------------------------------------------------------
(* Without time, and the next fact to publish. *)

\* Without time nothing expires: the journal keeps what retain_until still
\* covers (state.rs expire_command_journal).
LEMMA NothingExpires ==
  ASSUME NEW s \in States, verify(s)
  PROVE  LET k == expire_command_journal(s, 0) IN
         /\ k \in States /\ k.outbox = s.outbox /\ k.current = s.current
         /\ k.command_journal = s.command_journal
  <1>1. \A c \in s.command_journal : c.retain_until > 0
    BY DEF verify, JournalValid
  <1> DEFINE k == expire_command_journal(s, 0)
  <1>2. /\ k \in States /\ k.outbox = s.outbox /\ k.current = s.current
        /\ k.command_journal = {c \in s.command_journal :
             c.retain_until > 0 \/ IsPendingCommand(s, c.command_id)}
    BY <1>1, ExpireFacts
  <1> HIDE DEF k
  <1>3. k.command_journal = s.command_journal
    BY <1>1, <1>2
  <1> QED BY <1>2, <1>3 DEF k

\* next_outbound names a queued fact that may be published (state.rs next_outbound).
LEMMA NextOutboundQueued ==
  ASSUME NEW s \in States, next_outbound(s) # 0
  PROVE  /\ next_outbound(s) \in DOMAIN s.outbox
         /\ Publishable(s, s.outbox[next_outbound(s)])
  <1> DEFINE I == {i \in 1 .. Len(s.outbox) : Publishable(s, s.outbox[i])}
  <1>1. s.outbox \in Seq(Facts) BY DEF States, Facts
  <1>2. I # {} /\ next_outbound(s) = Min(I)
    BY DEF next_outbound, SelectInSeq
  <1>3. I \in SUBSET Nat /\ I \subseteq DOMAIN s.outbox
    BY <1>1
  <1> HIDE DEF I
  <1>4. \E x \in I : \A y \in I : x <= y
    <2>1. PICK x \in I : \A y \in I : ~(<<y, x>> \in OpToRel(<, Nat))
      BY <1>2, <1>3, NatLessThanWellFounded, WFMin
    <2>2. \A y \in I : x <= y
      <3> TAKE y \in I
      <3>1. x \in Nat /\ y \in Nat BY <1>3
      <3>2. <<y, x>> \in Nat \X Nat /\ ~(<<y, x>> \in OpToRel(<, Nat)) BY <2>1, <3>1
      <3>3. ~(y < x) BY <3>2 DEF OpToRel
      <3> QED BY <3>1, <3>3
    <2> QED BY <2>1, <2>2
  <1>5. Min(I) \in I
    BY <1>4 DEF Min
  <1>6. \A i \in I : Publishable(s, s.outbox[i])
    BY DEF I
  <1> QED BY <1>2, <1>3, <1>5, <1>6

-----------------------------------------------------------------------------
(* Room for what a delivery queues and journals. *)

\* Where the journal has capacity, expiry leaves room for one more command.
LEMMA ExpiredHasRoom ==
  ASSUME NEW s \in States, verify(s), IsFiniteSet(s.command_journal),
         NEW date \in Nat, command_journal_has_capacity(s, date)
  PROVE  reserve_command_journal(expire_command_journal(s, date))
  <1> DEFINE J == s.command_journal
  <1>1. PICK k : k = expire_command_journal(s, date)
    OBVIOUS
  <1>2. k.command_journal = {c \in J : c.retain_until > date
                                       \/ IsPendingCommand(s, c.command_id)}
    BY <1>1, ExpireFacts
  <1>3. PICK K : K = k.command_journal
    OBVIOUS
  <1>4. K \in SUBSET J /\ IsFiniteSet(K)
    BY <1>2, <1>3, FS_Subset
  <1>5. /\ Cardinality(J) \in Nat /\ Cardinality(K) \in Nat /\ JournalLimit \in Nat
        /\ Cardinality(J) <= JournalLimit
    BY <1>4, FS_CardinalityType, LimitsAssumption DEF verify, WithinLimits
  <1>6. CASE reserve_command_journal(s)
    <2>1. Cardinality(K) <= Cardinality(J)
      BY <1>4, FS_Subset
    <2> QED BY <1>1, <1>3, <1>5, <1>6, <2>1 DEF reserve_command_journal
  <1>7. CASE \E c \in J : c.retain_until <= date /\ ~IsPendingCommand(s, c.command_id)
    <2>1. PICK c \in J : c.retain_until <= date /\ ~IsPendingCommand(s, c.command_id)
      BY <1>7
    <2>2. c.retain_until \in Nat
      BY DEF States, StoredCommands
    <2>3. K \in SUBSET (J \ {c})
      BY <1>2, <1>3, <2>1, <2>2
    <2>4. IsFiniteSet(J \ {c}) /\ Cardinality(J \ {c}) = Cardinality(J) - 1
      BY FS_RemoveElement
    <2>5. Cardinality(K) <= Cardinality(J \ {c})
      BY <2>3, <2>4, FS_Subset
    <2> QED BY <1>1, <1>3, <1>5, <2>4, <2>5 DEF reserve_command_journal
  <1> QED BY <1>6, <1>7 DEF command_journal_has_capacity

\* A delivery that finds room in outbox and journal ends in neither error.
LEMMA BranchesFit ==
  ASSUME NEW s \in States, reserve_outbox(s, 2), NEW date,
         reserve_command_journal(expire_command_journal(s, date)),
         NEW id, NEW f, NEW r \in Rejections
  PROVE  LET full == {"OutboxFull", "CommandJournalFull"} IN
         /\ ExactReplay(s, id, f).result \notin full
         /\ ConflictingReplay(s, id, f).result \notin full
         /\ PersistRejection(s, id, f, r, date).result \notin full
  <1> DEFINE full == {"OutboxFull", "CommandJournalFull"}
  <1>1. Len(s.outbox) \in Nat /\ OutboxLimit \in Nat
    BY LimitsAssumption DEF States
  <1>2. reserve_outbox(s, 1) /\ reserve_outbox(expire_command_journal(s, date), 1)
    BY <1>1, ExpireFacts DEF reserve_outbox
  <1>3. r \notin full /\ "InvalidState" \notin full
    BY DEF Rejections
  <1>4. ASSUME NEW u PROVE persist_candidate(s, u, r).result \notin full
    BY <1>3 DEF persist_candidate, Effect
  <1>5. ExactReplay(s, id, f).result \notin full
    BY <1>2 DEF ExactReplay, persist_candidate, Effect
  <1>6. ConflictingReplay(s, id, f).result \notin full
    BY <1>2 DEF ConflictingReplay, persist_candidate, Effect
  <1>7. PersistRejection(s, id, f, r, date).result \notin full
    BY <1>2, <1>4 DEF PersistRejection
  <1> QED BY <1>5, <1>6, <1>7

-----------------------------------------------------------------------------
(* verify accepts the candidates. *)

\* One more ACK that activates nothing, with an event id and a number of its own,
\* disturbs no check that verify makes of the outbox.
LEMMA QueuedAckVerifies ==
  ASSUME NEW s \in States, verify(s), NEW u, NEW ack \in Acks, Queues(s, u, ack),
         ~Activates(ack), AckSemanticValid(ack),
         ack.event = AckEvent(ack.command_id) \/ ack.event.kind = "rejected",
         u.device_sequence \in Nat, u.device_sequence >= s.device_sequence,
         ack.sequence <= u.device_sequence,
         \A i \in DOMAIN s.outbox : /\ s.outbox[i].event # ack.event
                                    /\ s.outbox[i].sequence # ack.sequence,
         reserve_outbox(s, 1), Cardinality(u.command_journal) <= JournalLimit,
         JournalValid(u), PendingJournalled(u)
  PROVE  verify(u)
  <1> DEFINE q == s.outbox
             r == u.outbox
             n == Len(q) + 1
  <1>1. /\ q \in Seq(Facts) /\ ack \in Facts /\ ack.kind = "Ack"
        /\ ack.sequence \in Nat /\ s.device_sequence \in Nat
    BY DEF States, Facts, Acks
  <1>2. /\ r = Append(q, ack) /\ u.current = s.current
        /\ u.reconnect_revision = s.reconnect_revision
        /\ u.pending_inbound = s.pending_inbound
    BY DEF Queues
  <1>3. /\ Len(r) = Len(q) + 1 /\ DOMAIN r = DOMAIN q \union {n}
        /\ n \notin DOMAIN q
        /\ (\A i \in DOMAIN q : r[i] = q[i]) /\ r[n] = ack
    BY <1>1, <1>2, OneMore
  <1> HIDE DEF r, n
  <1>4. WithinLimits(u)
    BY <1>3 DEF WithinLimits, reserve_outbox, r
  <1>5. OutboxEntriesValid(u)
    <2>1. ASSUME NEW i \in DOMAIN q
          PROVE  /\ q[i].sequence \in 1 .. u.device_sequence
                 /\ EntrySemanticValid(q[i])
                 /\ IsReport(q[i]) => q[i].position = u.current
      BY <1>1, <1>2 DEF verify, OutboxEntriesValid
    <2>2. ack.sequence \in 1 .. u.device_sequence
      BY <1>1 DEF AckSemanticValid
    <2>3. EntrySemanticValid(ack) /\ ~IsReport(ack)
      BY <1>1 DEF EntrySemanticValid, IsAck, IsReport
    <2> QED BY <1>3, <2>1, <2>2, <2>3 DEF OutboxEntriesValid, r
  <1>6. OutboxEntriesDistinct(u)
    <2>1. \A i, j \in DOMAIN q : i # j => /\ q[i].event # q[j].event
                                          /\ q[i].sequence # q[j].sequence
      BY DEF verify, OutboxEntriesDistinct
    <2> QED BY <1>3, <2>1 DEF OutboxEntriesDistinct, r
  <1>7. ASSUME NEW i \in DOMAIN r,
               \/ IsReport(r[i]) \/ Activates(r[i])
               \/ r[i].kind = "ReportBlocked" \/ r[i].kind = "ReportReady"
        PROVE  i \in DOMAIN q /\ r[i] = q[i]
    BY <1>1, <1>3, <1>7 DEF IsReport
  <1>8. AtMostOneReport(u)
    BY <1>7 DEF verify, AtMostOneReport, r
  <1>9. rotation_in_flight(u) <=> rotation_in_flight(s)
    BY <1>3, <1>7 DEF rotation_in_flight, r
  <1>10. PendingIffReport(u) /\ ReconnectMatchesCurrent(u)
    BY <1>2, <1>9 DEF verify, PendingIffReport, ReconnectMatchesCurrent
  <1>11. ReadyReportConnected(u)
    BY <1>2, <1>7 DEF verify, ReadyReportConnected, r
  <1>12. ActivationMatched(u)
    <2> SUFFICES ASSUME NEW i \in DOMAIN r, Activates(r[i])
                 PROVE  /\ r[i].activates_revision = u.current.revision
                        /\ \E j \in DOMAIN r : SameRotation(r[i], r[j])
                        /\ u.reconnect_revision = None
      BY DEF ActivationMatched, r
    <2>1. i \in DOMAIN q /\ r[i] = q[i]
      BY <1>7
    <2>2. /\ q[i].activates_revision = s.current.revision
          /\ s.reconnect_revision = None
          /\ \E j \in DOMAIN q : SameRotation(q[i], q[j])
      BY <2>1 DEF verify, ActivationMatched
    <2> QED BY <1>2, <1>3, <2>1, <2>2
  <1>13. BlockedReportAwaits(u)
    <2> SUFFICES ASSUME NEW j \in DOMAIN r, r[j].kind = "ReportBlocked"
                 PROVE  /\ (\E i \in DOMAIN r : SameRotation(r[i], r[j]))
                              <=> u.reconnect_revision = None
                        /\ u.reconnect_revision \in {None, r[j].position.revision}
      BY DEF BlockedReportAwaits, r
    <2>1. j \in DOMAIN q /\ r[j] = q[j]
      BY <1>7
    <2>2. (\E i \in DOMAIN r : SameRotation(r[i], r[j]))
             <=> (\E i \in DOMAIN q : SameRotation(q[i], q[j]))
      BY <1>3, <1>7, <2>1 DEF SameRotation
    <2> QED BY <1>2, <2>1, <2>2 DEF verify, BlockedReportAwaits
  <1> QED BY <1>4, <1>5, <1>6, <1>8, <1>10, <1>11, <1>12, <1>13 DEF verify

\* The counter of a state can number two more facts.
Numbers(s) == s.device_sequence + 2 <= SequenceMax

\* The next number, while there is one, is that of no queued fact.
LEMMA NextNumberNew ==
  ASSUME NEW s \in States, verify(s), Numbers(s)
  PROVE  LET n == SaturatingSucc(s.device_sequence) IN
         /\ n = s.device_sequence + 1
         /\ n < SequenceMax
         /\ \A i \in DOMAIN s.outbox : s.outbox[i].sequence \in Nat
                                       /\ s.outbox[i].sequence < n
  <1>1. s.device_sequence \in Nat /\ SequenceMax \in Nat
    BY LimitsAssumption DEF States
  <1>2. \A i \in DOMAIN s.outbox : s.outbox[i].sequence \in 1 .. s.device_sequence
    BY DEF verify, OutboxEntriesValid
  <1>3. SaturatingSucc(s.device_sequence) = s.device_sequence + 1
    BY <1>1 DEF Numbers, SaturatingSucc
  <1> QED BY <1>1, <1>2, <1>3 DEF Numbers

\* The replay of a journalled command whose ACK is not queued verifies.
LEMMA ReplayVerifies ==
  ASSUME NEW s \in States, verify(s), Consistent(s), Numbers(s),
         NEW id, NEW f, NEW date, command_match(s, id, f, date) = "same",
         ~has_command_ack(s, id), reserve_outbox(s, 1)
  PROVE  verify(replay_command(s, id, f))
  <1>1. PICK u : u = replay_command(s, id, f)
    OBVIOUS
  <1>2. PICK c \in s.command_journal :
          /\ c.command_id = id
          /\ Queues(s, u, ReplayedAck(c.acknowledgement))
          /\ u.command_journal = s.command_journal
          /\ u.device_sequence = s.device_sequence
    BY <1>1, ReplayFacts
  <1>3. PICK a : a = c.acknowledgement
    OBVIOUS
  <1>4. /\ a \in Acks /\ AckSemanticValid(a) /\ a.event = AckEvent(id)
        /\ a.command_id = id /\ a.sequence <= s.device_sequence
    BY <1>2, <1>3, JournalAcks DEF Consistent, JournalSound
  <1>5. PICK ack : ack = ReplayedAck(a)
    OBVIOUS
  <1>6. /\ ack \in Acks /\ ~Activates(ack) /\ AckSemanticValid(ack)
        /\ ack.event = AckEvent(id) /\ ack.command_id = id
        /\ ack.sequence = a.sequence
    BY <1>4, <1>5, ReplayedAckFacts
  <1>7. s.device_sequence \in Nat /\ s.device_sequence < SequenceMax
    BY LimitsAssumption DEF States, Numbers
  <1>8. ASSUME NEW i \in DOMAIN s.outbox
        PROVE  s.outbox[i].event # ack.event /\ s.outbox[i].sequence # ack.sequence
    <2>1. s.outbox[i].event # AckEvent(id)
      BY AckByEvent DEF has_command_ack
    <2>2. s.outbox[i].sequence = a.sequence => s.outbox[i].event = AckEvent(id)
      BY <1>2, <1>3, <1>7 DEF Consistent, NumbersUnique
    <2> QED BY <1>6, <2>1, <2>2
  <1>9. Queues(s, u, ack)
    BY <1>2, <1>3, <1>5
  <1>10. JournalValid(u) /\ PendingJournalled(u)
    BY <1>2, <1>9 DEF verify, JournalValid, PendingJournalled, Queues
  <1>11. Cardinality(u.command_journal) <= JournalLimit
    BY <1>2 DEF verify, WithinLimits
  <1>12. u.device_sequence \in Nat /\ u.device_sequence >= s.device_sequence
    BY <1>2, <1>7
  <1>13. verify(u)
    BY <1>2, <1>4, <1>6, <1>8, <1>9, <1>10, <1>11, <1>12, QueuedAckVerifies
  <1> QED BY <1>1, <1>13

\* A rejection with an event id of its own is a valid fact, numbered next.
LEMMA FreshRejectionVerifies ==
  ASSUME NEW s \in States, verify(s), Numbers(s), NEW u, NEW ack \in Acks,
         NEW event, NEW id, FreshRejection(s, u, ack, event, id),
         ack.rejection \in Rejections,
         event = AckEvent(id) \/ event.kind = "rejected",
         \A i \in DOMAIN s.outbox : s.outbox[i].event # event,
         reserve_outbox(s, 1), Cardinality(u.command_journal) <= JournalLimit,
         JournalValid(u), PendingJournalled(u)
  PROVE  verify(u)
  <1>1. /\ ack.event = event /\ ack.command_id = id /\ Queues(s, u, ack)
        /\ ack.sequence = SaturatingSucc(s.device_sequence)
        /\ u.device_sequence = ack.sequence
        /\ ack.activates_revision = None /\ ~ack.settled_replay
    BY DEF FreshRejection
  <1>2. s.device_sequence \in Nat
    BY DEF States
  <1>3. /\ ack.sequence = s.device_sequence + 1
        /\ \A i \in DOMAIN s.outbox : s.outbox[i].sequence \in Nat
                                      /\ s.outbox[i].sequence < ack.sequence
    BY <1>1, NextNumberNew
  <1>4. /\ ack.sequence \in Nat /\ ack.sequence > 0
        /\ u.device_sequence \in Nat /\ u.device_sequence >= s.device_sequence
        /\ ack.sequence <= u.device_sequence
    BY <1>1, <1>2, <1>3
  <1>5. ack.rejection # None
    BY CommandsAssumption
  <1>6. AckSemanticValid(ack) /\ ~Activates(ack)
    BY <1>1, <1>4, <1>5 DEF AckSemanticValid, Activates
  <1>7. \A i \in DOMAIN s.outbox : /\ s.outbox[i].event # ack.event
                                   /\ s.outbox[i].sequence # ack.sequence
    BY <1>1, <1>3, <1>4
  <1> QED BY <1>1, <1>4, <1>6, <1>7, QueuedAckVerifies

\* The rejection of a conflicting replay that is not queued yet verifies.
LEMMA ConflictVerifies ==
  ASSUME NEW s \in States, verify(s), Numbers(s),
         NEW id \in CommandIds, NEW f \in Fingerprints,
         ~has_conflicting_replay(s, id, f), reserve_outbox(s, 1)
  PROVE  verify(reject_conflicting_replay(s, id, f))
  <1>1. PICK u : u = reject_conflicting_replay(s, id, f)
    OBVIOUS
  <1>2. PICK ack \in Acks :
          /\ FreshRejection(s, u, ack, RejectedEvent(id, f), id)
          /\ ack.rejection = "MalformedCommand"
          /\ u.command_journal = s.command_journal
    BY <1>1, ConflictFacts
  <1>3. u.pending_inbound = s.pending_inbound
    BY <1>2 DEF FreshRejection, Queues
  <1>4. JournalValid(u) /\ PendingJournalled(u)
    BY <1>2, <1>3 DEF verify, JournalValid, PendingJournalled
  <1>5. Cardinality(u.command_journal) <= JournalLimit
    BY <1>2 DEF verify, WithinLimits
  <1>6. RejectedEvent(id, f).kind = "rejected" /\ "MalformedCommand" \in Rejections
    BY EventsDiffer DEF Rejections
  <1>7. \A i \in DOMAIN s.outbox : s.outbox[i].event # RejectedEvent(id, f)
    BY DEF has_conflicting_replay
  <1>8. verify(u)
    BY <1>2, <1>4, <1>5, <1>6, <1>7, FreshRejectionVerifies
  <1> QED BY <1>1, <1>8

\* Nothing of command id is outstanding, and no live entry names it.
Unknown(s, id, date) ==
  /\ LiveEntries(s, id, date) = {}
  /\ ~IsPendingCommand(s, id)
  /\ \A i \in DOMAIN s.outbox : s.outbox[i].event \notin {AckEvent(id), ReportEvent(id)}

\* Expiry keeps a manifest that verifies.
LEMMA ExpiredVerifies ==
  ASSUME NEW s \in States, verify(s), IsFiniteSet(s.command_journal), NEW date
  PROVE  verify(expire_command_journal(s, date))
  <1>1. PICK k : k = expire_command_journal(s, date)
    OBVIOUS
  <1>2. /\ k.outbox = s.outbox /\ k.device_sequence = s.device_sequence
        /\ k.current = s.current /\ k.reconnect_revision = s.reconnect_revision
        /\ k.pending_inbound = s.pending_inbound
        /\ k.command_journal = {c \in s.command_journal :
             c.retain_until > date \/ IsPendingCommand(s, c.command_id)}
    BY <1>1, ExpireFacts
  <1>3. k.command_journal \in SUBSET s.command_journal
    BY <1>2
  <1>4. Cardinality(k.command_journal) <= JournalLimit
    <2>1. /\ IsFiniteSet(k.command_journal)
          /\ Cardinality(k.command_journal) <= Cardinality(s.command_journal)
      BY <1>3, FS_Subset
    <2>2. Cardinality(k.command_journal) \in Nat /\ Cardinality(s.command_journal) \in Nat
      BY <2>1, FS_CardinalityType
    <2>3. Cardinality(s.command_journal) <= JournalLimit /\ JournalLimit \in Nat
      BY LimitsAssumption DEF verify, WithinLimits
    <2> QED BY <2>1, <2>2, <2>3
  <1>5. JournalValid(k)
    BY <1>3 DEF verify, JournalValid
  <1>6. PendingJournalled(k)
    BY <1>2 DEF verify, PendingJournalled, IsPendingCommand
  <1>7. verify(k)
    BY <1>2, <1>4, <1>5, <1>6
    DEF verify, WithinLimits, OutboxEntriesValid, OutboxEntriesDistinct,
        AtMostOneReport, PendingIffReport, rotation_in_flight, ActivationMatched,
        BlockedReportAwaits, ReadyReportConnected, ReconnectMatchesCurrent
  <1> QED BY <1>1, <1>7

\* u journals e, an entry of command id, after expiry.
Journals(s, id, date, e, u) ==
  /\ e.command_id = id /\ e.acknowledgement.command_id = id
  /\ AckSemanticValid(e.acknowledgement)
  /\ e.retain_until = retention_deadline(date)
  /\ u.command_journal = expire_command_journal(s, date).command_journal \union {e}

\* The journal of a rejection or an acceptance of an unknown command.
LEMMA NewEntryValid ==
  ASSUME NEW s \in States, verify(s), Consistent(s), NEW id, NEW date \in Nat,
         Unknown(s, id, date),
         reserve_command_journal(expire_command_journal(s, date)),
         NEW e, NEW u, Journals(s, id, date, e, u)
  PROVE  JournalValid(u) /\ Cardinality(u.command_journal) <= JournalLimit
  <1> DEFINE K == expire_command_journal(s, date).command_journal
  <1>1. K = {c \in s.command_journal :
               c.retain_until > date \/ IsPendingCommand(s, c.command_id)}
    BY ExpireFacts
  <1>2. IsFiniteSet(s.command_journal)
    BY DEF Consistent, JournalSound
  <1> HIDE DEF K
  <1>3. /\ IsFiniteSet(K) /\ IsFiniteSet(K \union {e})
        /\ Cardinality(K \union {e}) <= Cardinality(K) + 1
    BY <1>1, <1>2, JournalFinite
  <1>4. Cardinality(K) \in Nat /\ Cardinality(K \union {e}) \in Nat
    BY <1>3, FS_CardinalityType
  <1>5. Cardinality(K) < JournalLimit /\ JournalLimit \in Nat
    BY LimitsAssumption DEF reserve_command_journal, K
  <1>6. Cardinality(u.command_journal) <= JournalLimit
    BY <1>3, <1>4, <1>5 DEF K, Journals
  <1>7. ASSUME NEW c \in K PROVE c.command_id # id
    BY <1>1 DEF Unknown, LiveEntries
  <1>8. /\ \A c, d \in K : c.command_id = d.command_id => c = d
        /\ \A c \in K : /\ c.command_id = c.acknowledgement.command_id
                        /\ AckSemanticValid(c.acknowledgement) /\ c.retain_until > 0
    BY <1>1 DEF verify, JournalValid
  <1>9. e.retain_until > 0
    BY CommandsAssumption DEF retention_deadline, Journals
  <1>10. JournalValid(u)
    BY <1>7, <1>8, <1>9 DEF JournalValid, K, Journals
  <1> QED BY <1>6, <1>10

\* The rejection of an unknown command verifies.
LEMMA RejectVerifies ==
  ASSUME NEW s \in States, verify(s), Consistent(s), Numbers(s),
         NEW id \in CommandIds, NEW f \in Fingerprints, NEW r \in Rejections,
         NEW date \in Nat, Unknown(s, id, date),
         reserve_outbox(expire_command_journal(s, date), 1),
         reserve_command_journal(expire_command_journal(s, date))
  PROVE  verify(reject(expire_command_journal(s, date), id, f, r,
                       retention_deadline(date)))
  <1>1. PICK k, t : k = expire_command_journal(s, date) /\ t = retention_deadline(date)
    OBVIOUS
  <1>2. /\ k \in States /\ k.outbox = s.outbox
        /\ k.device_sequence = s.device_sequence
    BY <1>1, ExpireFacts
  <1>3. verify(k) /\ Numbers(k) /\ PendingJournalled(k)
    BY <1>1, <1>2, ExpiredVerifies DEF Consistent, JournalSound, Numbers, verify
  <1>4. t \in Nat
    BY <1>1, CommandsAssumption DEF retention_deadline
  <1>5. PICK u : u = reject(k, id, f, r, t)
    OBVIOUS
  <1>6. PICK ack \in Acks :
          /\ FreshRejection(k, u, ack, AckEvent(id), id)
          /\ ack.rejection = r
          /\ u.command_journal = k.command_journal \union {StoredCommand(id, f, ack, t)}
    BY <1>2, <1>4, <1>5, RejectFacts
  <1>7. PICK e : e = StoredCommand(id, f, ack, t)
    OBVIOUS
  <1>8. e.command_id = id /\ e.acknowledgement = ack /\ e.retain_until = t
    BY <1>7 DEF StoredCommand
  <1>9. /\ ack.command_id = id /\ ack.activates_revision = None
        /\ ~ack.settled_replay /\ u.pending_inbound = k.pending_inbound
        /\ ack.sequence = SaturatingSucc(k.device_sequence)
    BY <1>6 DEF FreshRejection, Queues
  <1>10. AckSemanticValid(ack)
    <2>1. ack.sequence > 0
      BY <1>2, <1>3, <1>9, NextNumberNew DEF States
    <2> QED BY <1>6, <1>9, <2>1, CommandsAssumption DEF AckSemanticValid
  <1>11. JournalValid(u) /\ Cardinality(u.command_journal) <= JournalLimit
    <2>1. Journals(s, id, date, e, u)
      BY <1>1, <1>6, <1>7, <1>8, <1>9, <1>10 DEF Journals
    <2> QED BY <2>1, NewEntryValid
  <1>12. PendingJournalled(u)
    BY <1>3, <1>6, <1>9 DEF PendingJournalled
  <1>13. \A i \in DOMAIN k.outbox : k.outbox[i].event # AckEvent(id)
    BY <1>2 DEF Unknown
  <1>14. verify(u)
    BY <1>1, <1>2, <1>3, <1>6, <1>11, <1>12, <1>13, FreshRejectionVerifies
  <1> QED BY <1>1, <1>5, <1>14

\* rest is q without its i-th entry.
RemovedFrom(q, i, rest) ==
  /\ Len(rest) = Len(q) - 1 /\ Len(q) \in Nat
  /\ \A j \in DOMAIN rest : \E k \in DOMAIN q : k # i /\ rest[j] = q[k]
  /\ \A k \in DOMAIN q : k # i => \E j \in DOMAIN rest : rest[j] = q[k]
  /\ \A j, l \in DOMAIN rest : j # l =>
        \E k, m \in DOMAIN q : k # m /\ rest[j] = q[k] /\ rest[l] = q[m]

\* The facts left by a removal are those of the queue, each once.
LEMMA RemovedIndices ==
  ASSUME NEW s \in States, NEW i \in DOMAIN s.outbox
  PROVE  RemovedFrom(s.outbox, i, RemoveAt(s.outbox, i))
  <1>0. PICK rest : rest = RemoveAt(s.outbox, i)
    OBVIOUS
  <1> DEFINE q == s.outbox
             Old(j) == IF j < i THEN j ELSE j + 1
  <1>1. q \in Seq(Facts) /\ Len(q) \in Nat /\ DOMAIN q = 1 .. Len(q)
    BY DEF States, Facts
  <1>2. /\ rest \in Seq(Facts) /\ Len(rest) = Len(q) - 1
        /\ \A j \in 1 .. Len(q) - 1 : rest[j] = IF j < i THEN q[j] ELSE q[j + 1]
    BY <1>0, <1>1, RemoveAtProperties
  <1>3. DOMAIN rest = 1 .. Len(q) - 1
    BY <1>1, <1>2
  <1>4. ASSUME NEW j \in DOMAIN rest
        PROVE  Old(j) \in DOMAIN q /\ rest[j] = q[Old(j)]
    BY <1>1, <1>2, <1>3
  <1>5. ASSUME NEW j \in DOMAIN rest, NEW l \in DOMAIN rest, j # l
        PROVE  Old(j) # Old(l)
    BY <1>1, <1>3, <1>5
  <1> HIDE DEF Old
  <1>6. \A j, l \in DOMAIN rest : j # l =>
          \E k, m \in DOMAIN q : k # m /\ rest[j] = q[k] /\ rest[l] = q[m]
    BY <1>4, <1>5
  <1>7. /\ \A j \in DOMAIN rest : \E k \in DOMAIN q : k # i /\ rest[j] = q[k]
        /\ \A k \in DOMAIN q : k # i => \E j \in DOMAIN rest : rest[j] = q[k]
    BY <1>0, RemovedEntries
  <1> QED BY <1>0, <1>1, <1>2, <1>6, <1>7 DEF RemovedFrom

\* An activating ACK is the only one, and no report is ready beside it.
LEMMA OneActivation ==
  ASSUME NEW s \in States, verify(s), Consistent(s),
         NEW i \in DOMAIN s.outbox, Activates(s.outbox[i])
  PROVE  /\ \A k \in DOMAIN s.outbox : Activates(s.outbox[k]) => k = i
         /\ \A k \in DOMAIN s.outbox : s.outbox[k].kind # "ReportReady"
         /\ s.outbox[i].activates_revision = s.current.revision
         /\ \E r \in DOMAIN s.outbox :
               /\ SameRotation(s.outbox[i], s.outbox[r]) /\ r # i
               /\ \A k \in DOMAIN s.outbox : IsReport(s.outbox[k]) => k = r
  <1> DEFINE q == s.outbox
  <1>1. PICK r \in DOMAIN q : SameRotation(q[i], q[r])
    BY DEF verify, ActivationMatched
  <1>2. q[i].kind = "Ack" /\ q[r].kind = "ReportBlocked"
    BY <1>1 DEF Activates, IsAck, SameRotation
  <1>3. r # i
    BY <1>2
  <1>4. \A k \in DOMAIN q : IsReport(q[k]) => k = r
    BY <1>2 DEF verify, AtMostOneReport, IsReport
  <1>5. ASSUME NEW k \in DOMAIN q, Activates(q[k]) PROVE k = i
    <2>1. PICK m \in DOMAIN q : SameRotation(q[k], q[m])
      BY <1>5 DEF verify, ActivationMatched
    <2>2. m = r
      BY <1>4, <2>1 DEF SameRotation, IsReport
    <2>3. q[k].command_id = q[i].command_id
      BY <1>1, <2>1, <2>2 DEF SameRotation
    <2>4. q[k].event = q[i].event
      BY <1>5, <2>3 DEF Consistent, ActivationsFirst
    <2> QED BY <2>4 DEF verify, OutboxEntriesDistinct
  <1>6. \A k \in DOMAIN q : q[k].kind # "ReportReady"
    BY <1>2, <1>4 DEF IsReport
  <1>7. q[i].activates_revision = s.current.revision
    BY DEF verify, ActivationMatched
  <1> QED BY <1>1, <1>3, <1>4, <1>5, <1>6, <1>7

\* What every confirmation leaves in order, whichever fact it removes.
LEMMA ConfirmedEntries ==
  ASSUME NEW s \in States, verify(s), NEW i \in DOMAIN s.outbox, NEW u,
         Confirmed(s, i, u)
  PROVE  /\ WithinLimits(u) /\ OutboxEntriesValid(u) /\ OutboxEntriesDistinct(u)
         /\ JournalValid(u) /\ PendingJournalled(u) /\ AtMostOneReport(u)
  <1> DEFINE q == s.outbox
  <1>1. PICK rest : rest = RemoveAt(q, i)
    OBVIOUS
  <1>2. RemovedFrom(q, i, rest)
    BY <1>1, RemovedIndices
  <1>3. /\ u.outbox = rest /\ u.command_journal = s.command_journal
        /\ u.device_sequence = s.device_sequence /\ u.current = s.current
        /\ u.pending_inbound = IF q[i].kind = "ReportReady" THEN None
                               ELSE s.pending_inbound
    BY <1>1 DEF Confirmed
  <1>4. WithinLimits(u)
    BY <1>2, <1>3, LimitsAssumption DEF verify, WithinLimits, RemovedFrom
  <1>5. OutboxEntriesValid(u)
    BY <1>2, <1>3 DEF verify, OutboxEntriesValid, RemovedFrom
  <1>6. OutboxEntriesDistinct(u)
    BY <1>2, <1>3, SMTT(20) DEF verify, OutboxEntriesDistinct, RemovedFrom
  <1>7. AtMostOneReport(u)
    <2> SUFFICES ASSUME NEW j \in DOMAIN rest, NEW l \in DOMAIN rest, j # l,
                        IsReport(rest[j]), IsReport(rest[l])
                 PROVE  FALSE
      BY <1>3 DEF AtMostOneReport
    <2>1. PICK k, m \in DOMAIN q : k # m /\ rest[j] = q[k] /\ rest[l] = q[m]
      BY <1>2 DEF RemovedFrom
    <2> QED BY <2>1 DEF verify, AtMostOneReport
  <1>8. JournalValid(u)
    BY <1>3 DEF verify, JournalValid
  <1>9. PendingJournalled(u)
    BY <1>3 DEF verify, PendingJournalled
  <1> QED BY <1>4, <1>5, <1>6, <1>7, <1>8, <1>9

\* The confirmation of an ACK that activates nothing.
LEMMA PlainConfirmVerifies ==
  ASSUME NEW s \in States, verify(s), NEW i \in DOMAIN s.outbox, NEW u,
         Confirmed(s, i, u), s.outbox[i].kind = "Ack", ~Activates(s.outbox[i])
  PROVE  verify(u)
  <1> DEFINE q == s.outbox
  <1>1. PICK rest : rest = RemoveAt(q, i)
    OBVIOUS
  <1>2. /\ \A j \in DOMAIN rest : \E k \in DOMAIN q : k # i /\ rest[j] = q[k]
        /\ \A k \in DOMAIN q : k # i => \E j \in DOMAIN rest : rest[j] = q[k]
    BY <1>1, RemovedIndices, ZenonT(40) DEF RemovedFrom
  <1>3. /\ u.outbox = rest /\ u.current = s.current
        /\ u.pending_inbound = s.pending_inbound
        /\ u.reconnect_revision = s.reconnect_revision
    BY <1>1 DEF Confirmed, Unlocks
  <1>4. ~IsReport(q[i])
    BY DEF IsReport
  <1>5. rotation_in_flight(u) <=> rotation_in_flight(s)
    BY <1>2, <1>3, <1>4 DEF rotation_in_flight
  <1>6. PendingIffReport(u) /\ ReconnectMatchesCurrent(u)
    BY <1>3, <1>5 DEF verify, PendingIffReport, ReconnectMatchesCurrent
  <1>7. ReadyReportConnected(u)
    BY <1>2, <1>3 DEF verify, ReadyReportConnected
  <1>8. ActivationMatched(u)
    <2> SUFFICES ASSUME NEW j \in DOMAIN rest, Activates(rest[j])
                 PROVE  /\ rest[j].activates_revision = s.current.revision
                        /\ \E m \in DOMAIN rest : SameRotation(rest[j], rest[m])
                        /\ s.reconnect_revision = None
      BY <1>3 DEF ActivationMatched
    <2>1. PICK k \in DOMAIN q : rest[j] = q[k]
      BY <1>2
    <2>2. /\ q[k].activates_revision = s.current.revision
          /\ s.reconnect_revision = None
          /\ \E m \in DOMAIN q : SameRotation(q[k], q[m])
      BY <2>1 DEF verify, ActivationMatched
    <2>3. PICK m \in DOMAIN q : SameRotation(q[k], q[m])
      BY <2>2
    <2>4. m # i
      BY <2>3 DEF SameRotation
    <2> QED BY <1>2, <2>1, <2>2, <2>3, <2>4
  <1>9. BlockedReportAwaits(u)
    <2> SUFFICES ASSUME NEW j \in DOMAIN rest, rest[j].kind = "ReportBlocked"
                 PROVE  /\ (\E l \in DOMAIN rest : SameRotation(rest[l], rest[j]))
                              <=> s.reconnect_revision = None
                        /\ s.reconnect_revision \in {None, rest[j].position.revision}
      BY <1>3 DEF BlockedReportAwaits
    <2>1. PICK k \in DOMAIN q : rest[j] = q[k]
      BY <1>2
    <2>2. (\E l \in DOMAIN rest : SameRotation(rest[l], rest[j]))
             <=> (\E l \in DOMAIN q : SameRotation(q[l], q[k]))
      BY <1>2, <2>1 DEF SameRotation
    <2> QED BY <2>1, <2>2 DEF verify, BlockedReportAwaits
  <1> QED BY <1>6, <1>7, <1>8, <1>9, ConfirmedEntries DEF verify

\* The confirmation of the activating ACK.
LEMMA ActivationConfirmVerifies ==
  ASSUME NEW s \in States, verify(s), Consistent(s), NEW i \in DOMAIN s.outbox, NEW u,
         Confirmed(s, i, u), Activates(s.outbox[i])
  PROVE  verify(u)
  <1> DEFINE q == s.outbox
             n == q[i].activates_revision
  <1>1. PICK rest : rest = RemoveAt(q, i)
    OBVIOUS
  <1>2. /\ \A j \in DOMAIN rest : \E k \in DOMAIN q : k # i /\ rest[j] = q[k]
        /\ \A k \in DOMAIN q : k # i => \E j \in DOMAIN rest : rest[j] = q[k]
    BY <1>1, RemovedIndices, ZenonT(40) DEF RemovedFrom
  <1>3. PICK r \in DOMAIN q :
          /\ SameRotation(q[i], q[r]) /\ r # i
          /\ \A k \in DOMAIN q : IsReport(q[k]) => k = r
    BY OneActivation
  <1>4. PICK p \in DOMAIN rest : rest[p] = q[r]
    BY <1>2, <1>3
  <1>5. /\ q[r].kind = "ReportBlocked" /\ q[r].position.revision = n /\ n # None
        /\ n = s.current.revision /\ q[i].kind = "Ack"
    BY <1>3, OneActivation DEF SameRotation, Activates, IsAck
  <1>6. Unlocks(s, i)
    BY <1>1, <1>4, <1>5 DEF Unlocks
  <1>7. /\ u.outbox = rest /\ u.current = s.current
        /\ u.pending_inbound = s.pending_inbound
        /\ u.reconnect_revision = n
    BY <1>1, <1>5, <1>6 DEF Confirmed
  <1>8. ASSUME NEW j \in DOMAIN rest
        PROVE  /\ ~Activates(rest[j]) /\ rest[j].kind # "ReportReady"
               /\ IsReport(rest[j]) => rest[j] = q[r]
    BY <1>2, <1>3, OneActivation
  <1>9. rotation_in_flight(u) /\ rotation_in_flight(s)
    BY <1>4, <1>5, <1>7 DEF rotation_in_flight, IsReport
  <1>10. PendingIffReport(u) /\ ReconnectMatchesCurrent(u)
    BY <1>5, <1>7, <1>9 DEF verify, PendingIffReport, ReconnectMatchesCurrent
  <1>11. ReadyReportConnected(u) /\ ActivationMatched(u)
    BY <1>7, <1>8 DEF ReadyReportConnected, ActivationMatched
  <1>12. BlockedReportAwaits(u)
    BY <1>5, <1>7, <1>8 DEF BlockedReportAwaits, SameRotation, IsReport
  <1> QED BY <1>10, <1>11, <1>12, ConfirmedEntries DEF verify

\* The confirmation of the ready report ends the rotation.
LEMMA ReportConfirmVerifies ==
  ASSUME NEW s \in States, verify(s), NEW i \in DOMAIN s.outbox, NEW u,
         Confirmed(s, i, u), s.outbox[i].kind = "ReportReady"
  PROVE  verify(u)
  <1> DEFINE q == s.outbox
  <1>1. PICK rest : rest = RemoveAt(q, i)
    OBVIOUS
  <1>2. \A j \in DOMAIN rest : \E k \in DOMAIN q : k # i /\ rest[j] = q[k]
    BY <1>1, RemovedIndices DEF RemovedFrom
  <1>3. ~Activates(q[i])
    BY DEF Activates, IsAck
  <1>4. s.reconnect_revision = None
    BY DEF verify, ReadyReportConnected
  <1>5. u.outbox = rest /\ u.pending_inbound = None /\ u.reconnect_revision = None
    BY <1>1, <1>3, <1>4 DEF Confirmed, Unlocks
  <1>6. \A k \in DOMAIN q : IsReport(q[k]) => k = i
    BY DEF verify, AtMostOneReport, IsReport
  <1>7. ASSUME NEW k \in DOMAIN q PROVE ~Activates(q[k])
    <2>1. ASSUME NEW m \in DOMAIN q PROVE q[m].kind # "ReportBlocked"
      BY <1>6 DEF IsReport
    <2> QED BY <2>1 DEF verify, ActivationMatched, SameRotation
  <1>8. \A j \in DOMAIN rest : ~IsReport(rest[j]) /\ ~Activates(rest[j])
    BY <1>2, <1>6, <1>7
  <1>9. /\ ~rotation_in_flight(u) /\ ActivationMatched(u) /\ BlockedReportAwaits(u)
    BY <1>5, <1>8
    DEF rotation_in_flight, ActivationMatched, BlockedReportAwaits, IsReport
  <1>10. PendingIffReport(u) /\ ReconnectMatchesCurrent(u) /\ ReadyReportConnected(u)
    BY <1>5, <1>9 DEF PendingIffReport, ReconnectMatchesCurrent, ReadyReportConnected
  <1> QED BY <1>9, <1>10, ConfirmedEntries DEF verify

\* Whatever fact but a blocked report is confirmed, the candidate verifies.
LEMMA ConfirmVerifies ==
  ASSUME NEW s \in States, verify(s), Consistent(s), NEW i \in DOMAIN s.outbox,
         s.outbox[i].kind # "ReportBlocked"
  PROVE  verify(confirm_outbound(s, i))
  <1>1. PICK u : u = confirm_outbound(s, i)
    OBVIOUS
  <1>2. Confirmed(s, i, u)
    BY <1>1, ConfirmFacts
  <1>3. s.outbox[i].kind \in {"Ack", "ReportReady"}
    <2>1. PICK e \in Facts : e = s.outbox[i]
      BY DEF States, Facts
    <2> QED BY <2>1 DEF Facts, Acks, Reports
  <1>4. verify(u)
    BY <1>2, <1>3, PlainConfirmVerifies, ActivationConfirmVerifies,
       ReportConfirmVerifies
  <1> QED BY <1>1, <1>4

\* The first session with the current credential, when one is awaited.
LEMMA ReconnectVerifies ==
  ASSUME NEW s \in States, verify(s), s.reconnect_revision = s.current.revision
  PROVE  verify(mark_reconnected(s))
  <1> DEFINE q == s.outbox
  <1>1. PICK u : u = mark_reconnected(s)
    OBVIOUS
  <1>2. Reconnected(s, u)
    BY <1>1, ReconnectFacts
  <1>3. PICK r : r = u.outbox
    OBVIOUS
  <1>4. s.reconnect_revision # None
    BY LimitsAssumption DEF States, Positions
  <1>5. /\ DOMAIN r = DOMAIN q /\ Len(r) = Len(q)
        /\ u.command_journal = s.command_journal
        /\ u.device_sequence = s.device_sequence /\ u.current = s.current
        /\ u.reconnect_revision = None /\ u.pending_inbound = s.pending_inbound
    BY <1>2, <1>3 DEF Reconnected
  <1>6. ASSUME NEW i \in DOMAIN q
        PROVE  /\ r[i].event = q[i].event /\ r[i].sequence = q[i].sequence
               /\ IsReport(r[i]) <=> IsReport(q[i])
               /\ IsReport(q[i]) => r[i].position = q[i].position
               /\ EntrySemanticValid(q[i]) => EntrySemanticValid(r[i])
               /\ r[i].kind # "ReportBlocked"
               /\ Activates(r[i]) => Activates(q[i])
    <2>1. CASE q[i].kind = "ReportBlocked"
      <3>1. /\ r[i].kind = "ReportReady" /\ r[i].event = q[i].event
            /\ r[i].command_id = q[i].command_id
            /\ r[i].sequence = q[i].sequence /\ r[i].position = q[i].position
        BY <1>2, <1>3, <2>1 DEF Reconnected
      <3> QED BY <2>1, <3>1 DEF IsReport, IsAck, EntrySemanticValid, Activates
    <2>2. CASE q[i].kind # "ReportBlocked"
      <3>1. r[i] = q[i]
        BY <1>2, <1>3, <2>2 DEF Reconnected
      <3> QED BY <2>2, <3>1
    <2> QED BY <2>1, <2>2
  <1>7. WithinLimits(u)
    BY <1>3, <1>5 DEF verify, WithinLimits
  <1>8. OutboxEntriesValid(u)
    BY <1>3, <1>5, <1>6 DEF verify, OutboxEntriesValid
  <1>9. OutboxEntriesDistinct(u)
    BY <1>3, <1>5, <1>6 DEF verify, OutboxEntriesDistinct
  <1>10. JournalValid(u) /\ PendingJournalled(u)
    BY <1>5 DEF verify, JournalValid, PendingJournalled
  <1>11. AtMostOneReport(u)
    BY <1>3, <1>5, <1>6 DEF verify, AtMostOneReport
  <1>12. rotation_in_flight(u) <=> rotation_in_flight(s)
    BY <1>3, <1>5, <1>6 DEF rotation_in_flight
  <1>13. PendingIffReport(u)
    BY <1>5, <1>12 DEF verify, PendingIffReport
  <1>14. ActivationMatched(u)
    <2>1. \A i \in DOMAIN q : ~Activates(q[i])
      BY <1>4 DEF verify, ActivationMatched
    <2> QED BY <1>3, <1>5, <1>6, <2>1 DEF ActivationMatched
  <1>15. BlockedReportAwaits(u)
    BY <1>3, <1>5, <1>6 DEF BlockedReportAwaits
  <1>16. ReadyReportConnected(u) /\ ReconnectMatchesCurrent(u)
    BY <1>5 DEF ReadyReportConnected, ReconnectMatchesCurrent
  <1>17. verify(u)
    BY <1>7, <1>8, <1>9, <1>10, <1>11, <1>13, <1>14, <1>15, <1>16 DEF verify
  <1> QED BY <1>1, <1>17

\* The settlement of the pending delivery.
LEMMA SettleVerifies ==
  ASSUME NEW s \in States, verify(s), s.pending_inbound # None
  PROVE  verify(mark_inbound_settled(s))
  <1>1. PICK u : u = mark_inbound_settled(s)
    OBVIOUS
  <1>2. /\ u.pending_inbound # None
        /\ u.pending_inbound.command_id = s.pending_inbound.command_id
        /\ u.pending_inbound.fingerprint = s.pending_inbound.fingerprint
        /\ u.outbox = s.outbox /\ u.command_journal = s.command_journal
        /\ u.device_sequence = s.device_sequence /\ u.current = s.current
        /\ u.reconnect_revision = s.reconnect_revision
    BY <1>1, SettleFacts DEF IsSettled
  <1>3. JournalValid(u) /\ PendingJournalled(u) /\ PendingIffReport(u)
    BY <1>2
    DEF verify, JournalValid, PendingJournalled, PendingIffReport, rotation_in_flight
  <1>4. verify(u)
    BY <1>2, <1>3
    DEF verify, WithinLimits, OutboxEntriesValid, OutboxEntriesDistinct,
        AtMostOneReport, rotation_in_flight, ActivationMatched,
        BlockedReportAwaits, ReadyReportConnected, ReconnectMatchesCurrent
  <1> QED BY <1>1, <1>4

\* The acceptance of an unknown command while no rotation is in flight.
LEMMA AcceptVerifies ==
  ASSUME NEW s \in States, verify(s), Consistent(s), Numbers(s),
         NEW c \in Commands, NEW date \in Nat, NEW u, NEW k,
         NEW ack \in Acks, NEW report \in Reports, NEW pending \in PendingInbound,
         AcceptedCandidate(s, c, date, u, k, ack, report, pending),
         Unknown(s, CommandData[c].id, date), ~rotation_in_flight(s),
         CommitReserves(s, date)
  PROVE  verify(u)
  <1> DEFINE q == s.outbox
  <1>1. PICK id, t, position :
          /\ id = CommandData[c].id /\ t = retention_deadline(date)
          /\ position = NextPosition(s, c)
    OBVIOUS
  <1>2. /\ k = expire_command_journal(s, date) /\ k \in States /\ u \in States
        /\ Accepted(k, id, c, position, t, u, ack, report, pending)
    BY <1>1 DEF AcceptedCandidate
  <1>3. /\ k.outbox = s.outbox /\ k.device_sequence = s.device_sequence
        /\ k.reconnect_revision = s.reconnect_revision
    BY <1>2, ExpireFacts
  <1>4. /\ ack.event = AckEvent(id) /\ ack.command_id = id /\ ack.rejection = None
        /\ ack.activates_revision = position.revision /\ ~ack.settled_replay
        /\ ack.sequence = SaturatingSucc(s.device_sequence)
        /\ report.kind = "ReportBlocked" /\ report.event = ReportEvent(id)
        /\ report.command_id = id /\ report.position = position
        /\ report.sequence = SaturatingSucc(ack.sequence)
    BY <1>2, <1>3 DEF Accepted
  <1>5. /\ pending.command_id = id /\ pending.fingerprint = c
        /\ u.outbox = Append(Append(q, ack), report) /\ u.current = position
        /\ u.device_sequence = report.sequence
        /\ u.reconnect_revision = s.reconnect_revision
        /\ u.command_journal = k.command_journal \union {StoredCommand(id, c, ack, t)}
        /\ u.pending_inbound = pending
    BY <1>2, <1>3 DEF Accepted
  <1>6. PICK r : r = u.outbox
    OBVIOUS
  <1>7. q \in Seq(Facts) /\ ack \in Facts /\ report \in Facts /\ ack.kind = "Ack"
    BY DEF States, Facts, Acks
  <1>8. PICK m, n : m = Len(q) + 1 /\ n = Len(q) + 2
    OBVIOUS
  <1>9. /\ Len(r) = Len(q) + 2 /\ Len(q) \in Nat /\ DOMAIN q = 1 .. Len(q)
        /\ DOMAIN r = DOMAIN q \union {m, n}
        /\ (\A i \in DOMAIN q : r[i] = q[i]) /\ r[m] = ack /\ r[n] = report
    BY <1>5, <1>6, <1>7, <1>8, TwoMore
  <1>10. m # n /\ m \notin DOMAIN q /\ n \notin DOMAIN q
    BY <1>8, <1>9
  <1>11. s.device_sequence \in Nat /\ SequenceMax \in Nat
    BY LimitsAssumption DEF States
  <1>12. /\ ack.sequence = s.device_sequence + 1 /\ ack.sequence < SequenceMax
         /\ \A i \in DOMAIN q : q[i].sequence \in Nat /\ q[i].sequence < ack.sequence
    BY <1>4, NextNumberNew
  <1>13. report.sequence = ack.sequence + 1
    BY <1>4, <1>11, <1>12 DEF SaturatingSucc
  <1>14. position.revision \in Nat /\ position.revision # None
    BY <1>1, LimitsAssumption DEF NextPosition, next_revision, States, Positions
  <1>15. ASSUME NEW i \in DOMAIN q
         PROVE  /\ ~IsReport(q[i]) /\ ~Activates(q[i])
                /\ q[i].kind \notin {"ReportBlocked", "ReportReady"}
                /\ EntrySemanticValid(q[i]) /\ q[i].sequence \in 1 .. s.device_sequence
                /\ q[i].event # ack.event /\ q[i].event # report.event
    <2>1. ~IsReport(q[i])
      BY DEF rotation_in_flight
    <2>2. ~Activates(q[i])
      <3>1. ASSUME NEW j \in DOMAIN q PROVE ~SameRotation(q[i], q[j])
        BY DEF rotation_in_flight, IsReport, SameRotation
      <3> QED BY <3>1 DEF verify, ActivationMatched
    <2>3. EntrySemanticValid(q[i]) /\ q[i].sequence \in 1 .. s.device_sequence
      BY DEF verify, OutboxEntriesValid
    <2>4. q[i].event # ack.event /\ q[i].event # report.event
      BY <1>1, <1>4 DEF Unknown
    <2> QED BY <2>1, <2>2, <2>3, <2>4 DEF IsReport
  <1>16. s.pending_inbound = None /\ s.reconnect_revision = None
    BY DEF verify, PendingIffReport, ReconnectMatchesCurrent
  <1>17. AckSemanticValid(ack) /\ EntrySemanticValid(ack) /\ ~IsReport(ack)
         /\ EntrySemanticValid(report) /\ IsReport(report) /\ ~Activates(report)
         /\ SameRotation(ack, report) /\ Activates(ack)
    <2>1. ack.sequence > 0
      BY <1>11, <1>12
    <2> QED BY <1>4, <1>7, <1>14, <2>1
            DEF AckSemanticValid, EntrySemanticValid, IsAck, IsReport, Activates,
                SameRotation
  <1>18. JournalValid(u) /\ Cardinality(u.command_journal) <= JournalLimit
    <2>1. PICK e : e = StoredCommand(id, c, ack, t)
      OBVIOUS
    <2>2. e.command_id = id /\ e.acknowledgement = ack /\ e.retain_until = t
      BY <2>1 DEF StoredCommand
    <2>3. reserve_command_journal(expire_command_journal(s, date))
      BY DEF CommitReserves
    <2>4. Journals(s, id, date, e, u)
      BY <1>1, <1>2, <1>4, <1>5, <1>17, <2>1, <2>2 DEF Journals
    <2> QED BY <1>1, <2>3, <2>4, NewEntryValid
  <1>19. WithinLimits(u)
    <2>1. Len(q) + 2 <= OutboxLimit
      BY <1>2, <1>3 DEF CommitReserves, reserve_outbox
    <2> QED BY <1>6, <1>9, <1>18, <2>1 DEF WithinLimits
  <1>20. OutboxEntriesValid(u)
    <2>1. /\ ack.sequence \in 1 .. u.device_sequence
          /\ report.sequence \in 1 .. u.device_sequence
      BY <1>5, <1>11, <1>12, <1>13
    <2>2. \A i \in DOMAIN q : q[i].sequence \in 1 .. u.device_sequence
      BY <1>5, <1>11, <1>12, <1>13, <1>15
    <2>3. report.position = u.current
      BY <1>4, <1>5
    <2> QED BY <1>6, <1>9, <1>15, <1>17, <2>1, <2>2, <2>3 DEF OutboxEntriesValid
  <1>21. OutboxEntriesDistinct(u)
    <2>1. \A i, j \in DOMAIN q : i # j => /\ q[i].event # q[j].event
                                          /\ q[i].sequence # q[j].sequence
      BY DEF verify, OutboxEntriesDistinct
    <2>2. /\ ack.sequence # report.sequence
          /\ \A i \in DOMAIN q : /\ q[i].sequence # ack.sequence
                                 /\ q[i].sequence # report.sequence
      BY <1>11, <1>12, <1>13
    <2>3. ack.event # report.event
      BY <1>4, EventsDiffer
    <2> SUFFICES ASSUME NEW i \in DOMAIN r, NEW j \in DOMAIN r, i # j
                 PROVE  r[i].event # r[j].event /\ r[i].sequence # r[j].sequence
      BY <1>6 DEF OutboxEntriesDistinct
    <2>4. CASE i \in DOMAIN q
      BY <1>9, <1>15, <2>1, <2>2, <2>4
    <2>5. CASE i = m
      BY <1>9, <1>15, <2>2, <2>3, <2>5
    <2>6. CASE i = n
      BY <1>9, <1>15, <2>2, <2>3, <2>6
    <2> QED BY <1>9, <2>4, <2>5, <2>6
  <1>22. PendingJournalled(u)
    <2>1. PICK e : e = StoredCommand(id, c, ack, t)
      OBVIOUS
    <2>2. e.command_id = id /\ e.fingerprint = c /\ e \in u.command_journal
      BY <1>5, <2>1 DEF StoredCommand
    <2> QED BY <1>5, <2>2 DEF PendingJournalled
  <1>23. AtMostOneReport(u)
    BY <1>6, <1>9, <1>15, <1>17 DEF AtMostOneReport
  <1>24. PendingIffReport(u)
    <2>1. u.pending_inbound # None
      BY <1>5, NoneAssumption
    <2> QED BY <1>6, <1>9, <1>17, <2>1 DEF PendingIffReport, rotation_in_flight
  <1>25. ActivationMatched(u)
    BY <1>4, <1>5, <1>6, <1>9, <1>15, <1>16, <1>17 DEF ActivationMatched
  <1>26. BlockedReportAwaits(u)
    <2>1. ASSUME NEW j \in DOMAIN r, r[j].kind = "ReportBlocked"
          PROVE  j = n
      BY <1>7, <1>9, <1>15, <2>1
    <2> QED BY <1>5, <1>6, <1>9, <1>16, <1>17, <2>1 DEF BlockedReportAwaits
  <1>27. ReadyReportConnected(u) /\ ReconnectMatchesCurrent(u)
    BY <1>5, <1>16 DEF ReadyReportConnected, ReconnectMatchesCurrent
  <1> QED BY <1>18, <1>19, <1>20, <1>21, <1>22, <1>23, <1>24, <1>25, <1>26, <1>27
          DEF verify

\* A candidate that verifies is not refused.
LEMMA NotRefused ==
  ASSUME NEW s, NEW u, verify(u), NEW r, r # "InvalidState"
  PROVE  persist_candidate(s, u, r).result # "InvalidState"
  BY DEF persist_candidate, Effect

\* The three ways a delivery that commits nothing can end.
LEMMA BranchesAccepted ==
  ASSUME NEW s \in States, verify(s), Consistent(s), Numbers(s),
         NEW id \in CommandIds, NEW f \in Fingerprints, NEW r \in Rejections,
         NEW date \in Nat
  PROVE  /\ command_match(s, id, f, date) = "same" =>
              ExactReplay(s, id, f).result # "InvalidState"
         /\ ConflictingReplay(s, id, f).result # "InvalidState"
         /\ Unknown(s, id, date) =>
              PersistRejection(s, id, f, r, date).result # "InvalidState"
  <1>1. ASSUME command_match(s, id, f, date) = "same"
        PROVE  ExactReplay(s, id, f).result # "InvalidState"
    <2>1. CASE ~has_command_ack(s, id) /\ reserve_outbox(s, 1)
      <3>1. verify(replay_command(s, id, f))
        BY <1>1, <2>1, ReplayVerifies
      <3>2. persist_candidate(s, replay_command(s, id, f), "Duplicate").result
              # "InvalidState"
        BY <3>1, NotRefused
      <3> QED BY <2>1, <3>2 DEF ExactReplay
    <2>2. CASE ~(~has_command_ack(s, id) /\ reserve_outbox(s, 1))
      BY <2>2 DEF ExactReplay, Effect
    <2> QED BY <2>1, <2>2
  <1>2. ConflictingReplay(s, id, f).result # "InvalidState"
    <2>1. CASE ~has_conflicting_replay(s, id, f) /\ reserve_outbox(s, 1)
      <3>1. verify(reject_conflicting_replay(s, id, f))
        BY <2>1, ConflictVerifies
      <3>2. persist_candidate(s, reject_conflicting_replay(s, id, f),
                              "MalformedCommand").result # "InvalidState"
        BY <3>1, NotRefused
      <3> QED BY <2>1, <3>2 DEF ConflictingReplay
    <2>2. CASE ~(~has_conflicting_replay(s, id, f) /\ reserve_outbox(s, 1))
      BY <2>2 DEF ConflictingReplay, Effect
    <2> QED BY <2>1, <2>2
  <1>3. ASSUME Unknown(s, id, date)
        PROVE  PersistRejection(s, id, f, r, date).result # "InvalidState"
    <2>1. PICK k : k = expire_command_journal(s, date)
      OBVIOUS
    <2>2. PICK u : u = reject(k, id, f, r, retention_deadline(date))
      OBVIOUS
    <2>3. PersistRejection(s, id, f, r, date)
            = IF ~reserve_outbox(k, 1) THEN Effect(s, "OutboxFull")
              ELSE IF ~reserve_command_journal(k) THEN Effect(s, "CommandJournalFull")
              ELSE persist_candidate(s, u, r)
      BY <2>1, <2>2 DEF PersistRejection
    <2>4. CASE reserve_outbox(k, 1) /\ reserve_command_journal(k)
      <3>1. verify(u)
        BY <1>3, <2>1, <2>2, <2>4, RejectVerifies
      <3>2. r # "InvalidState"
        BY DEF Rejections
      <3>3. persist_candidate(s, u, r).result # "InvalidState"
        BY <3>1, <3>2, NotRefused
      <3> QED BY <2>3, <2>4, <3>3
    <2>5. CASE ~(reserve_outbox(k, 1) /\ reserve_command_journal(k))
      BY <2>3, <2>5 DEF Effect
    <2> QED BY <2>4, <2>5
  <1> QED BY <1>1, <1>2, <1>3

-----------------------------------------------------------------------------
(* The answers to a delivery, as a whole. *)

\* With room for the worst case no answer short of the commit finds the outbox or
\* the journal full (agent.rs apply_command).
LEMMA ApplyFits ==
  ASSUME NEW s \in States, reserve_outbox(s, 2), NEW date,
         reserve_command_journal(expire_command_journal(s, date)),
         NEW topic, NEW c, NEW resolved \in CatalogReplies,
         ~Commits(s, topic, c, resolved, date)
  PROVE  ApplyWithoutCommit(s, topic, c, resolved, date).result
           \notin {"OutboxFull", "CommandJournalFull"}
  <1> DEFINE id == CommandData[c].id
             match == command_match(s, id, c, date)
             r == Rejection(s, topic, c, resolved, date)
  <1>1. match \in {"same", "different", "unknown"} /\ "DeviceFailure" \in Rejections
    BY DEF command_match, Rejections
  <1>2. r \in Rejections \union {None}
    BY RejectionType
  <1> HIDE DEF id, match, r
  <1>3. CASE match = "same"
    <2>1. ApplyWithoutCommit(s, topic, c, resolved, date) = ExactReplay(s, id, c)
      BY <1>3 DEF ApplyWithoutCommit, command_fingerprint, match, id, Commits
    <2> QED BY <1>1, <2>1, BranchesFit
  <1>4. CASE match = "different"
    <2>1. ApplyWithoutCommit(s, topic, c, resolved, date) = ConflictingReplay(s, id, c)
      BY <1>4 DEF ApplyWithoutCommit, command_fingerprint, match, id, Commits
    <2> QED BY <1>1, <2>1, BranchesFit
  <1>5. CASE match = "unknown" /\ rotation_in_flight(s)
    BY <1>5 DEF ApplyWithoutCommit, command_fingerprint, match, id, Effect, Commits
  <1>6. CASE match = "unknown" /\ ~rotation_in_flight(s)
    <2>1. r # None
      BY <1>6 DEF Commits, r, match, id, command_fingerprint
    <2>2. ApplyWithoutCommit(s, topic, c, resolved, date)
            = PersistRejection(s, id, c, r, date)
      BY <1>6 DEF ApplyWithoutCommit, command_fingerprint, match, id, r
    <2> QED BY <1>2, <2>1, <2>2, BranchesFit
  <1> QED BY <1>1, <1>3, <1>4, <1>5, <1>6

\* The same for a delivery that does not decode (agent.rs reject_malformed_delivery).
LEMMA MalformedFits ==
  ASSUME NEW s \in States, reserve_outbox(s, 2), NEW date,
         reserve_command_journal(expire_command_journal(s, date)),
         NEW topic, NEW id, NEW payload
  PROVE  reject_malformed_delivery(s, topic, id, payload, date).result
           \notin {"OutboxFull", "CommandJournalFull"}
  <1> DEFINE f == <<topic, id, payload>>
             match == command_match(s, id, f, date)
             full == {"OutboxFull", "CommandJournalFull"}
  <1>1. match \in {"same", "different", "unknown"} /\ "MalformedCommand" \in Rejections
    BY DEF command_match, Rejections
  <1> HIDE DEF f, match
  <1>2. /\ ExactReplay(s, id, f).result \notin full
        /\ ConflictingReplay(s, id, f).result \notin full
        /\ PersistRejection(s, id, f, "MalformedCommand", date).result \notin full
    BY <1>1, BranchesFit
  <1> QED BY <1>1, <1>2
          DEF reject_malformed_delivery, malformed_fingerprint, Effect, f, match

\* While numbers are left, validate() accepts every answer short of the commit.
LEMMA ApplyAccepted ==
  ASSUME NEW s \in States, verify(s), Consistent(s), Numbers(s), NEW date \in Nat,
         NEW topic, NEW c \in Commands, NEW resolved \in CatalogReplies,
         command_match(s, CommandData[c].id, c, date) = "unknown" =>
            Unknown(s, CommandData[c].id, date)
  PROVE  ApplyWithoutCommit(s, topic, c, resolved, date).result # "InvalidState"
  <1> DEFINE id == CommandData[c].id
             match == command_match(s, id, c, date)
             r == Rejection(s, topic, c, resolved, date)
  <1>1. match \in {"same", "different", "unknown"}
    BY DEF command_match
  <1>2. /\ r \in Rejections \union {None} /\ id \in CommandIds /\ c \in Fingerprints
        /\ "DeviceFailure" \in Rejections
    BY RejectionType, CommandsAssumption DEF Fingerprints, Rejections
  <1>3. match = "unknown" => Unknown(s, id, date)
    OBVIOUS
  <1> HIDE DEF id, match, r
  <1>4. CASE match = "same"
    <2>1. ApplyWithoutCommit(s, topic, c, resolved, date) = ExactReplay(s, id, c)
      BY <1>4 DEF ApplyWithoutCommit, command_fingerprint, match, id, Commits
    <2> QED BY <1>2, <1>4, <2>1, BranchesAccepted DEF match
  <1>5. CASE match = "different"
    <2>1. ApplyWithoutCommit(s, topic, c, resolved, date) = ConflictingReplay(s, id, c)
      BY <1>5 DEF ApplyWithoutCommit, command_fingerprint, match, id, Commits
    <2> QED BY <1>2, <2>1, BranchesAccepted
  <1>6. CASE match = "unknown" /\ rotation_in_flight(s)
    BY <1>6 DEF ApplyWithoutCommit, command_fingerprint, match, id, Effect, Commits
  <1>7. CASE /\ match = "unknown" /\ ~rotation_in_flight(s)
             /\ Commits(s, topic, c, resolved, date)
    BY <1>7 DEF ApplyWithoutCommit, command_fingerprint, match, id, Effect
  <1>8. CASE /\ match = "unknown" /\ ~rotation_in_flight(s)
             /\ ~Commits(s, topic, c, resolved, date)
    <2>1. r # None
      BY <1>8 DEF Commits, r, match, id, command_fingerprint
    <2>2. ApplyWithoutCommit(s, topic, c, resolved, date)
            = PersistRejection(s, id, c, r, date)
      BY <1>8 DEF ApplyWithoutCommit, command_fingerprint, match, id, r
    <2> QED BY <1>2, <1>3, <1>8, <2>1, <2>2, BranchesAccepted
  <1> QED BY <1>1, <1>4, <1>5, <1>6, <1>7, <1>8

\* The same for a delivery that does not decode.
LEMMA MalformedAccepted ==
  ASSUME NEW s \in States, verify(s), Consistent(s), Numbers(s), NEW date \in Nat,
         NEW topic \in Nat, NEW id \in CommandIds, NEW payload \in Malformed,
         \A f : command_match(s, id, f, date) = "unknown" => Unknown(s, id, date)
  PROVE  reject_malformed_delivery(s, topic, id, payload, date).result # "InvalidState"
  <1> DEFINE f == <<topic, id, payload>>
             match == command_match(s, id, f, date)
  <1>1. match \in {"same", "different", "unknown"}
    BY DEF command_match
  <1>2. f \in Fingerprints /\ "MalformedCommand" \in Rejections
    BY DEF Fingerprints, Rejections
  <1> HIDE DEF f
  <1>3. match = "unknown" => Unknown(s, id, date)
    OBVIOUS
  <1>4. /\ match = "same" => ExactReplay(s, id, f).result # "InvalidState"
        /\ ConflictingReplay(s, id, f).result # "InvalidState"
        /\ match = "unknown" =>
             PersistRejection(s, id, f, "MalformedCommand", date).result # "InvalidState"
    BY <1>2, <1>3, BranchesAccepted
  <1> HIDE DEF match
  <1> QED BY <1>1, <1>4
          DEF reject_malformed_delivery, malformed_fingerprint, Effect, f, match

\* While numbers are left, validate() accepts a commit (agent.rs commit).
LEMMA CommitAccepted ==
  ASSUME NEW s \in States, verify(s), Consistent(s), Numbers(s), NEW date \in Nat,
         NEW c \in Commands, Unknown(s, CommandData[c].id, date),
         ~rotation_in_flight(s), CommitReserves(s, date)
  PROVE  Commit(s, c, date).result # "InvalidState"
  <1>1. PICK u, k : \E ack \in Acks, report \in Reports, pending \in PendingInbound :
          AcceptedCandidate(s, c, date, u, k, ack, report, pending)
    BY CommitCandidate
  <1>2. verify(u)
    BY <1>1, AcceptVerifies
  <1>3. Commit(s, c, date) = persist_candidate(s, u, "Accepted")
    BY <1>1 DEF AcceptedCandidate
  <1> QED BY <1>2, <1>3, NotRefused

=============================================================================
