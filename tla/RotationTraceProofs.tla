------------------------- MODULE RotationTraceProofs -------------------------
(***************************************************************************)
(* The trace of a rotation, for every set of commands, revocations and     *)
(* copies: first what the wire keeps of what the device says (the encoder  *)
(* of apps/reference-device-agent/src/wire.rs and the mappings of          *)
(* crates/rss-device-security-client/src/lib.rs are inverse to each other, *)
(* except for an ACK whose command id is blank), then that everything the  *)
(* observer sees has its origin in one entry of the agent's journal, from  *)
(* which the properties of the journey follow.                             *)
(***************************************************************************)
EXTENDS RotationTrace, HandlerProofs

\* The durable facts of the agent; a received command has no rejection.  The id
\* is any text that CommandId::try_from lets through (types.rs): no control
\* character, but whitespace alone will do.
AckFacts ==
  {f \in [command_id : Texts \ ControlTexts, generation : Nat,
          fence : Nat, sequence : Nat, observed_at : Nat, received : BOOLEAN,
          rejection : Rejections \union {None}] :
     f.received <=> f.rejection = None}
ReportFacts ==
  [generation : Nat, fence : Nat, sequence : Nat, observed_at : Nat,
   digest : Digests]

-----------------------------------------------------------------------------
\* The rejection reasons survive the wire: the table of the encoder followed by
\* the table of the client names the same reason (wire.rs rejection_reason,
\* lib.rs map_acknowledgement).
LEMMA ReasonsRoundTrip ==
  ASSUME NEW r \in Rejections
  PROVE  RejectionReason[rejection_reason[r]] = r
  BY DEF Rejections, RejectionReason, rejection_reason

\* An acknowledgement is encoded exactly when generation and fence are not zero
\* and the sequence fits an i64 (wire.rs encode_ack); the device never publishes
\* another value for it.
LEMMA AckEncoded ==
  ASSUME NEW device, NEW f \in AckFacts
  PROVE  /\ encode_ack(device, f).ok <=>
              f.generation # 0 /\ f.fence # 0 /\ f.sequence <= I64Max
         /\ encode_ack(device, f).ok =>
              encode_ack(device, f).value = AckPayload(device, f)
  <1>1. encode_ack(device, f) =
          IF f.generation = 0 \/ f.fence = 0 \/ f.sequence > I64Max
          THEN Err("WireError") ELSE Ok(AckPayload(device, f))
    BY RotationModelAssumption
    DEF encode_ack, NonZero, Narrow, Then, Ok, Err, AckFacts
  <1> QED BY <1>1, RotationModelAssumption DEF Ok, Err, AckFacts

\* The acknowledgements the device publishes, any command id it stores included,
\* in the context of its own device.  The client maps one exactly when its id is
\* not blank, and then to a fact with the same command, position, sequence and
\* outcome.  The one it refuses is the rejection of a delivery whose id is
\* whitespace: decode_command refuses that command (wire.rs), the agent stores a
\* MalformedCommand rejection under the id (agent.rs reject_malformed_delivery),
\* and CommandRef::try_from in map_acknowledgement fails on it (lib.rs).
THEOREM AckRoundTrip ==
  ASSUME NEW ctx, NEW event, NEW f \in AckFacts,
         encode_ack(ctx.device, f).ok
  PROVE  LET mapped == map_acknowledgement(ctx, event,
                         encode_ack(ctx.device, f).value)
         IN  /\ mapped.ok <=> f.command_id \notin BlankTexts
             /\ ~mapped.ok => mapped = Err("EmptyReference")
             /\ mapped.ok =>
                  /\ mapped.value.command_id = f.command_id
                  /\ mapped.value.generation = f.generation
                  /\ mapped.value.fence = f.fence
                  /\ mapped.value.sequence = f.sequence
                  /\ mapped.value.observed_at = f.observed_at
                  /\ mapped.value.outcome =
                       IF f.received THEN "Received" ELSE f.rejection
  <1> DEFINE p == AckPayload(ctx.device, f)
  <1>1. /\ encode_ack(ctx.device, f).value = p
        /\ f.generation # 0 /\ f.fence # 0
    BY AckEncoded
  <1>2. /\ p.device = ctx.device /\ p.command_id = f.command_id
        /\ p.generation = f.generation /\ p.fence = f.fence
        /\ p.sequence = f.sequence /\ p.observed_at = f.observed_at
        /\ p.result = IF f.received THEN "received" ELSE "rejected"
        /\ p.reason = IF f.received THEN "none" ELSE rejection_reason[f.rejection]
    BY DEF AckPayload
  <1>3. require_device(ctx, p.device) = Ok(p.device)
    BY <1>2 DEF require_device
  <1>4. validate_reference(p.command_id) =
          IF f.command_id \in BlankTexts THEN Err("EmptyReference") ELSE Ok(p.command_id)
    BY <1>2 DEF validate_reference, AckFacts
  <1>5. Generation(p.generation) = Ok(p.generation) /\ FenceEpoch(p.fence) = Ok(p.fence)
    BY <1>1, <1>2 DEF Generation, FenceEpoch
  <1>6. sequence(p.sequence) = Ok(p.sequence)
    BY <1>2 DEF sequence, U64, AckFacts
  <1>7. (IF p.result = "received" THEN "Received" ELSE RejectionReason[p.reason])
          = IF f.received THEN "Received" ELSE f.rejection
    <2>1. CASE f.received BY <1>2, <2>1
    <2>2. CASE ~f.received
      BY <1>2, <2>2, ReasonsRoundTrip DEF AckFacts
    <2> QED BY <2>1, <2>2
  <1> HIDE DEF p
  <1>8. CASE f.command_id \notin BlankTexts
    <2>1. map_acknowledgement(ctx, event, p) =
            Ok([coordinates |-> ctx.coordinates, event |-> event,
                command_id |-> p.command_id, generation |-> p.generation,
                fence |-> p.fence, sequence |-> p.sequence,
                observed_at |-> p.observed_at,
                outcome |-> IF p.result = "received" THEN "Received"
                            ELSE RejectionReason[p.reason]])
      BY <1>3, <1>4, <1>5, <1>6, <1>8 DEF map_acknowledgement, Then, Ok
    <2> QED BY <1>1, <1>2, <1>7, <1>8, <2>1 DEF Ok
  <1>9. CASE f.command_id \in BlankTexts
    <2>1. map_acknowledgement(ctx, event, p) = Err("EmptyReference")
      BY <1>3, <1>4, <1>9 DEF map_acknowledgement, Then, Ok, Err
    <2> QED BY <1>1, <1>9, <2>1 DEF Err
  <1> QED BY <1>8, <1>9

ReportPayload(device, f) ==
  [digest |-> f.digest, device |-> device, sequence |-> f.sequence,
   fence |-> f.fence, observed_at |-> f.observed_at, generation |-> f.generation]

\* A report is encoded under the same conditions (wire.rs encode_report).
LEMMA ReportEncoded ==
  ASSUME NEW device, NEW f \in ReportFacts
  PROVE  /\ encode_report(device, f).ok <=>
              f.generation # 0 /\ f.fence # 0 /\ f.sequence <= I64Max
         /\ encode_report(device, f).ok =>
              encode_report(device, f).value = ReportPayload(device, f)
  <1>1. encode_report(device, f) =
          IF f.generation = 0 \/ f.fence = 0 \/ f.sequence > I64Max
          THEN Err("WireError") ELSE Ok(ReportPayload(device, f))
    BY RotationModelAssumption
    DEF encode_report, NonZero, Narrow, Then, Ok, Err, ReportFacts, ReportPayload
  <1> QED BY <1>1, RotationModelAssumption DEF Ok, Err, ReportFacts

\* Likewise for the report of the new credential (wire.rs encode_report,
\* lib.rs map_report).
THEOREM ReportRoundTrip ==
  ASSUME NEW ctx, NEW event, NEW f \in ReportFacts,
         encode_report(ctx.device, f).ok
  PROVE  LET mapped == map_report(ctx, event,
                         encode_report(ctx.device, f).value)
         IN  /\ mapped.ok
             /\ mapped.value.generation = f.generation
             /\ mapped.value.fence = f.fence
             /\ mapped.value.sequence = f.sequence
             /\ mapped.value.observed_at = f.observed_at
             /\ mapped.value.digest = f.digest
  <1> DEFINE p == ReportPayload(ctx.device, f)
  <1>1. /\ encode_report(ctx.device, f).value = p
        /\ f.generation # 0 /\ f.fence # 0
        /\ p.device = ctx.device /\ p.generation = f.generation /\ p.fence = f.fence
        /\ p.sequence = f.sequence /\ p.digest = f.digest
        /\ p.observed_at = f.observed_at
    BY ReportEncoded DEF ReportPayload
  <1> HIDE DEF p
  <1>2. require_device(ctx, p.device) = Ok(p.device)
    BY <1>1 DEF require_device
  <1>3. Generation(p.generation) = Ok(p.generation) /\ FenceEpoch(p.fence) = Ok(p.fence)
    BY <1>1 DEF Generation, FenceEpoch
  <1>4. sequence(p.sequence) = Ok(p.sequence)
    BY <1>1 DEF sequence, U64, ReportFacts
  <1>5. map_report(ctx, event, p) =
          Ok([coordinates |-> ctx.coordinates, event |-> event,
              generation |-> f.generation, fence |-> f.fence,
              sequence |-> f.sequence, observed_at |-> f.observed_at,
              digest |-> f.digest])
    BY <1>1, <1>2, <1>3, <1>4 DEF map_report, Then, Ok
  <1> QED BY <1>1, <1>5 DEF Ok

-----------------------------------------------------------------------------
(***************************************************************************)
(* The inductive invariant.  Every fact in the outbox and on the wire, and *)
(* every receipt and status, goes back to an entry of the journal; the     *)
(* journal only grows, because without time nothing in it expires.         *)
(***************************************************************************)

\* Commands of the generations the service asks for.
Issued ==
  {c \in Commands :
     /\ CommandData[c].generation \in InitialPosition.generation + 1 .. MaxGeneration
     /\ CommandData[c].fence # 0}

DataOf(j) == CommandData[j.fingerprint]

\* The entries of the commands the agent accepted.
Taken(J) == {j \in J : j.acknowledgement.rejection = None}

EntrySound(j) ==
  /\ j.fingerprint \in Issued
  /\ DataOf(j).id = j.command_id
  /\ j.acknowledgement.event = AckEvent(j.command_id)
  /\ j.fingerprint \in Revoked =>
       /\ j.acknowledgement.rejection # None
       /\ DataOf(j).addressed => j.acknowledgement.rejection = "PolicyRejected"

\* A generation is accepted once, and the position keeps the last one.
OnePerGeneration(J) ==
  \A j, k \in Taken(J) : DataOf(j).generation = DataOf(k).generation => j = k

JournalTrace(s) ==
  /\ \A j \in s.command_journal : EntrySound(j)
  /\ OnePerGeneration(s.command_journal)
  /\ \A j \in Taken(s.command_journal) : DataOf(j).generation <= s.current.generation

\* A queued fact: the first ACK of a command, the rejection of a command that
\* conflicts with the journalled one, or the report of an accepted command.
FirstAck(e, j) ==
  /\ e.event = AckEvent(j.command_id) /\ e.command_id = j.command_id
  /\ e.sequence = j.acknowledgement.sequence
  /\ e.rejection = j.acknowledgement.rejection

ConflictAck(e, j, c) ==
  /\ e.event = RejectedEvent(j.command_id, c) /\ e.command_id = j.command_id
  /\ c \in Issued /\ CommandData[c].id = j.command_id /\ j.fingerprint # c
  /\ e.rejection = "MalformedCommand"

ReportOf(e, j) ==
  /\ j.acknowledgement.rejection = None
  /\ e.event = ReportEvent(j.command_id) /\ e.command_id = j.command_id
  /\ e.sequence = SaturatingSucc(j.acknowledgement.sequence)
  /\ e.position.generation = DataOf(j).generation
  /\ e.position.fence = DataOf(j).fence
  /\ e.position.digest = DataOf(j).digest

FactTraced(J, e) ==
  IF IsAck(e) THEN \E j \in J : FirstAck(e, j) \/ \E c \in Commands : ConflictAck(e, j, c)
  ELSE \E j \in J : ReportOf(e, j)

OutboxTrace(s) ==
  \A i \in DOMAIN s.outbox : FactTraced(s.command_journal, s.outbox[i])

AgentInv(s) == s \in States /\ verify(s) /\ JournalTrace(s) /\ OutboxTrace(s)

\* An event on the wire says what its fact said.
AckOf(m, c) ==
  /\ c \in Issued
  /\ m.payload.device = Device
  /\ m.payload.command_id = CommandData[c].id
  /\ m.payload.generation = CommandData[c].generation
  /\ m.payload.fence = CommandData[c].fence
  /\ m.payload.sequence \in 0 .. I64Max

SaidFirst(m, j) ==
  /\ AckOf(m, j.fingerprint)
  /\ m.event = AckEvent(j.command_id)
  /\ m.payload.sequence = j.acknowledgement.sequence
  /\ IF j.acknowledgement.rejection = None THEN m.payload.result = "received"
     ELSE /\ m.payload.result = "rejected"
          /\ RejectionReason[m.payload.reason] = j.acknowledgement.rejection

SaidConflict(m, j, c) ==
  /\ AckOf(m, c)
  /\ m.event = RejectedEvent(j.command_id, c)
  /\ CommandData[c].id = j.command_id /\ j.fingerprint # c
  /\ m.payload.result = "rejected"
  /\ RejectionReason[m.payload.reason] = "MalformedCommand"

SaidReport(m, j) ==
  /\ j.acknowledgement.rejection = None
  /\ m.event = ReportEvent(j.command_id)
  /\ m.payload.device = Device
  /\ m.payload.generation = DataOf(j).generation
  /\ m.payload.fence = DataOf(j).fence
  /\ m.payload.digest = DataOf(j).digest
  /\ m.payload.sequence \in 0 .. I64Max
  /\ m.payload.sequence > j.acknowledgement.sequence

MessageTraced(J, m) ==
  \/ m.kind = "ack" /\ \E j \in J :
        SaidFirst(m, j) \/ \E c \in Commands : SaidConflict(m, j, c)
  \/ m.kind = "report" /\ \E j \in J : SaidReport(m, j)

EventsOf(s) == {s.outbox[i].event : i \in DOMAIN s.outbox}
SaidOf(j, S) ==
  /\ AckEvent(j.command_id) \in S
  /\ j.acknowledgement.rejection = None => ReportEvent(j.command_id) \in S

\* A generation the device may truthfully be said to have reached.
Reached(J, g) ==
  g = InitialPosition.generation \/ \E j \in Taken(J) : DataOf(j).generation = g

ServiceInv(J, v) ==
  /\ v \in [desired : 1 .. MaxGeneration, fence : Nat \ {0},
            active : {None, "queued", "published", "received"},
            observed : Nat, committed : SUBSET Events]
  /\ InitialPosition.generation <= v.desired
  /\ v.observed <= v.desired
  /\ v.active # None => v.observed < v.desired
  /\ Reached(J, v.observed)

AcceptedTraced(a) ==
  /\ a.coordinates = context.coordinates
  /\ a.generation \in 1 .. MaxGeneration
  /\ a.receipt = Receipts[a.generation]

ReceiptOf(r, j) ==
  /\ r.event = [kind |-> "receipt", cause |-> <<ReportEvent(j.command_id), r.outcome>>]
  /\ r.lineage = <<Receipts[DataOf(j).generation], DataOf(j).generation>>

ReceiptTraced(J, r) ==
  r.coordinates = context.coordinates /\ \E j \in Taken(J) : ReceiptOf(r, j)

StatusTraced(J, t) ==
  /\ t.desired_generation \in 1 .. MaxGeneration
  /\ t.receipt = Receipts[t.desired_generation]
  /\ t.observed_generation \in Nat
  /\ t.observed_generation <= t.desired_generation
  /\ t.active_command # None => t.observed_generation < t.desired_generation
  /\ Reached(J, t.observed_generation)
  /\ \E c \in t.conditions :
            /\ t.conditions = {c} /\ c.type = "Ready"
            /\ c.observed_generation = t.observed_generation
            /\ IF t.observed_generation = t.desired_generation
               THEN c.status = "True" /\ c.reason = "StateMatches"
               ELSE c.status = "False"

DownlinkTraced(m) == m.command \in Issued /\ m.topic \in Nat

IInv ==
  /\ AgentInv(state)
  /\ ServiceInv(state.command_journal, service)
  /\ \A m \in downlink : DownlinkTraced(m)
  /\ \A m \in uplink : MessageTraced(state.command_journal, m)
  /\ \A j \in state.command_journal :
        SaidOf(j, {m.event : m \in uplink} \union EventsOf(state))
  /\ \A a \in accepted : AcceptedTraced(a)
  /\ \A r \in receipts : ReceiptTraced(state.command_journal, r)
  /\ \A t \in statuses : StatusTraced(state.command_journal, t)

-----------------------------------------------------------------------------
(* What the agent's operations do to journal and outbox. *)

\* Nothing a handler does loses an entry or a queued event, but for the events
\* in gone; what it journals it also queues.
Records(s, t, gone) ==
  /\ AgentInv(t)
  /\ s.command_journal \subseteq t.command_journal
  /\ EventsOf(s) \ gone \subseteq EventsOf(t)
  /\ \A j \in t.command_journal \ s.command_journal : SaidOf(j, EventsOf(t))

\* A fact traced to a journal is traced to a larger one.
LEMMA TracedMore ==
  ASSUME NEW J, NEW K, J \subseteq K, NEW e, FactTraced(J, e)
  PROVE  FactTraced(K, e)
  BY DEF FactTraced

\* A handler that keeps the queued facts keeps their events.
LEMMA KeptEvents ==
  ASSUME NEW s \in States, NEW t \in States, KeepsFacts(s.outbox, t.outbox)
  PROVE  EventsOf(s) \subseteq EventsOf(t)
  <1>1. s.outbox \in Seq(Facts) /\ t.outbox \in Seq(Facts)
    BY DEF States, Facts
  <1>2. \A i \in DOMAIN s.outbox : i \in DOMAIN t.outbox /\ s.outbox[i].event = t.outbox[i].event
    BY <1>1 DEF KeepsFacts, SameFact
  <1> QED BY <1>2 DEF EventsOf

\* One more acknowledgement in the outbox.
LEMMA QueuedAck ==
  ASSUME NEW s \in States, AgentInv(s), NEW t \in States, verify(t), NEW ack \in Acks,
         t.outbox = Append(s.outbox, ack),
         s.command_journal \subseteq t.command_journal,
         JournalTrace(t), FactTraced(t.command_journal, ack)
  PROVE  AgentInv(t) /\ EventsOf(s) \union {ack.event} \subseteq EventsOf(t)
  <1>1. s.outbox \in Seq(Facts) /\ ack \in Facts
    BY DEF States, Facts
  <1>2. /\ DOMAIN t.outbox = DOMAIN s.outbox \union {Len(s.outbox) + 1}
        /\ \A i \in DOMAIN s.outbox : t.outbox[i] = s.outbox[i]
        /\ t.outbox[Len(s.outbox) + 1] = ack
    BY <1>1, OneMore
  <1>3. \A i \in DOMAIN s.outbox : FactTraced(t.command_journal, s.outbox[i])
    BY TracedMore DEF AgentInv, OutboxTrace
  <1>4. OutboxTrace(t)
    BY <1>2, <1>3 DEF OutboxTrace
  <1>5. EventsOf(s) \union {ack.event} \subseteq EventsOf(t)
    BY <1>2 DEF EventsOf
  <1> QED BY <1>4, <1>5 DEF AgentInv

\* A candidate takes effect only if it verifies.
LEMMA PersistRecords ==
  ASSUME NEW s, AgentInv(s), NEW u, NEW r, NEW gone,
         verify(u) => Records(s, u, gone)
  PROVE  Records(s, persist_candidate(s, u, r).state, gone)
  <1>1. Records(s, s, gone)
    BY DEF Records
  <1> QED BY <1>1 DEF persist_candidate, Effect

\* The replay of a journalled ACK.
LEMMA ReplayRecords ==
  ASSUME NEW s, AgentInv(s), NEW id, NEW f,
         command_match(s, id, f, 0) = "same",
         verify(replay_command(s, id, f))
  PROVE  Records(s, replay_command(s, id, f), {})
  <1> DEFINE u == replay_command(s, id, f)
  <1>1. s \in States /\ verify(s) /\ JournalTrace(s)
    BY DEF AgentInv
  <1>2. u \in States
    BY <1>1, ReplayExtends DEF Extends
  <1>3. PICK c \in s.command_journal :
           /\ c.command_id = id /\ ReplayedAck(c.acknowledgement) \in Acks
           /\ Queues(s, u, ReplayedAck(c.acknowledgement))
           /\ u.command_journal = s.command_journal
    BY <1>1, ReplayFacts
  <1> DEFINE ack == ReplayedAck(c.acknowledgement)
  <1>4. /\ ack.event = c.acknowledgement.event
        /\ ack.command_id = c.acknowledgement.command_id
        /\ ack.sequence = c.acknowledgement.sequence
        /\ ack.rejection = c.acknowledgement.rejection /\ ack.kind = "Ack"
        /\ c.command_id = c.acknowledgement.command_id
    BY <1>1, JournalAcks, ReplayedAckFacts
  <1>5. c.acknowledgement.event = AckEvent(c.command_id)
    BY <1>1 DEF JournalTrace, EntrySound
  <1> HIDE DEF u, ack
  <1>6. FactTraced(u.command_journal, ack)
    BY <1>3, <1>4, <1>5 DEF FactTraced, FirstAck, IsAck
  <1>7. JournalTrace(u) /\ u.outbox = Append(s.outbox, ack) /\ ack \in Acks
    BY <1>1, <1>3 DEF JournalTrace, Queues, ack
  <1>8. AgentInv(u) /\ EventsOf(s) \union {ack.event} \subseteq EventsOf(u)
    <2>1. verify(u) BY DEF u
    <2> QED BY <1>1, <1>2, <1>3, <1>6, <1>7, <2>1, QueuedAck
  <1> QED BY <1>3, <1>8 DEF Records, u

\* The rejection of a command that conflicts with the journalled one.
LEMMA ConflictRecords ==
  ASSUME NEW s, AgentInv(s), NEW c \in Issued,
         command_match(s, CommandData[c].id, c, 0) = "different",
         verify(reject_conflicting_replay(s, CommandData[c].id, c))
  PROVE  Records(s, reject_conflicting_replay(s, CommandData[c].id, c), {})
  <1> DEFINE id == CommandData[c].id
             u == reject_conflicting_replay(s, id, c)
  <1>1. s \in States /\ verify(s) /\ JournalTrace(s)
    BY DEF AgentInv
  <1>2. c \in Commands /\ c \in Fingerprints /\ id \in CommandIds
    BY CommandsAssumption DEF Issued, Fingerprints
  <1>3. u \in States
    BY <1>1, <1>2, RejectConflictingExtends DEF Extends
  <1>4. PICK j \in s.command_journal : j.command_id = id /\ j.fingerprint # c
    BY DEF command_match, LiveEntries
  <1>5. PICK ack \in Acks :
           /\ FreshRejection(s, u, ack, RejectedEvent(id, c), id)
           /\ ack.rejection = "MalformedCommand"
           /\ u.command_journal = s.command_journal
    BY <1>1, <1>2, ConflictFacts
  <1> HIDE DEF u
  <1>6. ConflictAck(ack, j, c) /\ IsAck(ack)
    BY <1>4, <1>5 DEF ConflictAck, FreshRejection, IsAck
  <1>7. FactTraced(u.command_journal, ack)
    BY <1>2, <1>5, <1>6 DEF FactTraced
  <1>8. JournalTrace(u) /\ u.outbox = Append(s.outbox, ack)
    BY <1>1, <1>5 DEF JournalTrace, FreshRejection, Queues
  <1>9. AgentInv(u) /\ EventsOf(s) \union {ack.event} \subseteq EventsOf(u)
    <2>1. verify(u) BY DEF u
    <2> QED BY <1>1, <1>3, <1>5, <1>7, <1>8, <2>1, QueuedAck
  <1> QED BY <1>5, <1>9 DEF Records, u

\* A new entry that is no acceptance disturbs no accepted one.
LEMMA JournalledRejection ==
  ASSUME NEW s, JournalTrace(s), NEW u, u.current = s.current, NEW j,
         u.command_journal = s.command_journal \union {j},
         EntrySound(j), j.acknowledgement.rejection # None
  PROVE  JournalTrace(u)
  <1>1. Taken(u.command_journal) = Taken(s.command_journal)
    BY DEF Taken
  <1> QED BY <1>1 DEF JournalTrace, OnePerGeneration

\* The rejection of a command (persist_rejection).
LEMMA RejectRecords ==
  ASSUME NEW s, AgentInv(s), NEW c \in Issued, NEW r \in Rejections, NEW t \in Nat,
         c \in Revoked /\ CommandData[c].addressed => r = "PolicyRejected",
         verify(reject(expire_command_journal(s, 0), CommandData[c].id, c, r, t))
  PROVE  Records(s, reject(expire_command_journal(s, 0), CommandData[c].id, c, r, t), {})
  <1> DEFINE id == CommandData[c].id
             k == expire_command_journal(s, 0)
             u == reject(k, id, c, r, t)
  <1>1. s \in States /\ verify(s) /\ JournalTrace(s)
    BY DEF AgentInv
  <1>2. c \in Commands /\ c \in Fingerprints /\ id \in CommandIds /\ r # None
    BY CommandsAssumption DEF Issued, Fingerprints
  <1>3. /\ k \in States /\ k.outbox = s.outbox /\ k.current = s.current
        /\ k.command_journal = s.command_journal
    BY NothingExpires DEF AgentInv
  <1> HIDE DEF k
  <1>4. u \in States
    BY <1>2, <1>3, RejectExtends DEF Extends
  <1>5. PICK ack \in Acks :
           /\ FreshRejection(k, u, ack, AckEvent(id), id)
           /\ ack.rejection = r
           /\ u.command_journal = k.command_journal \union {StoredCommand(id, c, ack, t)}
    BY <1>2, <1>3, RejectFacts
  <1> DEFINE j == StoredCommand(id, c, ack, t)
  <1>6. /\ j.command_id = id /\ j.fingerprint = c /\ j.acknowledgement = ack
        /\ ack.kind = "Ack" /\ ack.event = AckEvent(id) /\ ack.command_id = id
        /\ u.outbox = Append(s.outbox, ack) /\ u.current = s.current
        /\ u.command_journal = s.command_journal \union {j}
    BY <1>3, <1>5 DEF StoredCommand, FreshRejection, Queues
  <1> HIDE DEF u, j
  <1>7. EntrySound(j) /\ j.acknowledgement.rejection # None
    BY <1>2, <1>5, <1>6 DEF EntrySound, DataOf
  <1>8. JournalTrace(u)
    BY <1>1, <1>6, <1>7, JournalledRejection
  <1>9. FactTraced(u.command_journal, ack)
    BY <1>6 DEF FactTraced, FirstAck, IsAck
  <1>10. AgentInv(u) /\ EventsOf(s) \union {ack.event} \subseteq EventsOf(u)
    <2>1. verify(u) BY DEF u, k
    <2>2. s.command_journal \subseteq u.command_journal BY <1>6
    <2> QED BY <1>1, <1>4, <1>5, <1>6, <1>8, <1>9, <2>1, <2>2, QueuedAck
  <1>11. SaidOf(j, EventsOf(u))
    BY <1>6, <1>7, <1>10 DEF SaidOf
  <1> QED BY <1>6, <1>10, <1>11 DEF Records, u, k

\* A new acceptance: its generation is above all accepted before.
LEMMA JournalledAcceptance ==
  ASSUME NEW s \in States, JournalTrace(s), NEW u, NEW j,
         u.command_journal = s.command_journal \union {j},
         EntrySound(j), DataOf(j).generation \in Nat,
         DataOf(j).generation > s.current.generation,
         u.current.generation = DataOf(j).generation,
         \A i \in s.command_journal : DataOf(i).generation \in Nat
  PROVE  JournalTrace(u)
  <1>0. s.current.generation \in Nat
    BY DEF States, Positions
  <1>1. Taken(u.command_journal) \subseteq Taken(s.command_journal) \union {j}
    BY DEF Taken
  <1>2. \A i \in Taken(s.command_journal) :
           DataOf(i).generation < DataOf(j).generation
    BY <1>0 DEF JournalTrace, Taken
  <1>3. OnePerGeneration(u.command_journal)
    <2> SUFFICES ASSUME NEW a \in Taken(u.command_journal),
                        NEW b \in Taken(u.command_journal),
                        DataOf(a).generation = DataOf(b).generation
                 PROVE  a = b
      BY DEF OnePerGeneration
    <2>1. CASE a = j /\ b = j BY <2>1
    <2>2. CASE a = j /\ b # j
      <3>1. b \in Taken(s.command_journal) /\ DataOf(b).generation \in Nat
        BY <1>1, <2>2 DEF Taken
      <3> QED BY <1>2, <2>2, <3>1
    <2>3. CASE a # j /\ b = j
      <3>1. a \in Taken(s.command_journal) /\ DataOf(a).generation \in Nat
        BY <1>1, <2>3 DEF Taken
      <3> QED BY <1>2, <2>3, <3>1
    <2>4. CASE a # j /\ b # j
      BY <1>1, <2>4 DEF JournalTrace, OnePerGeneration
    <2> QED BY <2>1, <2>2, <2>3, <2>4
  <1>4. \A i \in Taken(u.command_journal) : DataOf(i).generation <= u.current.generation
    <2> TAKE i \in Taken(u.command_journal)
    <2>1. CASE i = j BY <2>1
    <2>2. CASE i # j
      <3>1. i \in Taken(s.command_journal) /\ DataOf(i).generation \in Nat
        BY <1>1, <2>2 DEF Taken
      <3> QED BY <1>2, <3>1
    <2> QED BY <2>1, <2>2
  <1>5. \A i \in u.command_journal : EntrySound(i)
    BY DEF JournalTrace
  <1> QED BY <1>3, <1>4, <1>5 DEF JournalTrace

\* Two more facts in the outbox.
LEMMA QueuedPair ==
  ASSUME NEW s \in States, AgentInv(s), NEW t \in States, verify(t),
         NEW ack \in Acks, NEW report \in Reports,
         t.outbox = Append(Append(s.outbox, ack), report),
         s.command_journal \subseteq t.command_journal,
         JournalTrace(t), FactTraced(t.command_journal, ack),
         FactTraced(t.command_journal, report)
  PROVE  /\ AgentInv(t)
         /\ EventsOf(s) \union {ack.event, report.event} \subseteq EventsOf(t)
  <1>1. s.outbox \in Seq(Facts) /\ ack \in Facts /\ report \in Facts
    BY DEF States, Facts
  <1>2. /\ DOMAIN t.outbox = DOMAIN s.outbox \union {Len(s.outbox) + 1, Len(s.outbox) + 2}
        /\ \A i \in DOMAIN s.outbox : t.outbox[i] = s.outbox[i]
        /\ t.outbox[Len(s.outbox) + 1] = ack /\ t.outbox[Len(s.outbox) + 2] = report
    BY <1>1, TwoMore
  <1>3. \A i \in DOMAIN s.outbox : FactTraced(t.command_journal, s.outbox[i])
    BY TracedMore DEF AgentInv, OutboxTrace
  <1>4. OutboxTrace(t)
    BY <1>2, <1>3 DEF OutboxTrace
  <1>5. EventsOf(s) \union {ack.event, report.event} \subseteq EventsOf(t)
    BY <1>2 DEF EventsOf
  <1> QED BY <1>4, <1>5 DEF AgentInv

\* The commit of a command above the current generation.
LEMMA CommitRecords ==
  ASSUME NEW s, AgentInv(s), NEW c \in Issued, c \notin Revoked,
         CommandData[c].generation > s.current.generation
  PROVE  Records(s, Commit(s, c, 0).state, {})
  <1> DEFINE id == CommandData[c].id
  <1>1. s \in States /\ verify(s) /\ JournalTrace(s)
    BY DEF AgentInv
  <1>2. c \in Commands /\ CommandData[c].generation \in Nat
    BY CommandsAssumption DEF Issued
  <1>3. PICK u, k : \E ack \in Acks, report \in Reports, pending \in PendingInbound :
           AcceptedCandidate(s, c, 0, u, k, ack, report, pending)
    BY <1>1, <1>2, CommitCandidate
  <1>4. PICK ack \in Acks, report \in Reports, pending \in PendingInbound :
           AcceptedCandidate(s, c, 0, u, k, ack, report, pending)
    BY <1>3
  <1>5. /\ Commit(s, c, 0) = persist_candidate(s, u, "Accepted")
        /\ u \in States
        /\ Accepted(k, id, c, NextPosition(s, c), retention_deadline(0), u, ack,
                    report, pending)
        /\ k.outbox = s.outbox /\ k.command_journal = s.command_journal
    BY <1>1, <1>4, NothingExpires DEF AcceptedCandidate
  <1> DEFINE j == StoredCommand(id, c, ack, retention_deadline(0))
  <1>6. /\ j.command_id = id /\ j.fingerprint = c /\ j.acknowledgement = ack
        /\ u.command_journal = s.command_journal \union {j}
    BY <1>5 DEF StoredCommand, Accepted
  <1>7. /\ ack.event = AckEvent(id) /\ ack.command_id = id /\ ack.rejection = None
        /\ report.event = ReportEvent(id) /\ report.command_id = id
        /\ report.sequence = SaturatingSucc(ack.sequence)
        /\ report.position = NextPosition(s, c) /\ u.current = NextPosition(s, c)
        /\ u.outbox = Append(Append(s.outbox, ack), report)
        /\ ack.kind = "Ack" /\ report.kind = "ReportBlocked"
    BY <1>5 DEF Accepted, Acks
  <1>8. LET p == NextPosition(s, c) IN
        /\ p.generation = CommandData[c].generation /\ p.fence = CommandData[c].fence
        /\ p.digest = CommandData[c].digest
    BY DEF NextPosition
  <1> HIDE DEF j
  <1>9. EntrySound(j)
    BY <1>6, <1>7 DEF EntrySound, DataOf
  <1>10. JournalTrace(u)
    <2>1. \A i \in s.command_journal : DataOf(i).generation \in Nat
      BY <1>1, CommandsAssumption DEF JournalTrace, EntrySound, Issued, DataOf
    <2>2. DataOf(j) = CommandData[c] BY <1>6 DEF DataOf
    <2>3. u.current.generation = CommandData[c].generation BY <1>7, <1>8
    <2> QED BY <1>1, <1>2, <1>6, <1>9, <2>1, <2>2, <2>3, JournalledAcceptance
  <1>11. FactTraced(u.command_journal, ack)
    BY <1>6, <1>7 DEF FactTraced, FirstAck, IsAck
  <1>12. FactTraced(u.command_journal, report)
    <2>1. ReportOf(report, j)
      BY <1>6, <1>7, <1>8 DEF ReportOf, DataOf
    <2> QED BY <1>6, <1>7, <2>1 DEF FactTraced, IsAck
  <1>13. ASSUME verify(u) PROVE Records(s, u, {})
    <2>1. s.command_journal \subseteq u.command_journal BY <1>6
    <2>2. /\ AgentInv(u)
          /\ EventsOf(s) \union {ack.event, report.event} \subseteq EventsOf(u)
      BY <1>1, <1>5, <1>7, <1>10, <1>11, <1>12, <1>13, <2>1, QueuedPair
    <2>3. SaidOf(j, EventsOf(u))
      BY <1>6, <1>7, <2>2 DEF SaidOf
    <2> QED BY <1>6, <2>2, <2>3 DEF Records
  <1> QED BY <1>5, <1>13, PersistRecords

\* A withdrawn artifact is never committed, and a command that is committed
\* is above the current generation (agent.rs apply_command).
LEMMA RejectionReasons ==
  ASSUME NEW s \in States, NEW topic, NEW c \in Commands
  PROVE  LET answer == IF c \in Revoked THEN "Revoked" ELSE "Resolved"
             r == Rejection(s, topic, c, answer, 0)
         IN  /\ r \in Rejections \union {None}
             /\ r = None => /\ c \notin Revoked
                            /\ CommandData[c].generation > s.current.generation
             /\ c \in Revoked /\ CommandData[c].addressed
                  /\ topic = s.credential_generation => r = "PolicyRejected"
  <1> DEFINE answer == IF c \in Revoked THEN "Revoked" ELSE "Resolved"
             r == Rejection(s, topic, c, answer, 0)
  <1>1. r \in Rejections \union {None}
    BY RejectionType DEF CatalogReplies, CatalogErrors
  <1>2. /\ CommandData[c].generation \in Nat /\ CommandData[c].deadline \in Nat
        /\ s.current.generation \in Nat
    BY CommandsAssumption DEF States, Positions
  <1>3. catalog_rejection("Revoked") = "PolicyRejected"
    BY DEF catalog_rejection
  <1>4. "PolicyRejected" # None /\ "MalformedCommand" # None
        /\ "FenceEpochStale" # None /\ "GenerationStale" # None
    BY CommandsAssumption DEF Rejections
  <1>5. CASE c \in Revoked
    <2>1. r = IF topic # s.credential_generation \/ ~CommandData[c].addressed
              THEN "MalformedCommand" ELSE "PolicyRejected"
      BY <1>3, <1>5 DEF Rejection
    <2> QED BY <1>1, <1>4, <1>5, <2>1
  <1>6. CASE c \notin Revoked
    <2>1. r = None => /\ ~(CommandData[c].generation < s.current.generation)
                      /\ CommandData[c].generation # s.current.generation
      BY <1>4, <1>6 DEF Rejection
    <2> QED BY <1>1, <1>2, <1>6, <2>1
  <1> QED BY <1>5, <1>6

\* Every way apply_command ends short of the commit, for a delivery on the
\* current topic or the pending one.
LEMMA ApplyRecords ==
  ASSUME NEW s, AgentInv(s), NEW c \in Issued, NEW topic,
         topic = s.credential_generation \/ IsPendingCommand(s, CommandData[c].id)
  PROVE  LET answer == IF c \in Revoked THEN "Revoked" ELSE "Resolved"
         IN  Records(s, ApplyWithoutCommit(s, topic, c, answer, 0).state, {})
  <1> DEFINE answer == IF c \in Revoked THEN "Revoked" ELSE "Resolved"
             id == CommandData[c].id
             match == command_match(s, id, c, 0)
             r == Rejection(s, topic, c, answer, 0)
             t == ApplyWithoutCommit(s, topic, c, answer, 0).state
  <1>1. s \in States /\ verify(s) /\ c \in Commands
    BY DEF AgentInv, Issued
  <1>2. Records(s, s, {})
    BY DEF Records
  <1>3. match \in {"same", "different", "unknown"}
    BY DEF command_match
  <1>4. /\ r \in Rejections \union {None}
        /\ c \in Revoked /\ CommandData[c].addressed
             /\ topic = s.credential_generation => r = "PolicyRejected"
    BY <1>1, RejectionReasons
  <1> HIDE DEF id, match, r, answer, t
  <1>5. CASE match = "same"
    <2>1. t = ExactReplay(s, id, c).state
      BY <1>5 DEF t, ApplyWithoutCommit, command_fingerprint, match, id, Commits
    <2>2. Records(s, persist_candidate(s, replay_command(s, id, c), "Duplicate").state, {})
      BY <1>5, ReplayRecords, PersistRecords DEF match
    <2>3. Records(s, t, {})
      BY <1>2, <2>1, <2>2 DEF ExactReplay, Effect
    <2> QED BY <2>3 DEF t, answer
  <1>6. CASE match = "different"
    <2>1. t = ConflictingReplay(s, id, c).state
      BY <1>6 DEF t, ApplyWithoutCommit, command_fingerprint, match, id, Commits
    <2>2. Records(s, persist_candidate(s, reject_conflicting_replay(s, id, c),
                                       "MalformedCommand").state, {})
      BY <1>6, ConflictRecords, PersistRecords DEF match, id
    <2>3. Records(s, t, {})
      BY <1>2, <2>1, <2>2 DEF ConflictingReplay, Effect
    <2> QED BY <2>3 DEF t, answer
  <1>7. CASE match = "unknown"
    <2>1. \/ t = s
          \/ r # None /\ t = PersistRejection(s, id, c, r, 0).state
      BY <1>7 DEF t, ApplyWithoutCommit, command_fingerprint, match, id, r, Effect,
                  Commits
    <2>2. CASE t = s
      BY <1>2, <2>2 DEF t, answer
    <2>3. CASE r # None /\ t = PersistRejection(s, id, c, r, 0).state
      <3>1. topic = s.credential_generation
        <4>1. ~IsPendingCommand(s, id)
          <5> SUFFICES ASSUME IsPendingCommand(s, id) PROVE FALSE
            OBVIOUS
          <5>1. PICK j \in s.command_journal : j.command_id = id /\ j.retain_until > 0
            BY <1>1 DEF IsPendingCommand, verify, PendingJournalled, JournalValid
          <5>2. j \in LiveEntries(s, id, 0)
            BY <5>1 DEF LiveEntries
          <5> QED BY <1>7, <5>2 DEF match, command_match
        <4> QED BY <4>1 DEF id
      <3>2. r \in Rejections /\ (c \in Revoked /\ CommandData[c].addressed => r = "PolicyRejected")
        BY <1>4, <2>3, <3>1
      <3>3. retention_deadline(0) \in Nat
        BY CommandsAssumption DEF retention_deadline
      <3> DEFINE u == reject(expire_command_journal(s, 0), id, c, r, retention_deadline(0))
      <3>4. verify(u) => Records(s, u, {})
        BY <3>2, <3>3, RejectRecords DEF id
      <3> HIDE DEF u
      <3>5. Records(s, persist_candidate(s, u, r).state, {})
        BY <3>4, PersistRecords
      <3>6. t \in {s, persist_candidate(s, u, r).state}
        BY <2>3 DEF PersistRejection, Effect, u
      <3>7. Records(s, t, {})
        BY <1>2, <3>5, <3>6
      <3> QED BY <3>7 DEF t, answer
    <2> QED BY <2>1, <2>2, <2>3
  <1> QED BY <1>3, <1>5, <1>6, <1>7

\* A delivered command, committed or not.
LEMMA DeliverRecords ==
  ASSUME NEW m, m \in downlink, DownlinkTraced(m), AgentInv(state), DeliverCommand(m)
  PROVE  Records(state, state', {})
  <1> DEFINE c == m.command
             answer == IF c \in Revoked THEN "Revoked" ELSE "Resolved"
  <1>1. c \in Issued /\ c \in Commands /\ state \in States
    BY DEF DownlinkTraced, Issued, AgentInv
  <1>2. m.topic = state.credential_generation \/ IsPendingCommand(state, CommandData[c].id)
    BY DEF DeliverCommand
  <1>3. CASE Commits(state, m.topic, c, answer, 0) /\ CommitReserves(state, 0)
    <2>1. state' = Commit(state, c, 0).state
      BY <1>3 DEF DeliverCommand
    <2>2. Rejection(state, m.topic, c, answer, 0) = None
      BY <1>3 DEF Commits
    <2>3. c \notin Revoked /\ CommandData[c].generation > state.current.generation
      BY <1>1, <2>2, RejectionReasons
    <2> QED BY <1>1, <2>1, <2>3, CommitRecords
  <1>4. CASE ~(Commits(state, m.topic, c, answer, 0) /\ CommitReserves(state, 0))
    <2>1. state' = ApplyWithoutCommit(state, m.topic, c, answer, 0).state
      BY <1>4 DEF DeliverCommand
    <2> QED BY <1>1, <1>2, <2>1, ApplyRecords
  <1> QED BY <1>3, <1>4

\* A PUBACK takes nothing but the event it names out of the outbox.
LEMMA ConfirmRecords ==
  ASSUME NEW s, AgentInv(s), NEW event
  PROVE  Records(s, ConfirmOutbound(s, event).state, {event})
  <1> DEFINE matching == {i \in DOMAIN s.outbox : s.outbox[i].event = event}
             index == CHOOSE i \in matching : TRUE
             t == ConfirmOutbound(s, event).state
  <1>1. s \in States /\ verify(s) /\ JournalTrace(s) /\ OutboxTrace(s)
    BY DEF AgentInv
  <1>2. CASE t = s
    BY <1>2 DEF Records
  <1>3. CASE t # s
    <2>1. /\ matching # {} /\ verify(confirm_outbound(s, index))
          /\ t = confirm_outbound(s, index)
      BY <1>3 DEF ConfirmOutbound, persist_candidate, Effect
    <2>2. index \in DOMAIN s.outbox /\ s.outbox[index].event = event
      BY <2>1
    <2> HIDE DEF index, t
    <2>3. /\ t \in States /\ t.outbox = RemoveAt(s.outbox, index)
          /\ t.command_journal = s.command_journal /\ t.current = s.current
      BY <1>1, <2>1, <2>2, ConfirmType, ConfirmFacts DEF Confirmed
    <2>4. /\ \A j \in DOMAIN t.outbox : \E k \in DOMAIN s.outbox : t.outbox[j] = s.outbox[k]
          /\ \A k \in DOMAIN s.outbox : k # index =>
                \E j \in DOMAIN t.outbox : t.outbox[j] = s.outbox[k]
      BY <1>1, <2>2, <2>3, RemovedEntries
    <2>5. OutboxTrace(t)
      BY <1>1, <2>3, <2>4 DEF OutboxTrace
    <2>6. EventsOf(s) \ {event} \subseteq EventsOf(t)
      BY <2>2, <2>4 DEF EventsOf
    <2>7. JournalTrace(t)
      BY <1>1, <2>3 DEF JournalTrace
    <2> QED BY <2>1, <2>3, <2>5, <2>6, <2>7 DEF Records, AgentInv, t
  <1> QED BY <1>2, <1>3

\* The reconnection unblocks the report and changes nothing else of it.
LEMMA ReconnectRecords ==
  ASSUME NEW s, AgentInv(s), NEW revision
  PROVE  Records(s, mark_current_credential_connected(s, revision).state, {})
  <1> DEFINE u == mark_reconnected(s)
  <1>1. s \in States /\ verify(s) /\ JournalTrace(s) /\ OutboxTrace(s)
    BY DEF AgentInv
  <1>2. u \in States /\ KeepsFacts(s.outbox, u.outbox)
    BY <1>1, ReconnectedExtends DEF Extends
  <1>3. Reconnected(s, u)
    BY <1>1, ReconnectFacts
  <1> HIDE DEF u
  <1>4. OutboxTrace(u)
    <2> SUFFICES ASSUME NEW i \in DOMAIN u.outbox
                 PROVE  FactTraced(u.command_journal, u.outbox[i])
      BY DEF OutboxTrace
    <2>1. /\ i \in DOMAIN s.outbox /\ FactTraced(s.command_journal, s.outbox[i])
          /\ u.command_journal = s.command_journal
      BY <1>1, <1>3 DEF Reconnected, OutboxTrace
    <2>2. CASE s.outbox[i].kind = "ReportBlocked"
      <3>1. /\ u.outbox[i].kind = "ReportReady"
            /\ u.outbox[i].event = s.outbox[i].event
            /\ u.outbox[i].command_id = s.outbox[i].command_id
            /\ u.outbox[i].sequence = s.outbox[i].sequence
            /\ u.outbox[i].position = s.outbox[i].position
        BY <1>3, <2>1, <2>2 DEF Reconnected
      <3>2. PICK j \in s.command_journal : ReportOf(s.outbox[i], j)
        BY <2>1, <2>2 DEF FactTraced, IsAck
      <3>3. ReportOf(u.outbox[i], j)
        BY <3>1, <3>2 DEF ReportOf
      <3> QED BY <2>1, <3>1, <3>3 DEF FactTraced, IsAck
    <2>3. CASE s.outbox[i].kind # "ReportBlocked"
      BY <1>3, <2>1, <2>3 DEF Reconnected
    <2> QED BY <2>2, <2>3
  <1>5. JournalTrace(u) /\ u.command_journal = s.command_journal
    BY <1>1, <1>3 DEF JournalTrace, Reconnected
  <1>6. verify(u) => Records(s, u, {})
    BY <1>1, <1>2, <1>4, <1>5, KeptEvents DEF Records, AgentInv
  <1>7. Records(s, persist_candidate(s, u, "Connected").state, {})
    BY <1>6, PersistRecords
  <1> QED BY <1>7 DEF mark_current_credential_connected, Effect, Records, u

\* The settlement touches neither journal nor outbox.
LEMMA SettleRecords ==
  ASSUME NEW s, AgentInv(s), NEW token
  PROVE  Records(s, persist_inbound_settlement(s, token).state, {})
  <1> DEFINE u == mark_inbound_settled(s)
  <1>1. s \in States /\ JournalTrace(s) /\ OutboxTrace(s) /\ Records(s, s, {})
    BY DEF AgentInv, Records
  <1>2. CASE s.pending_inbound = None
    BY <1>1, <1>2 DEF persist_inbound_settlement, Effect
  <1>3. CASE s.pending_inbound # None
    <2>1. u \in States /\ IsSettled(s, u)
      BY <1>1, <1>3, SettledExtends, SettleFacts DEF Extends
    <2> HIDE DEF u
    <2>2. JournalTrace(u) /\ OutboxTrace(u) /\ EventsOf(u) = EventsOf(s)
      BY <1>1, <2>1 DEF JournalTrace, OutboxTrace, EventsOf, IsSettled
    <2>3. verify(u) => Records(s, u, {})
      BY <2>1, <2>2 DEF Records, AgentInv, IsSettled
    <2>4. Records(s, persist_candidate(s, u, "Settled").state, {})
      BY <2>3, PersistRecords
    <2> QED BY <1>1, <2>4 DEF persist_inbound_settlement, Effect, u
  <1> QED BY <1>2, <1>3

-----------------------------------------------------------------------------
(* What goes on the wire. *)

\* The command an ACK echoes: the journalled one, or the conflicting one.
LEMMA EchoedCommand ==
  ASSUME NEW s, AgentInv(s), NEW e, NEW j \in s.command_journal
  PROVE  /\ FirstAck(e, j) => CommandOf(s, e) = j.fingerprint
         /\ \A c : ConflictAck(e, j, c) => CommandOf(s, e) = c
  <1>1. ASSUME FirstAck(e, j) PROVE CommandOf(s, e) = j.fingerprint
    <2>1. e.event.kind # "rejected" /\ e.command_id = j.command_id
      BY <1>1 DEF FirstAck, AckEvent
    <2>2. \A k \in s.command_journal : k.command_id = e.command_id => k = j
      BY <2>1 DEF AgentInv, verify, JournalValid
    <2>3. (CHOOSE k \in s.command_journal : k.command_id = e.command_id) = j
      BY <2>1, <2>2
    <2> QED BY <2>1, <2>3 DEF CommandOf
  <1>2. ASSUME NEW c, ConflictAck(e, j, c) PROVE CommandOf(s, e) = c
    BY <1>2 DEF ConflictAck, CommandOf, RejectedEvent
  <1> QED BY <1>1, <1>2

\* What a published acknowledgement says.
LEMMA PublishedAck ==
  ASSUME NEW s, AgentInv(s), NEW i \in DOMAIN s.outbox, IsAck(s.outbox[i]),
         encode_outbound(s, s.outbox[i]).ok, NEW c \in Issued,
         CommandOf(s, s.outbox[i]) = c, s.outbox[i].command_id = CommandData[c].id
  PROVE  LET e == s.outbox[i]
             m == Message(e, encode_outbound(s, e).value)
         IN  /\ m.kind = "ack" /\ m.event = e.event
             /\ AckOf(m, c) /\ m.payload.sequence = e.sequence
             /\ IF e.rejection = None THEN m.payload.result = "received"
                ELSE /\ m.payload.result = "rejected"
                     /\ RejectionReason[m.payload.reason] = e.rejection
  <1> DEFINE e == s.outbox[i]
             f == AckFact(s, e)
             p == AckPayload(Device, f)
             m == Message(e, encode_outbound(s, e).value)
  <1>1. e \in Acks
    <2>1. e \in Acks \union Reports BY DEF AgentInv, States
    <2> QED BY <2>1 DEF IsAck, Reports
  <1>2. /\ c \in Commands /\ CommandData[c].generation \in Nat
        /\ CommandData[c].fence \in Nat /\ CommandData[c].id \in CommandIds
        /\ e.sequence \in Nat /\ e.rejection \in Rejections \union {None}
    BY <1>1, CommandsAssumption DEF Issued, Acks
  <1>3. /\ f.command_id = e.command_id /\ f.generation = CommandData[c].generation
        /\ f.fence = CommandData[c].fence /\ f.sequence = e.sequence
        /\ f.rejection = e.rejection /\ (f.received <=> e.rejection = None)
    BY DEF AckFact
  <1>4. f \in AckFacts /\ f.command_id \notin BlankTexts
    <2>1. e.command_id \in Texts \ (BlankTexts \union ControlTexts)
      BY <1>2, TraceAssumption
    <2> QED BY <1>2, <2>1 DEF AckFacts, AckFact
  <1>5. encode_outbound(s, e) = encode_ack(Device, f)
    BY DEF encode_outbound
  <1> HIDE DEF f
  <1>6. /\ f.sequence <= I64Max /\ encode_outbound(s, e).value = p
    BY <1>4, <1>5, AckEncoded
  <1>7. m.kind = "ack" /\ m.event = e.event /\ m.payload = p
    BY <1>6 DEF Message
  <1>8. /\ p.device = Device /\ p.command_id = f.command_id
        /\ p.generation = f.generation /\ p.fence = f.fence
        /\ p.sequence = f.sequence
        /\ p.result = IF f.received THEN "received" ELSE "rejected"
        /\ p.reason = IF f.received THEN "none" ELSE rejection_reason[f.rejection]
    BY DEF AckPayload
  <1> HIDE DEF p, m, e
  <1>9. AckOf(m, c)
    BY <1>2, <1>3, <1>6, <1>7, <1>8, RotationModelAssumption DEF AckOf, e
  <1>10. IF e.rejection = None THEN p.result = "received"
         ELSE p.result = "rejected" /\ RejectionReason[p.reason] = e.rejection
    <2>1. CASE e.rejection = None BY <1>3, <1>8, <2>1
    <2>2. CASE e.rejection # None BY <1>2, <1>3, <1>8, <2>2, ReasonsRoundTrip
    <2> QED BY <2>1, <2>2
  <1>11. m.payload.sequence = e.sequence BY <1>3, <1>7, <1>8
  <1> QED BY <1>7, <1>9, <1>10, <1>11 DEF m, e

\* What a published report says.  A number at which the counter saturates does
\* not fit the contract, so a report on the wire is numbered after its ACK.
LEMMA PublishedReport ==
  ASSUME NEW s, AgentInv(s), NEW i \in DOMAIN s.outbox, ~IsAck(s.outbox[i]),
         encode_outbound(s, s.outbox[i]).ok, NEW j \in s.command_journal,
         ReportOf(s.outbox[i], j)
  PROVE  LET e == s.outbox[i]
             m == Message(e, encode_outbound(s, e).value)
         IN  m.kind = "report" /\ m.event = e.event /\ SaidReport(m, j)
  <1> DEFINE e == s.outbox[i]
             f == ReportFact(e)
             p == ReportPayload(Device, f)
             m == Message(e, encode_outbound(s, e).value)
             n == j.acknowledgement.sequence
  <1>1. e \in Reports
    <2>1. e \in Acks \union Reports BY DEF AgentInv, States
    <2> QED BY <2>1 DEF IsAck, Acks
  <1>2. e.sequence \in Nat /\ e.position \in Positions
    BY <1>1 DEF Reports
  <1>3. /\ f.generation = e.position.generation /\ f.fence = e.position.fence
        /\ f.digest = e.position.digest /\ f.sequence = e.sequence
    BY DEF ReportFact
  <1>4. f \in ReportFacts
    BY <1>2 DEF ReportFacts, ReportFact, Positions
  <1>5. encode_outbound(s, e) = encode_report(Device, f)
    BY DEF encode_outbound
  <1> HIDE DEF f
  <1>6. f.sequence <= I64Max /\ encode_outbound(s, e).value = p
    BY <1>4, <1>5, ReportEncoded
  <1>7. m.kind = "report" /\ m.event = e.event /\ m.payload = p
    BY <1>6 DEF Message
  <1>8. /\ p.device = Device /\ p.generation = f.generation /\ p.fence = f.fence
        /\ p.digest = f.digest /\ p.sequence = f.sequence
    BY DEF ReportPayload
  <1>9. n \in Nat /\ e.sequence = SaturatingSucc(n)
    BY JournalAcks DEF AgentInv, ReportOf
  <1> HIDE DEF p, m, n
  <1>10. p.sequence \in 0 .. I64Max /\ p.sequence > n
    BY <1>2, <1>3, <1>6, <1>8, <1>9, TraceAssumption, RotationModelAssumption
    DEF SaturatingSucc
  <1>11. SaidReport(m, j)
    BY <1>3, <1>7, <1>8, <1>10 DEF SaidReport, ReportOf, n
  <1> QED BY <1>7, <1>11 DEF m

\* Whatever is published goes back to an entry of the journal.
LEMMA PublishedTraced ==
  ASSUME NEW s, AgentInv(s), NEW i \in DOMAIN s.outbox,
         encode_outbound(s, s.outbox[i]).ok
  PROVE  LET e == s.outbox[i]
             m == Message(e, encode_outbound(s, e).value)
         IN  MessageTraced(s.command_journal, m)
  <1> DEFINE e == s.outbox[i]
             m == Message(e, encode_outbound(s, e).value)
  <1>1. FactTraced(s.command_journal, e)
    BY DEF AgentInv, OutboxTrace
  <1>2. CASE ~IsAck(e)
    <2>1. PICK j \in s.command_journal : ReportOf(e, j)
      BY <1>1, <1>2 DEF FactTraced
    <2>2. m.kind = "report" /\ SaidReport(m, j)
      BY <1>2, <2>1, PublishedReport
    <2> QED BY <2>2 DEF MessageTraced
  <1>3. CASE IsAck(e)
    <2>1. PICK j \in s.command_journal : FirstAck(e, j) \/ \E c \in Commands : ConflictAck(e, j, c)
      BY <1>1, <1>3 DEF FactTraced
    <2>2. EntrySound(j)
      BY DEF AgentInv, JournalTrace
    <2>3. CASE FirstAck(e, j)
      <3>1. /\ j.fingerprint \in Issued /\ CommandOf(s, e) = j.fingerprint
            /\ e.command_id = CommandData[j.fingerprint].id
        BY <2>2, <2>3, EchoedCommand DEF EntrySound, DataOf, FirstAck
      <3>2. /\ m.kind = "ack" /\ m.event = e.event
            /\ AckOf(m, j.fingerprint) /\ m.payload.sequence = e.sequence
            /\ IF e.rejection = None THEN m.payload.result = "received"
               ELSE /\ m.payload.result = "rejected"
                    /\ RejectionReason[m.payload.reason] = e.rejection
        BY <1>3, <3>1, PublishedAck
      <3> HIDE DEF m
      <3>3. SaidFirst(m, j)
        BY <2>3, <3>2 DEF SaidFirst, FirstAck
      <3>4. MessageTraced(s.command_journal, m)
        BY <3>2, <3>3 DEF MessageTraced
      <3> QED BY <3>4 DEF m
    <2>4. CASE \E c \in Commands : ConflictAck(e, j, c)
      <3>1. PICK c \in Commands : ConflictAck(e, j, c)
        BY <2>4
      <3>2. /\ c \in Issued /\ CommandOf(s, e) = c
            /\ e.command_id = CommandData[c].id /\ e.rejection = "MalformedCommand"
        BY <3>1, EchoedCommand DEF ConflictAck
      <3>3. e.rejection # None
        BY <3>2, CommandsAssumption DEF Rejections
      <3>4. /\ m.kind = "ack" /\ m.event = e.event /\ AckOf(m, c)
            /\ IF e.rejection = None THEN m.payload.result = "received"
               ELSE /\ m.payload.result = "rejected"
                    /\ RejectionReason[m.payload.reason] = e.rejection
        BY <1>3, <3>2, PublishedAck
      <3> HIDE DEF m
      <3>5. SaidConflict(m, j, c)
        BY <3>1, <3>2, <3>3, <3>4 DEF SaidConflict, ConflictAck
      <3>6. MessageTraced(s.command_journal, m)
        BY <3>4, <3>5 DEF MessageTraced
      <3> QED BY <3>6 DEF m
    <2> QED BY <2>1, <2>3, <2>4
  <1> QED BY <1>2, <1>3

-----------------------------------------------------------------------------
(* The steps. *)

\* What is traced to a journal is traced to a larger one.
LEMMA GrownJournal ==
  ASSUME NEW J, NEW K, J \subseteq K
  PROVE  /\ \A m : MessageTraced(J, m) => MessageTraced(K, m)
         /\ \A v : ServiceInv(J, v) => ServiceInv(K, v)
         /\ \A r : ReceiptTraced(J, r) => ReceiptTraced(K, r)
         /\ \A t : StatusTraced(J, t) => StatusTraced(K, t)
  <1>1. Taken(J) \subseteq Taken(K)
    BY DEF Taken
  <1>2. \A g : Reached(J, g) => Reached(K, g)
    BY <1>1 DEF Reached
  <1>3. \A m : MessageTraced(J, m) => MessageTraced(K, m)
    BY DEF MessageTraced
  <1>4. \A v : ServiceInv(J, v) => ServiceInv(K, v)
    BY <1>2 DEF ServiceInv
  <1>5. \A r : ReceiptTraced(J, r) => ReceiptTraced(K, r)
    BY <1>1 DEF ReceiptTraced
  <1>6. \A t : StatusTraced(J, t) => StatusTraced(K, t)
    BY <1>2 DEF StatusTraced
  <1> QED BY <1>3, <1>4, <1>5, <1>6

\* A step of the agent alone: what leaves the outbox is on the wire.
LEMMA AgentStep ==
  ASSUME IInv, NEW gone, Records(state, state', gone),
         gone \subseteq {m.event : m \in uplink},
         UNCHANGED <<service, downlink, uplink, accepted, receipts, statuses>>
  PROVE  IInv'
  <1> DEFINE J == state.command_journal
             K == state'.command_journal
             S == {m.event : m \in uplink}
  <1>1. AgentInv(state') /\ J \subseteq K /\ EventsOf(state) \ gone \subseteq EventsOf(state')
        /\ \A j \in K \ J : SaidOf(j, EventsOf(state'))
    BY DEF Records
  <1> HIDE DEF J, K, S
  <1>2. \A j \in K : SaidOf(j, S \union EventsOf(state'))
    <2> TAKE j \in K
    <2>1. CASE j \in J
      <3>1. SaidOf(j, S \union EventsOf(state))
        BY <2>1 DEF IInv, J, S
      <3>2. S \union EventsOf(state) \subseteq S \union EventsOf(state')
        BY <1>1 DEF S
      <3> QED BY <3>1, <3>2 DEF SaidOf
    <2>2. CASE j \notin J
      BY <1>1, <2>2 DEF SaidOf
    <2> QED BY <2>1, <2>2
  <1>3. /\ \A m \in uplink : MessageTraced(K, m)
        /\ ServiceInv(K, service)
        /\ \A r \in receipts : ReceiptTraced(K, r)
        /\ \A t \in statuses : StatusTraced(K, t)
    <2>1. /\ \A m \in uplink : MessageTraced(J, m)
          /\ ServiceInv(J, service)
          /\ \A r \in receipts : ReceiptTraced(J, r)
          /\ \A t \in statuses : StatusTraced(J, t)
      BY DEF IInv, J
    <2> QED BY <1>1, <2>1, GrownJournal
  <1>4. /\ (\A m \in downlink : DownlinkTraced(m))'
        /\ (\A a \in accepted : AcceptedTraced(a))'
    BY DEF IInv, DownlinkTraced, AcceptedTraced
  <1>5. AgentInv(state)'
    BY <1>1 DEF AgentInv
  <1>6. /\ (\A m \in uplink : MessageTraced(state.command_journal, m))'
        /\ ServiceInv(state.command_journal, service)'
        /\ (\A r \in receipts : ReceiptTraced(state.command_journal, r))'
        /\ (\A t \in statuses : StatusTraced(state.command_journal, t))'
    BY <1>3 DEF K
  <1>7. (\A j \in state.command_journal :
           SaidOf(j, {m.event : m \in uplink} \union EventsOf(state)))'
    BY <1>2 DEF K, S
  <1> QED BY <1>4, <1>5, <1>6, <1>7 DEF IInv

\* A step that leaves the agent alone and adds only what is traced.
LEMMA ObserverStep ==
  ASSUME IInv, UNCHANGED state,
         ServiceInv(state.command_journal, service'),
         \A m \in downlink' : m \in downlink \/ DownlinkTraced(m),
         uplink \subseteq uplink',
         \A m \in uplink' : m \in uplink \/ MessageTraced(state.command_journal, m),
         \A a \in accepted' : a \in accepted \/ AcceptedTraced(a),
         \A r \in receipts' : r \in receipts \/ ReceiptTraced(state.command_journal, r),
         \A t \in statuses' : t \in statuses \/ StatusTraced(state.command_journal, t)
  PROVE  IInv'
  <1>1. /\ AgentInv(state)'
        /\ ServiceInv(state.command_journal, service)'
        /\ (\A m \in downlink : DownlinkTraced(m))'
        /\ (\A m \in uplink : MessageTraced(state.command_journal, m))'
        /\ (\A a \in accepted : AcceptedTraced(a))'
        /\ (\A r \in receipts : ReceiptTraced(state.command_journal, r))'
        /\ (\A t \in statuses : StatusTraced(state.command_journal, t))'
    BY DEF IInv
  <1>2. {m.event : m \in uplink} \union EventsOf(state)
          \subseteq {m.event : m \in uplink'} \union EventsOf(state')
    OBVIOUS
  <1>3. (\A j \in state.command_journal :
           SaidOf(j, {m.event : m \in uplink} \union EventsOf(state)))'
    BY <1>2 DEF IInv, SaidOf
  <1> QED BY <1>1, <1>3 DEF IInv

\* A policy request is accepted.
LEMMA AcceptPolicyKeeps ==
  ASSUME IInv, AcceptPolicy
  PROVE  IInv'
  <1> DEFINE next == service.desired + 1
             data == [receipt |-> Receipts[next], generation |-> next,
                      condition |-> "PendingDevice"]
             reply == [shape |-> "accepted", data |-> data]
             mapped == map_policy_success(context, decode_policy_response(200, reply).value)
  <1>1. ServiceInv(state.command_journal, service) BY DEF IInv
  <1>2. /\ next \in 1 .. MaxGeneration /\ service.desired \in Nat
        /\ InitialPosition.generation \in Nat
    BY <1>1, TraceAssumption DEF ServiceInv, AcceptPolicy
  <1>3. ServiceInv(state.command_journal, service')
    <2>1. service' = [service EXCEPT !.desired = next, !.active = "queued"]
      BY DEF AcceptPolicy
    <2>2. /\ service'.desired = next /\ service'.observed = service.observed
          /\ service' \in [desired : 1 .. MaxGeneration, fence : Nat \ {0},
                           active : {None, "queued", "published", "received"},
                           observed : Nat, committed : SUBSET Events]
      BY <1>1, <1>2, <2>1 DEF ServiceInv
    <2>3. /\ InitialPosition.generation <= service'.desired
          /\ service'.observed < service'.desired
          /\ service'.observed <= service'.desired
      BY <1>1, <1>2, <2>2 DEF ServiceInv
    <2>4. Reached(state.command_journal, service'.observed)
      BY <1>1, <2>2 DEF ServiceInv
    <2> QED BY <2>2, <2>3, <2>4 DEF ServiceInv
  <1>4. decode_policy_response(200, reply).value = data
    BY DEF decode_policy_response, PolicyShape, Ok
  <1>5. AcceptedTraced(mapped.value)
    <2>1. Receipts[next] \in Texts \ (BlankTexts \union ControlTexts)
      BY <1>2, TraceAssumption
    <2>2. validate_reference(data.receipt) = Ok(data.receipt)
      BY <2>1 DEF validate_reference
    <2>3. Generation(data.generation) = Ok(data.generation)
      BY <1>2 DEF Generation
    <2>4. data.receipt = Receipts[next] /\ data.generation = next
      OBVIOUS
    <2> DEFINE a == [coordinates |-> context.coordinates, receipt |-> data.receipt,
                     generation |-> data.generation, condition |-> data.condition]
    <2>5. mapped = map_policy_success(context, data)
      BY <1>4
    <2> HIDE DEF data, mapped
    <2>6. mapped = Ok(a)
      BY <2>2, <2>3, <2>5 DEF map_policy_success, Then, Ok
    <2>7. /\ mapped.value.coordinates = context.coordinates
          /\ mapped.value.generation = next /\ mapped.value.receipt = Receipts[next]
      BY <2>4, <2>6 DEF Ok
    <2> QED BY <1>2, <2>7 DEF AcceptedTraced
  <1>6. accepted' = accepted \union {mapped.value}
    BY DEF AcceptPolicy
  <1> HIDE DEF mapped
  <1> QED BY <1>3, <1>5, <1>6, ObserverStep DEF AcceptPolicy

\* A command goes out.
LEMMA SendCommandKeeps ==
  ASSUME IInv, NEW c \in Commands, SendCommand(c)
  PROVE  IInv'
  <1> DEFINE m == [command |-> c, topic |-> state.credential_generation]
  <1>1. ServiceInv(state.command_journal, service) /\ state \in States
    BY DEF IInv, AgentInv
  <1>2. service.active # None
    BY TraceAssumption DEF SendCommand
  <1>3. InitialPosition.generation \in Nat /\ service.observed \in Nat
        /\ service.desired \in 1 .. MaxGeneration /\ MaxGeneration \in Nat
        /\ InitialPosition.generation <= service.observed
    <2>1. \A j \in Taken(state.command_journal) :
             DataOf(j).generation \in InitialPosition.generation + 1 .. MaxGeneration
      BY DEF IInv, AgentInv, JournalTrace, Taken, EntrySound, Issued, DataOf
    <2>2. InitialPosition.generation \in Nat /\ MaxGeneration \in Nat
      BY TraceAssumption
    <2> QED BY <1>1, <2>1, <2>2 DEF ServiceInv, Reached
  <1>4. c \in Issued
    <2>1. CommandData[c].generation = service.desired /\ CommandData[c].fence = service.fence
      BY DEF SendCommand
    <2>2. service.observed < service.desired /\ service.fence # 0
      BY <1>1, <1>2 DEF ServiceInv
    <2> QED BY <1>3, <2>1, <2>2 DEF Issued
  <1>5. DownlinkTraced(m)
    BY <1>1, <1>4 DEF DownlinkTraced, States
  <1>6. ServiceInv(state.command_journal, service')
    <2>1. service' = [service EXCEPT !.active = "published"]
      BY DEF SendCommand
    <2> QED BY <1>1, <1>2, <2>1 DEF ServiceInv
  <1>7. downlink' = downlink \union {m}
    BY DEF SendCommand
  <1> HIDE DEF m
  <1> QED BY <1>5, <1>6, <1>7, ObserverStep DEF SendCommand

\* A command is issued again.
LEMMA ReissueKeeps ==
  ASSUME IInv, Reissue
  PROVE  IInv'
  <1>1. ServiceInv(state.command_journal, service) /\ service.active # None
    BY TraceAssumption DEF IInv, Reissue
  <1>2. service' = [service EXCEPT !.fence = service.fence + 1, !.active = "queued"]
    BY DEF Reissue
  <1>3. service.fence + 1 \in Nat \ {0}
    BY <1>1 DEF ServiceInv
  <1>4. ServiceInv(state.command_journal, service')
    BY <1>1, <1>2, <1>3 DEF ServiceInv
  <1> QED BY <1>4, ObserverStep DEF Reissue

\* An acknowledgement is consumed.
LEMMA TakeAckKeeps ==
  ASSUME IInv, NEW m \in uplink, TakeAck(m)
  PROVE  IInv'
  <1>1. ServiceInv(state.command_journal, service) /\ service.active # None
    BY TraceAssumption DEF IInv, TakeAck
  <1>2. service' = [service EXCEPT
          !.active = IF m.payload.result = "received" THEN "received" ELSE None]
    BY DEF TakeAck
  <1>3. ServiceInv(state.command_journal, service')
    BY <1>1, <1>2 DEF ServiceInv
  <1> QED BY <1>3, ObserverStep DEF TakeAck

\* A report is consumed, committed or not.
LEMMA TakeReportKeeps ==
  ASSUME IInv, NEW m \in uplink, TakeReport(m)
  PROVE  IInv'
  <1> DEFINE J == state.command_journal
             g == m.payload.generation
             outcome == IF m.event \in service.committed THEN "Duplicate"
                        ELSE IF g # service.desired THEN "Stale" ELSE "Committed"
             event == [kind |-> "receipt", cause |-> <<m.event, outcome>>]
             p == [device |-> Device, ingress |-> m.event.cause, outcome |-> outcome,
                   receipt |-> Receipts[g], generation |-> g]
             mapped == map_receipt(context, event, p)
  <1>1. /\ receipts' = receipts \union {mapped.value}
        /\ service' = IF outcome = "Committed"
                      THEN [service EXCEPT !.observed = g, !.active = None,
                              !.committed = @ \union {m.event}]
                      ELSE service
        /\ UNCHANGED <<state, downlink, uplink, accepted, statuses>>
    BY DEF TakeReport
  <1>2. PICK j \in J : SaidReport(m, j)
    BY DEF IInv, MessageTraced, TakeReport
  <1>3. EntrySound(j) /\ j \in Taken(J) /\ j.command_id \in CommandIds
    BY <1>2 DEF IInv, AgentInv, JournalTrace, SaidReport, Taken, States, StoredCommands
  <1>4. /\ g = DataOf(j).generation /\ g \in InitialPosition.generation + 1 .. MaxGeneration
        /\ g \in 1 .. MaxGeneration /\ g # 0
    BY <1>2, <1>3, TraceAssumption DEF SaidReport, EntrySound, Issued, DataOf
  <1>5. m.event = ReportEvent(j.command_id) /\ m.event.cause = j.command_id
        /\ m.event \in Events
    BY <1>2, <1>3, EventTypes DEF SaidReport, ReportEvent
  <1>6. outcome # "Rejected" OBVIOUS
  <1>7. /\ p.device = Device /\ p.ingress = j.command_id /\ p.outcome = outcome
        /\ p.receipt = Receipts[g] /\ p.generation = g
        /\ context.device = Device
    BY <1>5 DEF context
  <1>8. ReceiptTraced(J, mapped.value)
    <2>1. /\ Receipts[g] \notin BlankTexts \union ControlTexts
          /\ j.command_id \notin BlankTexts \union ControlTexts
      BY <1>3, <1>4, TraceAssumption
    <2> HIDE DEF p, outcome, J, g
    <2>2. require_device(context, p.device).ok
      BY <1>7 DEF require_device, Ok
    <2>3. validate_reference(p.ingress).ok /\ validate_reference(p.receipt).ok
      BY <1>7, <2>1 DEF validate_reference, Ok
    <2>4. Generation(p.generation).ok
      BY <1>4, <1>7 DEF Generation, Ok
    <2>5. lineage(p).ok
      BY <1>6, <1>7, <2>3, <2>4 DEF lineage, Then
    <2>6. mapped = Ok([coordinates |-> context.coordinates, event |-> event,
                       ingress |-> p.ingress, outcome |-> p.outcome,
                       lineage |-> <<p.receipt, p.generation>>])
      BY <1>6, <1>7, <2>2, <2>3, <2>5 DEF map_receipt, Then
    <2> HIDE DEF mapped
    <2>7. /\ mapped.value.coordinates = context.coordinates
          /\ mapped.value.event = event /\ mapped.value.outcome = outcome
          /\ mapped.value.lineage = <<Receipts[g], g>>
      BY <1>7, <2>6 DEF Ok
    <2>8. ReceiptOf(mapped.value, j)
      BY <1>4, <1>5, <2>7 DEF ReceiptOf
    <2> QED BY <1>3, <2>7, <2>8 DEF ReceiptTraced
  <1>9. ServiceInv(J, service')
    <2>1. ServiceInv(J, service) BY DEF IInv
    <2>2. CASE outcome # "Committed" BY <1>1, <2>1, <2>2
    <2>3. CASE outcome = "Committed"
      <3>1. g = service.desired /\ g \in Nat BY <1>4, <2>3
      <3>2. service' = [service EXCEPT !.observed = g, !.active = None,
                          !.committed = service.committed \union {m.event}]
        BY <1>1, <2>3
      <3>3. Reached(J, g) BY <1>3, <1>4 DEF Reached
      <3> HIDE DEF g, outcome, J
      <3>4. /\ service' \in [desired : 1 .. MaxGeneration, fence : Nat \ {0},
                           active : {None, "queued", "published", "received"},
                           observed : Nat, committed : SUBSET Events]
            /\ service'.desired = service.desired /\ service'.observed = g
            /\ service'.active = None
        BY <1>5, <2>1, <3>1, <3>2 DEF ServiceInv
      <3> QED BY <2>1, <3>1, <3>3, <3>4 DEF ServiceInv
    <2> QED BY <2>2, <2>3
  <1> HIDE DEF mapped, J
  <1> QED BY <1>1, <1>8, <1>9, ObserverStep DEF J

\* The observer asks for the status.
LEMMA PollStatusKeeps ==
  ASSUME IInv, PollStatus
  PROVE  IInv'
  <1> DEFINE matches == service.observed = service.desired
             condition == [type |-> "Ready",
               status |-> IF matches THEN "True" ELSE "False",
               reason |-> IF matches THEN "StateMatches" ELSE "AwaitingDevice",
               observed_generation |-> service.observed]
             data == [desired_generation |-> service.desired,
               receipt |-> Receipts[service.desired],
               observed_generation |-> service.observed,
               active_command |-> IF service.active = None THEN None
                                  ELSE [fence |-> service.fence, state |-> service.active],
               conditions |-> {condition}]
             reply == [shape |-> "status", data |-> data]
             t == decode_status_response(200, reply).value
  <1>1. statuses' = statuses \union {t}
    BY DEF PollStatus
  <1>2. ServiceInv(state.command_journal, service) BY DEF IInv
  <1>3. service.observed \in Nat /\ ~(service.observed < 0)
    BY <1>2 DEF ServiceInv
  <1>4. /\ data.desired_generation = service.desired
        /\ data.receipt = Receipts[service.desired]
        /\ data.observed_generation = service.observed
        /\ data.active_command # None => service.active # None
        /\ data.conditions = {condition}
    OBVIOUS
  <1>5. /\ condition.type = "Ready" /\ condition.observed_generation = service.observed
        /\ IF service.observed = service.desired
           THEN condition.status = "True" /\ condition.reason = "StateMatches"
           ELSE condition.status = "False"
    OBVIOUS
  <1>6. reply.shape = "status" /\ reply.data = data OBVIOUS
  <1> HIDE DEF condition, data, reply
  <1>7. t = data
    BY <1>3, <1>4, <1>5, <1>6 DEF decode_status_response, Ok
  <1> HIDE DEF t
  <1>8. StatusTraced(state.command_journal, t)
    <2>1. /\ service.desired \in 1 .. MaxGeneration /\ service.observed <= service.desired
          /\ service.active # None => service.observed < service.desired
          /\ Reached(state.command_journal, service.observed)
      BY <1>2 DEF ServiceInv
    <2> QED BY <1>3, <1>4, <1>5, <1>7, <2>1 DEF StatusTraced
  <1> QED BY <1>1, <1>2, <1>8, ObserverStep DEF PollStatus

\* A fact is published.
LEMMA PublishKeeps ==
  ASSUME IInv, Publish
  PROVE  IInv'
  <1> DEFINE i == next_outbound(state)
             e == state.outbox[i]
             m == Message(e, encode_outbound(state, e).value)
  <1>1. AgentInv(state) /\ state \in States BY DEF IInv, AgentInv
  <1>2. i # 0 /\ encode_outbound(state, e).ok /\ uplink' = uplink \union {m}
    BY DEF Publish
  <1>3. i \in DOMAIN state.outbox
    BY <1>1, <1>2, NextOutboundQueued
  <1>4. MessageTraced(state.command_journal, m)
    <2> HIDE DEF i
    <2> QED BY <1>1, <1>2, <1>3, PublishedTraced
  <1>5. ServiceInv(state.command_journal, service) BY DEF IInv
  <1> HIDE DEF m
  <1> QED BY <1>2, <1>4, <1>5, ObserverStep DEF Publish

-----------------------------------------------------------------------------
\* The invariant holds of every behaviour.
LEMMA InitIInv ==
  ASSUME Init
  PROVE  IInv
  <1> DEFINE p == InitialPosition
             s == Initial(InitialCredentialGeneration, p)
  <1>1. /\ p \in Positions /\ p.generation \in 1 .. MaxGeneration /\ p.generation \in Nat
    BY TraceAssumption DEF Positions
  <1>2. /\ s.command_journal = {} /\ s.outbox = << >> /\ s.reconnect_revision = None
        /\ s.pending_inbound = None
    BY DEF Initial
  <1>3. s \in States
    BY <1>1, TraceAssumption DEF Initial, States
  <1> HIDE DEF s
  <1>4. DOMAIN s.outbox = {} /\ Len(s.outbox) = 0 /\ Cardinality(s.command_journal) = 0
    BY <1>2, FS_EmptySet
  <1>5. verify(s)
    BY <1>2, <1>4, LimitsAssumption
    DEF verify, WithinLimits, OutboxEntriesValid, OutboxEntriesDistinct, JournalValid,
        PendingJournalled, AtMostOneReport, PendingIffReport, ActivationMatched,
        BlockedReportAwaits, ReadyReportConnected, ReconnectMatchesCurrent,
        rotation_in_flight
  <1>6. AgentInv(s)
    BY <1>2, <1>3, <1>4, <1>5 DEF AgentInv, JournalTrace, OutboxTrace, Taken, OnePerGeneration
  <1>7. ServiceInv({}, service)
    BY <1>1 DEF Init, ServiceInv, Reached
  <1>8. state = s BY DEF Init, s
  <1> QED BY <1>2, <1>6, <1>7, <1>8 DEF Init, IInv

\* Each step keeps it.
LEMMA NextIInv ==
  ASSUME IInv, [Next]_vars
  PROVE  IInv'
  <1>1. CASE AcceptPolicy BY <1>1, AcceptPolicyKeeps
  <1>2. ASSUME NEW c \in Commands, SendCommand(c) PROVE IInv'
    BY <1>2, SendCommandKeeps
  <1>3. CASE Reissue BY <1>3, ReissueKeeps
  <1>4. ASSUME NEW m \in uplink, TakeAck(m) PROVE IInv'
    BY <1>4, TakeAckKeeps
  <1>5. ASSUME NEW m \in uplink, TakeReport(m) PROVE IInv'
    BY <1>5, TakeReportKeeps
  <1>6. CASE PollStatus BY <1>6, PollStatusKeeps
  <1>7. ASSUME NEW m \in downlink, DeliverCommand(m) PROVE IInv'
    <2>1. Records(state, state', {})
      BY <1>7, DeliverRecords DEF IInv
    <2>2. UNCHANGED <<service, downlink, uplink, accepted, receipts, statuses>>
      BY <1>7 DEF DeliverCommand
    <2> QED BY <2>1, <2>2, AgentStep
  <1>8. CASE Publish BY <1>8, PublishKeeps
  <1>9. ASSUME NEW m \in uplink, Confirm(m) PROVE IInv'
    <2>1. Records(state, state', {m.event})
      BY <1>9, ConfirmRecords DEF IInv, Confirm
    <2>2. UNCHANGED <<service, downlink, uplink, accepted, receipts, statuses>>
      BY <1>9 DEF Confirm
    <2>3. {m.event} \subseteq {n.event : n \in uplink} BY <1>9
    <2> QED BY <2>1, <2>2, <2>3, AgentStep
  <1>10. CASE Reconnect
    <2>1. Records(state, state', {})
      BY <1>10, ReconnectRecords DEF IInv, Reconnect
    <2> QED BY <1>10, <2>1, AgentStep DEF Reconnect
  <1>11. CASE Settle
    <2>1. Records(state, state', {})
      BY <1>11, SettleRecords DEF IInv, Settle
    <2> QED BY <1>11, <2>1, AgentStep DEF Settle
  <1>12. CASE UNCHANGED vars
    <2>1. ServiceInv(state.command_journal, service) BY DEF IInv
    <2> QED BY <1>12, <2>1, ObserverStep DEF vars
  <1> QED BY <1>1, <1>2, <1>3, <1>4, <1>5, <1>6, <1>7, <1>8, <1>9, <1>10, <1>11,
             <1>12 DEF Next

\* Everything the observer sees goes back to the agent's journal.
THEOREM TraceInvariant == Spec => []IInv
  <1>1. Init => IInv BY InitIInv
  <1>2. IInv /\ [Next]_vars => IInv' BY NextIInv
  <1> QED BY <1>1, <1>2, PTL DEF Spec

-----------------------------------------------------------------------------
(* What the observer sees. *)

\* The client maps every acknowledgement on the wire.
LEMMA AckMapped ==
  ASSUME NEW m, m.kind = "ack", NEW c, AckOf(m, c)
  PROVE  LET v == Mapped(m).value IN
         /\ Mapped(m).ok
         /\ v.coordinates = context.coordinates /\ v.event = m.event
         /\ v.command_id = CommandData[c].id
         /\ v.generation = CommandData[c].generation
         /\ v.fence = CommandData[c].fence /\ v.sequence = m.payload.sequence
         /\ v.outcome = IF m.payload.result = "received" THEN "Received"
                        ELSE RejectionReason[m.payload.reason]
  <1> DEFINE p == m.payload
  <1>1. /\ c \in Commands /\ CommandData[c].id \in CommandIds
        /\ CommandData[c].generation # 0 /\ CommandData[c].fence # 0
    BY CommandsAssumption, TraceAssumption DEF AckOf, Issued
  <1>2. /\ p.device = context.device /\ p.command_id = CommandData[c].id
        /\ p.generation = CommandData[c].generation /\ p.fence = CommandData[c].fence
        /\ p.sequence >= 0
    BY RotationModelAssumption DEF AckOf, context
  <1> HIDE DEF p
  <1>3. /\ require_device(context, p.device).ok /\ validate_reference(p.command_id).ok
        /\ Generation(p.generation).ok /\ FenceEpoch(p.fence).ok /\ sequence(p.sequence).ok
    <2>1. CommandData[c].id \notin BlankTexts \union ControlTexts
      BY <1>1, TraceAssumption
    <2> QED BY <1>1, <1>2, <2>1
        DEF require_device, validate_reference, Generation, FenceEpoch, sequence, U64, Ok
  <1> DEFINE fact == [coordinates |-> context.coordinates, event |-> m.event,
                command_id |-> p.command_id, generation |-> p.generation,
                fence |-> p.fence, sequence |-> p.sequence, observed_at |-> p.observed_at,
                outcome |-> IF p.result = "received" THEN "Received"
                            ELSE RejectionReason[p.reason]]
  <1>4. Mapped(m) = Ok(fact)
    BY <1>3 DEF Mapped, map_acknowledgement, Then, p
  <1>5. Mapped(m).ok /\ Mapped(m).value = fact
    BY <1>4 DEF Ok
  <1> QED BY <1>2, <1>5 DEF p

\* And every report.
LEMMA ReportMapped ==
  ASSUME NEW m, m.kind = "report", NEW j, SaidReport(m, j), EntrySound(j)
  PROVE  LET v == Mapped(m).value IN
         /\ Mapped(m).ok
         /\ v.coordinates = context.coordinates
         /\ v.event = ReportEvent(j.command_id)
         /\ v.generation = DataOf(j).generation /\ v.fence = DataOf(j).fence
         /\ v.digest = DataOf(j).digest /\ v.sequence = m.payload.sequence
  <1> DEFINE p == m.payload
  <1>1. DataOf(j).generation # 0 /\ DataOf(j).fence # 0
    BY CommandsAssumption, TraceAssumption DEF EntrySound, Issued, DataOf
  <1>2. /\ p.device = context.device /\ p.generation = DataOf(j).generation
        /\ p.fence = DataOf(j).fence /\ p.digest = DataOf(j).digest
        /\ p.sequence >= 0 /\ m.event = ReportEvent(j.command_id)
    BY RotationModelAssumption DEF SaidReport, context
  <1> HIDE DEF p
  <1>3. /\ require_device(context, p.device).ok
        /\ Generation(p.generation).ok /\ FenceEpoch(p.fence).ok /\ sequence(p.sequence).ok
    BY <1>1, <1>2 DEF require_device, Generation, FenceEpoch, sequence, U64, Ok
  <1> DEFINE fact == [coordinates |-> context.coordinates, event |-> m.event,
                generation |-> p.generation, fence |-> p.fence, sequence |-> p.sequence,
                observed_at |-> p.observed_at, digest |-> p.digest]
  <1>4. Mapped(m) = Ok(fact)
    BY <1>3 DEF Mapped, map_report, Then, p
  <1>5. Mapped(m).ok /\ Mapped(m).value = fact
    BY <1>4 DEF Ok
  <1> QED BY <1>2, <1>5 DEF p

\* What a mapped fact says of the entry it comes from.
FirstSeen(a, j) ==
  /\ a.coordinates = context.coordinates
  /\ a.event = AckEvent(j.command_id) /\ a.command_id = j.command_id
  /\ a.generation = DataOf(j).generation /\ a.fence = DataOf(j).fence
  /\ a.sequence = j.acknowledgement.sequence
  /\ a.outcome = IF j.acknowledgement.rejection = None THEN "Received"
                 ELSE j.acknowledgement.rejection

ConflictSeen(a, j, c) ==
  /\ c \in Issued /\ CommandData[c].id = j.command_id /\ j.fingerprint # c
  /\ a.generation = CommandData[c].generation
  /\ a.outcome = "MalformedCommand"

ReportSeen(r, j) ==
  /\ j.acknowledgement.rejection = None
  /\ r.coordinates = context.coordinates
  /\ r.event = ReportEvent(j.command_id)
  /\ r.generation = DataOf(j).generation /\ r.fence = DataOf(j).fence
  /\ r.digest = DataOf(j).digest
  /\ r.sequence > j.acknowledgement.sequence

\* Every acknowledgement the observer reads comes from the journal.
LEMMA AcksSeen ==
  ASSUME IInv, NEW a \in SeenAcks
  PROVE  \E j \in state.command_journal :
            FirstSeen(a, j) \/ \E c \in Commands : ConflictSeen(a, j, c)
  <1>1. PICK m \in uplink : m.kind = "ack" /\ a = Mapped(m).value
    BY DEF SeenAcks
  <1>2. PICK j \in state.command_journal :
           SaidFirst(m, j) \/ \E c \in Commands : SaidConflict(m, j, c)
    BY <1>1 DEF IInv, MessageTraced
  <1>3. EntrySound(j)
    BY DEF IInv, AgentInv, JournalTrace
  <1>4. CASE SaidFirst(m, j)
    <2>1. AckOf(m, j.fingerprint) /\ m.event = AckEvent(j.command_id)
          /\ CommandData[j.fingerprint].id = j.command_id
      BY <1>3, <1>4 DEF SaidFirst, EntrySound, DataOf
    <2>2. /\ a.coordinates = context.coordinates /\ a.event = m.event
          /\ a.command_id = CommandData[j.fingerprint].id
          /\ a.generation = CommandData[j.fingerprint].generation
          /\ a.fence = CommandData[j.fingerprint].fence /\ a.sequence = m.payload.sequence
          /\ a.outcome = IF m.payload.result = "received" THEN "Received"
                         ELSE RejectionReason[m.payload.reason]
      BY <1>1, <2>1, AckMapped
    <2>3. FirstSeen(a, j)
      BY <1>4, <2>1, <2>2 DEF FirstSeen, SaidFirst, DataOf
    <2> QED BY <2>3
  <1>5. ASSUME NEW c \in Commands, SaidConflict(m, j, c) PROVE ConflictSeen(a, j, c)
    <2>1. AckOf(m, c) BY <1>5 DEF SaidConflict
    <2>2. /\ a.generation = CommandData[c].generation
          /\ a.outcome = IF m.payload.result = "received" THEN "Received"
                         ELSE RejectionReason[m.payload.reason]
      BY <1>1, <2>1, AckMapped
    <2> QED BY <1>5, <2>1, <2>2 DEF ConflictSeen, SaidConflict, AckOf
  <1> QED BY <1>2, <1>4, <1>5

\* Every report the observer reads is of an accepted entry.
LEMMA ReportsSeen ==
  ASSUME IInv, NEW r \in SeenReports
  PROVE  \E j \in state.command_journal : ReportSeen(r, j)
  <1>1. PICK m \in uplink : m.kind = "report" /\ r = Mapped(m).value
    BY DEF SeenReports
  <1>2. PICK j \in state.command_journal : SaidReport(m, j)
    BY <1>1 DEF IInv, MessageTraced
  <1>3. EntrySound(j)
    BY DEF IInv, AgentInv, JournalTrace
  <1>4. /\ r.coordinates = context.coordinates
        /\ r.event = ReportEvent(j.command_id)
        /\ r.generation = DataOf(j).generation /\ r.fence = DataOf(j).fence
        /\ r.digest = DataOf(j).digest /\ r.sequence = m.payload.sequence
    BY <1>1, <1>2, <1>3, ReportMapped
  <1>5. ReportSeen(r, j)
    BY <1>2, <1>4 DEF ReportSeen, SaidReport
  <1> QED BY <1>5

-----------------------------------------------------------------------------
(* The properties of the journey. *)

\* verify_positive_trace succeeds exactly when all its checks do.
LEMMA PositiveChecks ==
  ASSUME NEW a, NEW ack, NEW after, NEW report, NEW receipt, NEW final
  PROVE  verify_positive_trace(a, ack, after, report, receipt, final).ok <=>
           /\ ack.outcome = "Received" /\ ~has_ready_true(after)
           /\ after.active_command # None
           /\ Correlated(a, ack, after, report, receipt)
           /\ receipt.outcome = "Committed" /\ Settled(a, receipt, final)
           /\ Cardinality({ack.event, report.event, receipt.event}) = 3
           /\ has_matching_ready(final)
  BY DEF verify_positive_trace, Ok, Err

\* An accepted generation has one entry: facts of one generation are of one
\* command.
LEMMA OneEntry ==
  ASSUME IInv, NEW j \in state.command_journal, NEW k \in state.command_journal,
         j.acknowledgement.rejection = None, k.acknowledgement.rejection = None,
         DataOf(j).generation = DataOf(k).generation
  PROVE  j = k
  BY DEF IInv, AgentInv, JournalTrace, OnePerGeneration, Taken

\* An acknowledgement that reads "Received" is the first one of an accepted
\* command.
LEMMA ReceivedSeen ==
  ASSUME IInv, NEW a \in SeenAcks, a.outcome = "Received"
  PROVE  \E j \in state.command_journal :
            FirstSeen(a, j) /\ j.acknowledgement.rejection = None
  <1>1. PICK j \in state.command_journal :
           FirstSeen(a, j) \/ \E c \in Commands : ConflictSeen(a, j, c)
    BY AcksSeen
  <1>2. FirstSeen(a, j)
    BY <1>1 DEF ConflictSeen
  <1>3. j.acknowledgement.rejection \in Rejections \union {None}
    BY DEF IInv, AgentInv, States, StoredCommands, Acks
  <1>4. "Received" \notin Rejections
    BY DEF Rejections
  <1> QED BY <1>2, <1>3, <1>4 DEF FirstSeen

\* The client maps everything the agent puts on the wire, and the agent's state
\* always verifies (wire.rs encode_ack, encode_report; lib.rs
\* map_acknowledgement, map_report).
THEOREM TraceTyped == Spec => []TypeOK
  <1>1. ASSUME IInv PROVE TypeOK
    <2>1. verify(state) BY <1>1 DEF IInv, AgentInv
    <2>2. ASSUME NEW m \in uplink PROVE Mapped(m).ok
      <3>1. MessageTraced(state.command_journal, m)
        BY <1>1 DEF IInv
      <3>2. CASE m.kind = "ack"
        <4>1. \E c : AckOf(m, c)
          BY <3>1, <3>2 DEF MessageTraced, SaidFirst, SaidConflict
        <4> QED BY <3>2, <4>1, AckMapped
      <3>3. CASE m.kind # "ack"
        <4>1. PICK j \in state.command_journal : m.kind = "report" /\ SaidReport(m, j)
          BY <3>1, <3>3 DEF MessageTraced
        <4>2. EntrySound(j)
          BY <1>1 DEF IInv, AgentInv, JournalTrace
        <4> QED BY <4>1, <4>2, ReportMapped
      <3> QED BY <3>2, <3>3
    <2> QED BY <2>1, <2>2 DEF TypeOK
  <1> QED BY <1>1, TraceInvariant, PTL

\* No journalled command is left without its ACK, no accepted one without its
\* report: queued or already on the wire (state.rs has_command_ack,
\* confirm_outbound).
THEOREM AllSaid == Spec => []NothingUnsaid
  <1>1. ASSUME IInv PROVE NothingUnsaid
    BY <1>1 DEF IInv, NothingUnsaid, SaidOf, EventsOf
  <1> QED BY <1>1, TraceInvariant, PTL

\* A trace that verifies is the trace of one rotation, whichever copies the
\* observer picks (verify_positive_trace).
THEOREM OneRotation == Spec => []VerifiedIsOneRotation
  <1>1. ASSUME IInv PROVE VerifiedIsOneRotation
    <2> SUFFICES ASSUME NEW a \in accepted, NEW ack \in SeenAcks, NEW after \in statuses,
                        NEW report \in SeenReports, NEW receipt \in receipts,
                        NEW final \in statuses,
                        verify_positive_trace(a, ack, after, report, receipt, final).ok
                 PROVE  \E c \in Commands :
                           /\ CommandData[c].generation = a.generation
                           /\ ack.command_id = CommandData[c].id
                           /\ report.event = ReportEvent(CommandData[c].id)
                           /\ report.digest = CommandData[c].digest
                           /\ receipt.event.cause[1] = report.event
      BY DEF VerifiedIsOneRotation
    <2>1. /\ ack.outcome = "Received" /\ ack.generation = a.generation
          /\ report.generation = a.generation
          /\ receipt.lineage = <<a.receipt, a.generation>>
      BY PositiveChecks DEF Correlated, Settled
    <2>2. PICK j \in state.command_journal :
             FirstSeen(ack, j) /\ j.acknowledgement.rejection = None
      BY <1>1, <2>1, ReceivedSeen
    <2>3. PICK k \in state.command_journal : ReportSeen(report, k)
      BY <1>1, ReportsSeen
    <2>4. PICK l \in Taken(state.command_journal) : ReceiptOf(receipt, l)
      BY <1>1 DEF IInv, ReceiptTraced
    <2>5. /\ DataOf(j).generation = a.generation /\ DataOf(k).generation = a.generation
          /\ DataOf(l).generation = a.generation
      BY <2>1, <2>2, <2>3, <2>4 DEF FirstSeen, ReportSeen, ReceiptOf
    <2>6. k = j
      BY <1>1, <2>2, <2>3, <2>5, OneEntry DEF ReportSeen
    <2>7. l = j
      BY <1>1, <2>2, <2>4, <2>5, OneEntry DEF Taken
    <2>8. j.fingerprint \in Commands /\ CommandData[j.fingerprint].id = j.command_id
      BY <1>1 DEF IInv, AgentInv, JournalTrace, EntrySound, Issued, DataOf
    <2>9. receipt.event.cause[1] = report.event
      BY <2>3, <2>4, <2>6, <2>7 DEF ReceiptOf, ReportSeen
    <2> QED BY <2>2, <2>3, <2>5, <2>6, <2>8, <2>9 DEF FirstSeen, ReportSeen, DataOf
  <1> QED BY <1>1, TraceInvariant, PTL

\* A status that reads Ready is of a generation that was reached, with the
\* condition the observer looks for.
LEMMA ReadyStatus ==
  ASSUME NEW J, NEW t, StatusTraced(J, t)
  PROVE  /\ has_ready_true(t) => /\ t.observed_generation = t.desired_generation
                                 /\ has_matching_ready(t)
         /\ t.active_command # None => ~has_ready_true(t)
  <1>1. PICK c \in t.conditions :
           /\ t.conditions = {c} /\ c.type = "Ready"
           /\ c.observed_generation = t.observed_generation
           /\ IF t.observed_generation = t.desired_generation
              THEN c.status = "True" /\ c.reason = "StateMatches"
              ELSE c.status = "False"
    BY DEF StatusTraced
  <1>2. has_ready_true(t) => t.observed_generation = t.desired_generation
    BY <1>1 DEF has_ready_true
  <1>3. has_ready_true(t) => has_matching_ready(t)
    BY <1>1, <1>2 DEF has_ready_true, has_matching_ready
  <1>4. t.active_command # None => t.observed_generation # t.desired_generation
    BY DEF StatusTraced
  <1> QED BY <1>2, <1>3, <1>4

\* Events of three kinds are three.
LEMMA ThreeEvents ==
  ASSUME NEW x, NEW y, NEW z,
         x.kind = "ack", y.kind = "report", z.kind = "receipt"
  PROVE  Cardinality({x, y, z}) = 3
  <1>1. x # y /\ x # z /\ y # z OBVIOUS
  <1>2. IsFiniteSet({z}) /\ Cardinality({z}) = 1
    BY FS_Singleton
  <1> DEFINE S == {z} \union {y}
             T == S \union {x}
  <1>3. y \notin {z} /\ x \notin S
    BY <1>1
  <1>4. IsFiniteSet(S) /\ Cardinality(S) = 2
    BY <1>2, <1>3, FS_AddElement
  <1>5. T = {x, y, z} OBVIOUS
  <1>6. Cardinality(T) = 3
    <2> HIDE DEF S
    <2>1. Cardinality(S \union {x}) = IF x \in S THEN Cardinality(S) ELSE Cardinality(S) + 1
      BY <1>4, FS_AddElement
    <2> QED BY <1>3, <1>4, <2>1
  <1> HIDE DEF T
  <1> QED BY <1>5, <1>6

\* The trace of one rotation verifies whichever copies the observer has
\* (state.rs accept, replay_command; verify_positive_trace).
THEOREM AnyCopyVerifies == Spec => []EveryCopyVerifies
  <1>1. ASSUME IInv PROVE EveryCopyVerifies
    <2> SUFFICES ASSUME NEW a \in accepted, NEW ack \in SeenAcks, NEW after \in statuses,
                        NEW report \in SeenReports, NEW receipt \in receipts,
                        NEW final \in statuses,
                        ack.outcome = "Received", receipt.outcome = "Committed",
                        {ack.generation, report.generation, receipt.lineage[2],
                         after.desired_generation, final.desired_generation}
                           = {a.generation},
                        after.active_command = [fence |-> ack.fence, state |-> "received"],
                        has_ready_true(final)
                 PROVE  verify_positive_trace(a, ack, after, report, receipt, final).ok
      BY ZenonT(60) DEF EveryCopyVerifies
    <2>1. /\ ack.generation = a.generation /\ report.generation = a.generation
          /\ receipt.lineage[2] = a.generation
          /\ after.desired_generation = a.generation
          /\ final.desired_generation = a.generation
      <3>1. \A x \in {ack.generation, report.generation, receipt.lineage[2],
                     after.desired_generation, final.desired_generation} :
               x = a.generation
        OBVIOUS
      <3> QED BY <3>1
    <2>2. PICK j \in state.command_journal :
             FirstSeen(ack, j) /\ j.acknowledgement.rejection = None
      BY <1>1, ReceivedSeen
    <2>3. PICK k \in state.command_journal : ReportSeen(report, k)
      BY <1>1, ReportsSeen
    <2>4. PICK l \in Taken(state.command_journal) : ReceiptOf(receipt, l)
      BY <1>1 DEF IInv, ReceiptTraced
    <2>5. k = j
      BY <1>1, <2>1, <2>2, <2>3, OneEntry DEF ReportSeen, FirstSeen
    <2>6. /\ StatusTraced(state.command_journal, after)
          /\ StatusTraced(state.command_journal, final)
          /\ AcceptedTraced(a) /\ receipt.coordinates = context.coordinates
      BY <1>1 DEF IInv, ReceiptTraced
    <2>7. after.active_command # None /\ after.active_command.fence = ack.fence
          /\ after.active_command.state = "received"
      <3>1. DataOf(j).fence \in Nat
        BY <1>1, CommandsAssumption
        DEF IInv, AgentInv, JournalTrace, EntrySound, Issued, DataOf
      <3>2. after.active_command \in [fence : Nat, state : {"queued", "published", "received"}]
        BY <2>2, <3>1 DEF FirstSeen
      <3> QED BY <3>2, TraceAssumption
    <2>8. ~has_ready_true(after) /\ has_matching_ready(final)
          /\ final.observed_generation = final.desired_generation
      BY <2>6, <2>7, ReadyStatus
    <2>9. a.receipt = Receipts[a.generation] /\ after.receipt = a.receipt
          /\ final.receipt = a.receipt
      BY <2>1, <2>6 DEF AcceptedTraced, StatusTraced
    <2>10. Correlated(a, ack, after, report, receipt)
      <3>1. {ack.coordinates, report.coordinates, receipt.coordinates} = {a.coordinates}
        <4>1. /\ ack.coordinates = context.coordinates
              /\ report.coordinates = context.coordinates
              /\ a.coordinates = context.coordinates
          BY <2>2, <2>3, <2>6 DEF FirstSeen, ReportSeen, AcceptedTraced
        <4> QED BY <2>6, <4>1
      <3>2. report.fence = ack.fence /\ report.sequence > ack.sequence
        BY <2>2, <2>3, <2>5 DEF FirstSeen, ReportSeen
      <3> QED BY <2>1, <2>7, <2>9, <3>1, <3>2 DEF Correlated
    <2>11. Settled(a, receipt, final)
      <3>1. receipt.lineage = <<Receipts[DataOf(l).generation], DataOf(l).generation>>
        BY <2>4 DEF ReceiptOf
      <3>2. DataOf(l).generation = a.generation
        BY <2>1, <3>1
      <3>3. receipt.lineage = <<a.receipt, a.generation>>
        BY <2>9, <3>1, <3>2
      <3> QED BY <2>1, <2>8, <2>9, <3>3 DEF Settled
    <2>12. Cardinality({ack.event, report.event, receipt.event}) = 3
      <3>1. ack.event.kind = "ack" /\ report.event.kind = "report"
            /\ receipt.event.kind = "receipt"
        BY <2>2, <2>3, <2>4 DEF FirstSeen, ReportSeen, ReceiptOf, AckEvent, ReportEvent
      <3> QED BY <3>1, ThreeEvents
    <2> QED BY <2>7, <2>8, <2>10, <2>11, <2>12, PositiveChecks
  <1> QED BY <1>1, TraceInvariant, PTL

\* A withdrawn generation does not advance (verify_revoked_no_advance).
THEOREM WithdrawnNoAdvance == Spec => []RevokedNoAdvance
  <1>1. ASSUME IInv PROVE RevokedNoAdvance
    <2> SUFFICES ASSUME NEW ack \in SeenAcks, NEW status \in statuses,
                        Withdrawn(ack.generation),
                        status.desired_generation = ack.generation
                 PROVE  verify_revoked_no_advance(ack, status).ok
      BY DEF RevokedNoAdvance
    <2>1. PICK j \in state.command_journal :
             FirstSeen(ack, j) \/ \E c \in Commands : ConflictSeen(ack, j, c)
      BY <1>1, AcksSeen
    <2>2. EntrySound(j) /\ j.fingerprint \in Commands
      BY <1>1 DEF IInv, AgentInv, JournalTrace, EntrySound, Issued
    <2>3. FirstSeen(ack, j)
      <3> SUFFICES ASSUME NEW c \in Commands, ConflictSeen(ack, j, c) PROVE FALSE
        BY <2>1
      <3>1. \A d \in Commands : CommandData[d].id = CommandData[c].id => d = c
        BY DEF Withdrawn, ConflictSeen
      <3>2. CommandData[j.fingerprint].id = CommandData[c].id /\ j.fingerprint # c
        BY <2>2 DEF ConflictSeen, EntrySound, DataOf
      <3> QED BY <2>2, <3>1, <3>2
    <2>4. DataOf(j).generation = ack.generation
      BY <2>3 DEF FirstSeen
    <2>5. j.fingerprint \in Revoked /\ DataOf(j).addressed
      BY <2>2, <2>4 DEF Withdrawn, DataOf
    <2>6. ack.outcome = "PolicyRejected"
      BY <2>2, <2>3, <2>5 DEF FirstSeen, EntrySound
    <2>7. StatusTraced(state.command_journal, status)
      BY <1>1 DEF IInv
    <2>8. /\ ack.generation \in InitialPosition.generation + 1 .. MaxGeneration
          /\ InitialPosition.generation \in Nat /\ MaxGeneration \in Nat
      BY <2>2, <2>4, TraceAssumption DEF EntrySound, Issued, DataOf
    <2>9. status.observed_generation # ack.generation
      <3> SUFFICES ASSUME status.observed_generation = ack.generation PROVE FALSE
        OBVIOUS
      <3>1. Reached(state.command_journal, ack.generation)
        BY <2>7 DEF StatusTraced
      <3>2. PICK k \in Taken(state.command_journal) :
               DataOf(k).generation = ack.generation
        BY <2>8, <3>1 DEF Reached
      <3>3. EntrySound(k) /\ k.acknowledgement.rejection = None
        BY <1>1 DEF IInv, AgentInv, JournalTrace, Taken
      <3>4. k.fingerprint \in Commands /\ k.fingerprint \notin Revoked
        BY <3>3 DEF EntrySound, Issued
      <3> QED BY <3>2, <3>4 DEF Withdrawn, DataOf
    <2>10. ~has_ready_true(status)
      BY <2>7, <2>9, ReadyStatus
    <2>11. ~(status.observed_generation >= ack.generation)
      BY <2>7, <2>8, <2>9 DEF StatusTraced
    <2> QED BY <2>6, <2>10, <2>11 DEF verify_revoked_no_advance, Ok, Err
  <1> QED BY <1>1, TraceInvariant, PTL

=============================================================================
