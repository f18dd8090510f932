-------------------------- MODULE AgentTopicProofs ---------------------------
(***************************************************************************)
(* AgentSession across a rotation, for every script of the server, every   *)
(* limit and any number of failures: a confirmed rotation leaves nothing   *)
(* of its old topic behind, and what can stop the process with an error.   *)
(***************************************************************************)
EXTENDS AgentSessionProofs

-----------------------------------------------------------------------------
(* What the broker still holds of an old topic. *)

\* The broker has taken the report of the rotation; it is still awaited.
Reported(s) ==
  \E k \in DOMAIN s.outbox :
     IsReport(s.outbox[k]) /\ ReportEvent(s.outbox[k].command_id) \in received

Awaited(s) == rotation_in_flight(s) /\ ~Reported(s)

Clean(topic) ==
  (\A m \in Held : m.topic = topic) /\ broker.subscriptions \subseteq {topic}

\* While a report is awaited, the server sends nothing; when the broker has it,
\* nothing of the old topic is left.
PhaseInv(s) ==
  /\ \A k \in DOMAIN s.outbox : IsReport(s.outbox[k]) =>
       /\ Journalled(s, s.outbox[k].command_id)
       /\ s.outbox[k].kind = "ReportBlocked" =>
            ReportEvent(s.outbox[k].command_id) \notin received
  /\ \A e \in received : e.kind = "report" => Journalled(s, e.cause)
  /\ rotation_in_flight(s) => s.pending_inbound.topic # s.credential_generation
  /\ IF Awaited(s)
     THEN /\ broker.queue = << >>
          /\ \E i \in 1 .. position : ~Answered(Script[i])
          /\ broker.subscriptions
               \subseteq {s.pending_inbound.topic, s.credential_generation}
     ELSE Clean(s.credential_generation)

\* The broker holds messages of the script; those ahead of another are answered.
OrderInv ==
  /\ \A m \in Held : \E i \in 1 .. position : m = Script[i]
  /\ \A i \in DOMAIN broker.queue :
        i < Len(broker.queue) => Answered(broker.queue[i])
  /\ broker.queue # << >> /\ broker.inflight # << >> => Answered(broker.inflight[1])

\* The session that has to publish an awaited report.
Recovering(x) ==
  Awaited(x.state) /\ x.driver.identity = x.state.credential_generation

\* The first UNSUBSCRIBE in the requests is for this topic.
Leaves(q, topic) ==
  \E i \in DOMAIN q : /\ q[i] = Unsubscribe(topic)
                      /\ \A j \in DOMAIN q : j < i => q[j].packet # "unsubscribe"

PubAckFirst(q) ==
  \A i, j \in DOMAIN q : q[i].packet = "publish" /\ q[j].packet = "puback" => j < i

\* The old topic is subscribed, or a delivery of it is on its way.
Hot(x, ib) ==
  \/ Has(ib, "command") \/ x.driver.held # << >>
  \/ x.state.pending_inbound.topic \in broker.subscriptions

\* Until the old topic is unsubscribed and the redelivery is answered, the session
\* that recovers waits for the UNSUBACK and publishes nothing.
RecoveryInv(x, ib) ==
  /\ PubAckFirst(x.requests)
  /\ Has(ib, "command") => ib[1].packet = "command"
  /\ Hot(x, ib) =>
       /\ unsubscribe_pending(x.driver)
       /\ ~Has(x.requests, "publish") /\ ~Has(x.requests, "subscribe")
       /\ ~Has(ib, "factack") /\ ~Has(ib, "suback")
  /\ x.state.pending_inbound.topic \in broker.subscriptions =>
       /\ ~Has(ib, "unsuback")
       /\ Leaves(x.requests, x.state.pending_inbound.topic)

TopicInv(x, ib) ==
  /\ x.driver.identity # x.state.credential_generation =>
       x.driver.identity = x.state.pending_inbound.topic
  /\ \A p \in ToSet(x.requests) : p.packet = "subscribe" => p.topic = x.driver.identity
  /\ ~x.driver.connected => \A p \in ToSet(ib) : p.packet \in {"connack", "command"}
  /\ Recovering(x) => /\ x.driver.recovery # None
                      /\ x.driver.recovery.topic = x.state.pending_inbound.topic
  /\ link = "up" =>
       /\ broker.inflight # << >> =>
            Has(ib, "command") \/ x.driver.held # << >> \/ Has(x.requests, "puback")
       /\ Recovering(x) /\ x.driver.connected => RecoveryInv(x, ib)

\* The message is the delivery that is pending.
Delivers(m, p) ==
  /\ m.topic = p.topic /\ m.id = p.command_id
  /\ m.content = p.fingerprint /\ m.content \in Commands

\* Every queued ACK is that of a journalled command.  While the report is awaited,
\* a command in flight is the pending delivery, and there is room for its answer.
PendingInv(s) ==
  /\ \A i \in DOMAIN s.outbox :
       IsAck(s.outbox[i]) => Journalled(s, s.outbox[i].command_id)
  /\ Awaited(s) =>
       /\ broker.inflight # << >> => Delivers(broker.inflight[1], s.pending_inbound)
       /\ has_command_ack(s, s.pending_inbound.command_id) \/ reserve_outbox(s, 1)

\* A PUBACK settles nothing, or the pending delivery.
Token(s, token) ==
  token # None =>
     /\ Awaited(s)
     /\ token = SettlementToken(s.pending_inbound.topic, s.pending_inbound.command_id,
                                s.pending_inbound.fingerprint)

\* The session that recovers takes the pending delivery, and every PUBACK that is
\* queued or held back is for the pending delivery or settles nothing.
ScopeInv(x) ==
  /\ Recovering(x) =>
       x.driver.recovery = [topic |-> x.state.pending_inbound.topic,
                            command_id |-> x.state.pending_inbound.command_id]
  /\ \A p \in ToSet(x.requests) : p.packet = "puback" => Token(x.state, p.token)
  /\ \A token \in ToSet(x.driver.held) : Token(x.state, token)

\* At most one outgoing PUBACK is to be polled.
SentInv(s, q) ==
  q # << >> => \E token \in Tokens \union {None} : q = <<token>> /\ Token(s, token)

\* The command in flight may stop the process.
Refused(s) ==
  /\ broker.inflight # << >>
  /\ \/ ~Numbers(s)
     \/ /\ broker.inflight[1].topic = s.credential_generation
        /\ \/ ~command_intake_open(s, 0)
           \/ rotation_in_flight(s) /\ ~Journalled(s, broker.inflight[1].id)

AnswerInv ==
  /\ PendingInv(state)
  /\ driver # None => ScopeInv(Here) /\ SentInv(state, sent)
  /\ process = "failed" => Refused(state)

NInv ==
  /\ IInv /\ OrderInv /\ PhaseInv(state)
  /\ driver # None => TopicInv(Here, inbox)
  /\ AnswerInv

-----------------------------------------------------------------------------
(* The agent's operations, with regard to the old topic. *)

SameDelivery(p, q) ==
  q.topic = p.topic /\ q.command_id = p.command_id /\ q.fingerprint = p.fingerprint

\* The credential stays, and a rotation goes on, or ends after its report.
Stays(s, t) ==
  /\ t.credential_generation = s.credential_generation
  /\ s.command_journal \subseteq t.command_journal
  /\ \A k \in DOMAIN t.outbox : IsReport(t.outbox[k]) =>
       \E l \in DOMAIN s.outbox :
          /\ IsReport(s.outbox[l])
          /\ s.outbox[l].command_id = t.outbox[k].command_id
          /\ t.outbox[k].kind = "ReportBlocked" => s.outbox[l].kind = "ReportBlocked"
  /\ rotation_in_flight(t) => SameDelivery(s.pending_inbound, t.pending_inbound)
  /\ rotation_in_flight(s) /\ ~rotation_in_flight(t) => Reported(s)

\* No ACK is queued; one that goes makes room.
Drains(s, t) ==
  /\ \A i \in DOMAIN t.outbox : IsAck(t.outbox[i]) =>
       \E j \in DOMAIN s.outbox : t.outbox[i] = s.outbox[j]
  /\ Len(t.outbox) <= Len(s.outbox)
  /\ Len(t.outbox) = Len(s.outbox) =>
       \A j \in DOMAIN s.outbox : IsAck(s.outbox[j]) =>
          \E i \in DOMAIN t.outbox : t.outbox[i] = s.outbox[j]

GoesOn(s, t) == Stays(s, t) /\ Drains(s, t)

\* Nothing happens.
LEMMA SameGoesOn ==
  ASSUME NEW s \in States
  PROVE  GoesOn(s, s)
  <1>1. Stays(s, s)
    BY DEF Stays, SameDelivery
  <1>2. Len(s.outbox) \in Nat
    BY DEF States
  <1> QED BY <1>1, <1>2 DEF GoesOn, Drains

\* Such an operation keeps the phase.
LEMMA StaysPhase ==
  ASSUME NEW s, AgentInv(s), PhaseInv(s), NEW t, Stays(s, t)
  PROVE  /\ PhaseInv(t) /\ (Awaited(t) <=> Awaited(s))
         /\ Awaited(t) => t.pending_inbound.topic = s.pending_inbound.topic
         /\ Awaited(t) => SameDelivery(s.pending_inbound, t.pending_inbound)
         /\ t.credential_generation = s.credential_generation
  <1>1. \A k, l \in DOMAIN s.outbox :
           IsReport(s.outbox[k]) /\ IsReport(s.outbox[l]) => k = l
    BY DEF AgentInv, verify, AtMostOneReport
  <1>2. rotation_in_flight(t) => rotation_in_flight(s)
    BY DEF Stays, rotation_in_flight
  <1>3. rotation_in_flight(t) => (Reported(t) <=> Reported(s))
    BY <1>1 DEF Stays, rotation_in_flight, Reported
  <1>4. Awaited(t) <=> Awaited(s)
    BY <1>2, <1>3 DEF Stays, Awaited
  <1>5. /\ Awaited(t) => SameDelivery(s.pending_inbound, t.pending_inbound)
        /\ rotation_in_flight(t) => t.pending_inbound.topic = s.pending_inbound.topic
        /\ Awaited(t) => rotation_in_flight(t)
    BY DEF Awaited, Stays, SameDelivery
  <1>6. /\ \A k \in DOMAIN t.outbox : IsReport(t.outbox[k]) =>
             /\ Journalled(t, t.outbox[k].command_id)
             /\ t.outbox[k].kind = "ReportBlocked" =>
                  ReportEvent(t.outbox[k].command_id) \notin received
    BY DEF Stays, PhaseInv, Journalled
  <1>7. \A e \in received : e.kind = "report" => Journalled(t, e.cause)
    BY DEF Stays, PhaseInv, Journalled
  <1>8. rotation_in_flight(t) => t.pending_inbound.topic # t.credential_generation
    BY <1>2, <1>5 DEF Stays, PhaseInv
  <1> QED BY <1>4, <1>5, <1>6, <1>7, <1>8 DEF PhaseInv, Stays

\* It keeps the delivery pending, and every PUBACK that settles it.
LEMMA GoesOnPending ==
  ASSUME NEW s, AgentInv(s), PhaseInv(s), PendingInv(s), NEW t \in States, GoesOn(s, t)
  PROVE  PendingInv(t)
  <1>1. /\ Awaited(t) <=> Awaited(s)
        /\ Awaited(t) => SameDelivery(s.pending_inbound, t.pending_inbound)
    BY StaysPhase DEF GoesOn
  <1>2. /\ Len(s.outbox) \in Nat /\ Len(t.outbox) \in Nat /\ Len(s.outbox) <= OutboxLimit
        /\ OutboxLimit \in Nat
    BY LimitsAssumption DEF AgentInv, States, verify, WithinLimits
  <1>3. \A i \in DOMAIN t.outbox :
          IsAck(t.outbox[i]) => Journalled(t, t.outbox[i].command_id)
    BY DEF GoesOn, Drains, Stays, PendingInv, Journalled
  <1>4. ASSUME Awaited(t), broker.inflight # << >>
        PROVE  Delivers(broker.inflight[1], t.pending_inbound)
    BY <1>1, <1>4 DEF PendingInv, Delivers, SameDelivery
  <1>5. ASSUME Awaited(t)
        PROVE  has_command_ack(t, t.pending_inbound.command_id) \/ reserve_outbox(t, 1)
    <2>1. PICK id : id = s.pending_inbound.command_id /\ id = t.pending_inbound.command_id
      BY <1>1, <1>5 DEF SameDelivery
    <2>2. has_command_ack(s, id) \/ reserve_outbox(s, 1)
      BY <1>1, <1>5, <2>1 DEF PendingInv
    <2>3. CASE Len(t.outbox) < Len(s.outbox)
      BY <1>2, <2>3 DEF reserve_outbox
    <2>4. CASE Len(t.outbox) = Len(s.outbox)
      BY <2>1, <2>2, <2>4 DEF GoesOn, Drains, has_command_ack, reserve_outbox
    <2> QED BY <1>2, <2>3, <2>4 DEF GoesOn, Drains
  <1> QED BY <1>3, <1>4, <1>5 DEF PendingInv

\* A PUBACK still settles the pending delivery, if any.
LEMMA StaysToken ==
  ASSUME NEW s, AgentInv(s), PhaseInv(s), NEW t, Stays(s, t), NEW token, Token(s, token)
  PROVE  Token(t, token)
  <1>1. /\ Awaited(t) <=> Awaited(s)
        /\ Awaited(t) => SameDelivery(s.pending_inbound, t.pending_inbound)
    BY StaysPhase
  <1> QED BY <1>1 DEF Token, SameDelivery

\* Nothing happens, or an ACK is queued.
LEMMA AnswersStays ==
  ASSUME NEW s \in States, NEW e, NEW id, Answers(s, e, id),
         e.state.credential_generation = s.credential_generation
  PROVE  Stays(s, e.state)
  <1>1. CASE e.state = s
    BY <1>1 DEF Stays, SameDelivery
  <1>2. ASSUME NEW ack \in Acks, Queues(s, e.state, ack)
        PROVE  Stays(s, e.state)
    <2>1. s.outbox \in Seq(Facts) /\ ack \in Facts /\ ~IsReport(ack)
      BY DEF States, Facts, Acks, IsReport
    <2>2. PICK t : t = e.state
      OBVIOUS
    <2>3. /\ DOMAIN t.outbox = DOMAIN s.outbox \union {Len(s.outbox) + 1}
          /\ \A i \in DOMAIN s.outbox : t.outbox[i] = s.outbox[i]
          /\ t.outbox[Len(s.outbox) + 1] = ack
          /\ t.pending_inbound = s.pending_inbound
      BY <1>2, <2>1, <2>2, OneMore DEF Queues
    <2>4. rotation_in_flight(s) => rotation_in_flight(t)
      BY <2>3 DEF rotation_in_flight
    <2> QED BY <2>1, <2>2, <2>3, <2>4 DEF Stays, Answers, SameDelivery
  <1> QED BY <1>1, <1>2 DEF Answers

\* A fact the broker has taken is confirmed.
LEMMA ConfirmStays ==
  ASSUME NEW s, AgentInv(s), NEW event, event \in received,
         NEW t, t = ConfirmOutbound(s, event).state
  PROVE  GoesOn(s, t)
  <1>1. s \in States /\ verify(s)
    BY DEF AgentInv
  <1>2. CASE t = s
    BY <1>1, <1>2, SameGoesOn
  <1>3. CASE t # s
    <2> DEFINE matching == {i \in DOMAIN s.outbox : s.outbox[i].event = event}
               index == CHOOSE i \in matching : TRUE
    <2>1. /\ matching # {} /\ verify(confirm_outbound(s, index))
          /\ t = confirm_outbound(s, index)
      BY <1>3 DEF ConfirmOutbound, persist_candidate, Effect
    <2>2. PICK i \in DOMAIN s.outbox :
             /\ s.outbox[i].event = event /\ t = confirm_outbound(s, i) /\ verify(t)
      BY <2>1
    <2>3. /\ Confirmed(s, i, t)
          /\ t.credential_generation = s.credential_generation
      BY <1>1, <2>2, ConfirmType, ConfirmFacts
    <2>4. /\ \A j \in DOMAIN t.outbox : \E k \in DOMAIN s.outbox :
                k # i /\ t.outbox[j] = s.outbox[k]
          /\ \A k \in DOMAIN s.outbox : k # i =>
                \E j \in DOMAIN t.outbox : t.outbox[j] = s.outbox[k]
      <3>1. t.outbox = RemoveAt(s.outbox, i) BY <2>3 DEF Confirmed
      <3>2. i \in DOMAIN s.outbox BY <2>2
      <3> HIDE <2>2
      <3> QED BY <1>1, <3>1, <3>2, RemovedEntries
    <2>5. rotation_in_flight(t) => t.pending_inbound = s.pending_inbound
      <3>1. rotation_in_flight(t) => s.outbox[i].kind # "ReportReady"
        BY <1>1, <2>4 DEF rotation_in_flight, verify, AtMostOneReport, IsReport
      <3>2. s.outbox[i].kind # "ReportReady" => t.pending_inbound = s.pending_inbound
        BY <2>3 DEF Confirmed
      <3> QED BY <3>1, <3>2
    <2>6. ASSUME rotation_in_flight(s), ~rotation_in_flight(t)
          PROVE  Reported(s)
      <3>1. IsReport(s.outbox[i])
        BY <2>4, <2>6 DEF rotation_in_flight
      <3>2. event = ReportEvent(s.outbox[i].command_id)
        BY <1>1, <2>2, <3>1 DEF verify, OutboxEntriesValid, EntrySemanticValid, IsReport, IsAck
      <3> QED BY <3>1, <3>2 DEF Reported
    <2>7. t.command_journal = s.command_journal
      BY <2>3 DEF Confirmed
    <2>8. Stays(s, t)
      BY <2>3, <2>4, <2>5, <2>6, <2>7 DEF Stays, SameDelivery
    <2>9. Len(t.outbox) = Len(s.outbox) - 1 /\ Len(s.outbox) \in Nat
      BY <1>1, <2>2, <2>3, RemovedIndices DEF Confirmed, RemovedFrom
    <2> QED BY <2>4, <2>8, <2>9 DEF GoesOn, Drains
  <1> QED BY <1>2, <1>3

\* The report is readied.
LEMMA ReconnectStays ==
  ASSUME NEW s, AgentInv(s), NEW revision,
         NEW t, t = mark_current_credential_connected(s, revision).state
  PROVE  GoesOn(s, t)
  <1>1. s \in States
    BY DEF AgentInv
  <1>2. PICK u : u = mark_reconnected(s)
    OBVIOUS
  <1>3. t = s \/ t = u
    BY <1>2 DEF mark_current_credential_connected, persist_candidate, Effect
  <1>4. GoesOn(s, s)
    BY <1>1, SameGoesOn
  <1>5. u.credential_generation = s.credential_generation /\ Reconnected(s, u)
    BY <1>1, <1>2, ReconnectedExtends, ReconnectFacts DEF Extends
  <1>6. Stays(s, u)
    BY <1>5 DEF Stays, Reconnected, rotation_in_flight, IsReport, SameDelivery
  <1>7. Drains(s, u)
    <2>1. Len(s.outbox) \in Nat BY <1>1 DEF States
    <2> QED BY <1>5, <2>1 DEF Drains, Reconnected, IsAck
  <1> QED BY <1>3, <1>4, <1>6, <1>7 DEF GoesOn

\* The delivery is settled.
LEMMA SettleStays ==
  ASSUME NEW s, AgentInv(s), NEW token,
         NEW t, t = persist_inbound_settlement(s, token).state
  PROVE  GoesOn(s, t)
  <1>1. s \in States
    BY DEF AgentInv
  <1>2. PICK u : u = mark_inbound_settled(s)
    OBVIOUS
  <1>3. t = s \/ (t = u /\ s.pending_inbound # None)
    BY <1>2 DEF persist_inbound_settlement, persist_candidate, Effect
  <1>4. GoesOn(s, s)
    BY <1>1, SameGoesOn
  <1>5. ASSUME s.pending_inbound # None
        PROVE  GoesOn(s, u)
    <2>1. u.credential_generation = s.credential_generation /\ IsSettled(s, u)
      BY <1>1, <1>2, <1>5, SettledExtends, SettleFacts DEF Extends
    <2>2. Stays(s, u)
      BY <2>1 DEF Stays, IsSettled, rotation_in_flight, SameDelivery
    <2>3. Drains(s, u)
      BY <1>4, <2>1 DEF GoesOn, Drains, IsSettled
    <2> QED BY <2>2, <2>3 DEF GoesOn
  <1> QED BY <1>3, <1>4, <1>5

\* A commit takes the new credential; the old topic is the one it came in on.
LEMMA CommitFields ==
  ASSUME NEW s \in States, NEW c \in Commands, NEW t, t = Commit(s, c, 0).state, t # s
  PROVE  /\ t.credential_generation = CommandData[c].credential_generation
         /\ t.pending_inbound.topic = s.credential_generation
         /\ t.pending_inbound.command_id = CommandData[c].id
         /\ t.pending_inbound.fingerprint = c
  <1>1. PICK k : k = expire_command_journal(s, 0)
    OBVIOUS
  <1>2. k \in States /\ k.credential_generation = s.credential_generation
    BY <1>1, ExpireFacts
  <1>3. PICK id, next, g, date :
           /\ id = CommandData[c].id /\ next = NextPosition(s, c)
           /\ g = CommandData[c].credential_generation /\ date = retention_deadline(0)
    OBVIOUS
  <1>4. t = accept(k, id, c, next, g, date)
    BY <1>1, <1>3 DEF Commit, persist_candidate, Effect, command_fingerprint
  <1>5. PICK pending : pending = [topic |-> k.credential_generation, command_id |-> id,
                                  fingerprint |-> c, settled |-> FALSE]
    OBVIOUS
  <1> DEFINE number == SaturatingSucc(k.device_sequence)
             ack == Ack(AckEvent(id), id, number, None, next.revision, FALSE)
  <1>51. PICK n, j, q :
           /\ n = SaturatingSucc(number)
           /\ j = k.command_journal \union {StoredCommand(id, c, ack, date)}
           /\ q = Append(Append(k.outbox, ack), ReportBlocked(id, n, next))
    OBVIOUS
  <1>6. t = [k EXCEPT !.credential_generation = g, !.current = next,
                      !.device_sequence = n, !.command_journal = j,
                      !.pending_inbound = pending, !.outbox = q]
    BY <1>4, <1>5, <1>51 DEF accept
  <1>7. t.credential_generation = g /\ t.pending_inbound = pending
    BY <1>2, <1>6 DEF States
  <1> QED BY <1>2, <1>3, <1>5, <1>7

\* An accepted command names a newer credential.
LEMMA AcceptsNewer ==
  ASSUME NEW s \in States, NEW topic, NEW c \in Commands,
         Rejection(s, topic, c, "Resolved", 0) = None
  PROVE  CommandData[c].credential_generation # s.credential_generation
  <1>1. /\ s.credential_generation \in Nat
        /\ CommandData[c].credential_generation \in Nat
    BY CommandsAssumption DEF States
  <1>2. \A r \in Rejections : r # None
    BY CommandsAssumption
  <1>3. /\ "MalformedCommand" # None /\ "PolicyRejected" # None
        /\ "FenceEpochStale" # None /\ "GenerationStale" # None
    BY <1>2 DEF Rejections
  <1>4. ~(CommandData[c].credential_generation <= s.credential_generation)
    BY <1>3 DEF Rejection
  <1> QED BY <1>1, <1>4

\* When a rotation begins, nothing else is on its way.
LEMMA CommitPhase ==
  ASSUME NEW s, AgentInv(s), PhaseInv(s), OrderInv, NEW m \in Messages,
         broker.inflight = <<m>>, m.content \in Commands,
         Commits(s, m.topic, m.content, "Resolved", 0),
         NEW t, t = Commit(s, m.content, 0).state, t # s
  PROVE  /\ PhaseInv(t) /\ (PendingInv(s) => PendingInv(t))
         /\ t.credential_generation # s.credential_generation
         /\ t.pending_inbound.topic = s.credential_generation
  <1>1. PICK c \in Commands : c = m.content
    OBVIOUS
  <1>2. PICK id : id = CommandData[c].id
    OBVIOUS
  <1>3. m.id = id
    BY <1>1, <1>2, MessageFacts
  <1>4. s \in States /\ verify(s) /\ ~rotation_in_flight(s)
    BY DEF AgentInv, Commits
  <1>5. /\ t.credential_generation # s.credential_generation
        /\ t.pending_inbound.topic = s.credential_generation
        /\ t.pending_inbound.command_id = id /\ t.pending_inbound.fingerprint = c
    <2>1. Rejection(s, m.topic, c, "Resolved", 0) = None
      BY <1>1 DEF Commits
    <2>2. CommandData[c].credential_generation # s.credential_generation
      BY <1>4, <2>1, AcceptsNewer
    <2>3. t = Commit(s, c, 0).state
      BY <1>1
    <2> QED BY <1>2, <1>4, <2>2, <2>3, CommitFields
  <1>6. PICK u, k : \E ack \in Acks, report \in Reports, pending \in PendingInbound :
           AcceptedCandidate(s, c, 0, u, k, ack, report, pending)
    BY <1>4, CommitCandidate
  <1>7. PICK ack \in Acks, report \in Reports, pending \in PendingInbound :
           AcceptedCandidate(s, c, 0, u, k, ack, report, pending)
    BY <1>6
  <1>8. /\ Commit(s, c, 0) = persist_candidate(s, u, "Accepted")
        /\ k = expire_command_journal(s, 0)
        /\ Accepted(k, id, c, NextPosition(s, c), retention_deadline(0), u, ack, report,
                    pending)
    BY <1>2, <1>7 DEF AcceptedCandidate
  <1>9. t = u
    BY <1>1, <1>8 DEF persist_candidate, Effect
  <1>10. k.outbox = s.outbox /\ k.command_journal = s.command_journal
    BY <1>4, <1>8, NothingExpires
  <1>11. /\ t.outbox = Append(Append(s.outbox, ack), report)
         /\ report.kind = "ReportBlocked" /\ report.command_id = id
         /\ ack.kind = "Ack" /\ ack.command_id = id
         /\ t.command_journal = s.command_journal
              \union {StoredCommand(id, c, ack, retention_deadline(0))}
    BY <1>8, <1>9, <1>10 DEF Accepted, Acks
  <1>12. s.command_journal \subseteq t.command_journal /\ Journalled(t, id)
    <2>1. StoredCommand(id, c, ack, retention_deadline(0)).command_id = id
      BY DEF StoredCommand
    <2> QED BY <1>11, <2>1 DEF Journalled
  <1>13. s.outbox \in Seq(Facts) /\ ack \in Facts /\ report \in Facts /\ ~IsReport(ack)
    BY <1>4 DEF States, Facts, Acks, IsReport
  <1>14. PICK v : v = Append(s.outbox, ack)
    OBVIOUS
  <1>15. /\ v \in Seq(Facts)
         /\ DOMAIN v = DOMAIN s.outbox \union {Len(s.outbox) + 1}
         /\ \A i \in DOMAIN s.outbox : v[i] = s.outbox[i]
         /\ v[Len(s.outbox) + 1] = ack
    BY <1>13, <1>14, OneMore
  <1>16. /\ DOMAIN t.outbox = DOMAIN v \union {Len(v) + 1}
         /\ \A i \in DOMAIN v : t.outbox[i] = v[i]
         /\ t.outbox[Len(v) + 1] = report
    BY <1>11, <1>13, <1>14, <1>15, OneMore
  <1>17. /\ \A i \in DOMAIN t.outbox : IsReport(t.outbox[i]) => t.outbox[i] = report
         /\ \E i \in DOMAIN t.outbox : t.outbox[i] = report
    BY <1>4, <1>13, <1>15, <1>16 DEF rotation_in_flight
  <1>18. ReportEvent(id) \notin received
    <2>1. command_match(s, id, c, 0) = "unknown"
      BY <1>1, <1>2 DEF Commits, command_fingerprint
    <2>2. LiveEntries(s, id, 0) = {}
      BY <2>1 DEF command_match
    <2>3. ~Journalled(s, id)
      BY <1>4, <2>2 DEF LiveEntries, Journalled, verify, JournalValid
    <2>4. ReportEvent(id).kind = "report" /\ ReportEvent(id).cause = id
      BY DEF ReportEvent
    <2> QED BY <2>3, <2>4 DEF PhaseInv
  <1>19. Awaited(t)
    BY <1>11, <1>17, <1>18 DEF Awaited, Reported, rotation_in_flight, IsReport
  <1>20. ~Answered(m)
    BY <1>3, <1>18 DEF Answered
  <1>21. broker.queue = << >> /\ m \in Held
    <2>1. broker.inflight # << >> /\ broker.inflight[1] = m /\ 1 \in DOMAIN broker.inflight
      OBVIOUS
    <2> QED BY <1>20, <2>1 DEF OrderInv, Held
  <1>22. \E i \in 1 .. position : ~Answered(Script[i])
    BY <1>20, <1>21 DEF OrderInv
  <1>23. broker.subscriptions \subseteq {s.credential_generation}
    BY <1>4 DEF PhaseInv, Awaited, Clean
  <1>24. \A k2 \in DOMAIN t.outbox : IsReport(t.outbox[k2]) =>
             /\ Journalled(t, t.outbox[k2].command_id)
             /\ t.outbox[k2].kind = "ReportBlocked" =>
                  ReportEvent(t.outbox[k2].command_id) \notin received
    BY <1>11, <1>12, <1>17, <1>18
  <1>25. \A e \in received : e.kind = "report" => Journalled(t, e.cause)
    BY <1>12 DEF PhaseInv, Journalled
  <1>26. PhaseInv(t)
    BY <1>5, <1>19, <1>21, <1>22, <1>23, <1>24, <1>25 DEF PhaseInv
  <1>27. ASSUME PendingInv(s)
         PROVE  PendingInv(t)
    <2>1. \A i \in DOMAIN t.outbox :
            \/ i \in DOMAIN s.outbox /\ t.outbox[i] = s.outbox[i]
            \/ t.outbox[i] \in {ack, report}
      BY <1>15, <1>16
    <2>2. \A i \in DOMAIN t.outbox :
            IsAck(t.outbox[i]) => Journalled(t, t.outbox[i].command_id)
      BY <1>11, <1>12, <1>27, <2>1 DEF PendingInv, Journalled
    <2>3. has_command_ack(t, id)
      <3>1. Len(s.outbox) + 1 \in DOMAIN t.outbox /\ t.outbox[Len(s.outbox) + 1] = ack
        BY <1>15, <1>16
      <3> QED BY <1>11, <3>1 DEF has_command_ack, IsAck
    <2>4. m.topic = s.credential_generation
      BY <1>4, <1>21 DEF PhaseInv, Awaited, Clean
    <2>5. broker.inflight[1] = m
      OBVIOUS
    <2> QED BY <1>1, <1>3, <1>5, <2>2, <2>3, <2>4, <2>5 DEF PendingInv, Delivers
  <1> QED BY <1>5, <1>26, <1>27

\* An answer short of the commit keeps the delivery pending.
LEMMA AnswersPending ==
  ASSUME NEW s, AgentInv(s), PhaseInv(s), PendingInv(s), NEW e, NEW id,
         Answers(s, e, id), Stays(s, e.state),
         Awaited(s) => id = s.pending_inbound.command_id
  PROVE  PendingInv(e.state)
  <1>1. CASE e.state = s
    BY <1>1
  <1>2. CASE e.state # s
    <2>1. PICK t : t = e.state
      OBVIOUS
    <2>2. PICK ack \in Acks : Queues(s, t, ack) /\ ack.command_id = id
      BY <1>2, <2>1 DEF Answers
    <2>3. s.outbox \in Seq(Facts) /\ ack \in Facts /\ IsAck(ack)
      BY DEF AgentInv, States, Facts, Acks, IsAck
    <2>4. /\ DOMAIN t.outbox = DOMAIN s.outbox \union {Len(s.outbox) + 1}
          /\ \A i \in DOMAIN s.outbox : t.outbox[i] = s.outbox[i]
          /\ t.outbox[Len(s.outbox) + 1] = ack
      BY <2>2, <2>3, OneMore DEF Queues
    <2>5. s.command_journal \subseteq t.command_journal /\ Journalled(t, id)
      BY <1>2, <2>1 DEF Answers
    <2>6. \A i \in DOMAIN t.outbox :
            IsAck(t.outbox[i]) => Journalled(t, t.outbox[i].command_id)
      BY <2>2, <2>4, <2>5 DEF PendingInv, Journalled
    <2>7. has_command_ack(t, id)
      BY <2>2, <2>3, <2>4 DEF has_command_ack
    <2>8. /\ Awaited(t) <=> Awaited(s)
          /\ Awaited(t) => SameDelivery(s.pending_inbound, t.pending_inbound)
      BY <2>1, StaysPhase
    <2>9. PendingInv(t)
      BY <2>6, <2>7, <2>8 DEF PendingInv, SameDelivery, Delivers
    <2> QED BY <2>1, <2>9
  <1> QED BY <1>1, <1>2

\* Every answer to a delivery (main.rs on_command).
LEMMA DispositionPhase ==
  ASSUME NEW s, AgentInv(s), PhaseInv(s), PendingInv(s), OrderInv, NEW m \in Messages,
         broker.inflight = <<m>>, NEW e, e = Disposition(s, m)
  PROVE  /\ PhaseInv(e.state) /\ PendingInv(e.state)
         /\ ~Stays(s, e.state) =>
              /\ ~rotation_in_flight(s)
              /\ e.state.credential_generation # s.credential_generation
              /\ e.state.pending_inbound.topic = s.credential_generation
  <1>1. s \in States /\ verify(s) /\ Consistent(s) /\ 0 \in Nat
    BY DEF AgentInv
  <1>2. ASSUME Answers(s, e, m.id), Handles(s, e.state)
        PROVE  Stays(s, e.state) /\ PendingInv(e.state)
    <2>1. Stays(s, e.state)
      BY <1>1, <1>2, AnswersStays DEF Handles, Extends
    <2>2. broker.inflight # << >> /\ broker.inflight[1] = m
      OBVIOUS
    <2>3. Awaited(s) => m.id = s.pending_inbound.command_id
      BY <2>2 DEF PendingInv, Delivers
    <2> QED BY <1>2, <2>1, <2>3, AnswersPending
  <1>3. Stays(s, e.state) => PhaseInv(e.state)
    BY StaysPhase
  <1>4. CASE m.content \notin Commands
    <2>1. m.content \in Malformed /\ m.topic \in Nat /\ m.id \in CommandIds
      BY <1>4, MessageFacts
    <2>2. e = reject_malformed_delivery(s, m.topic, m.id, m.content, 0)
      BY <1>4 DEF Disposition, ClockNow
    <2>3. Answers(s, e, m.id) /\ Handles(s, e.state)
      BY <1>1, <2>1, <2>2, DeliveryAnswers, RejectMalformedHandles
    <2> QED BY <1>2, <1>3, <2>3
  <1>5. CASE m.content \in Commands
    <2>1. m.topic \in Nat /\ CommandData[m.content].id = m.id
      BY <1>5, MessageFacts
    <2>2. CASE Commits(s, m.topic, m.content, "Resolved", 0) /\ CommitReserves(s, 0)
      <3>1. e = Commit(s, m.content, 0) /\ ~rotation_in_flight(s)
        BY <1>5, <2>2 DEF Disposition, ClockNow, Commits
      <3>2. CASE e.state = s
        BY <3>2 DEF Stays, SameDelivery
      <3>3. CASE e.state # s
        BY <1>5, <2>2, <3>1, <3>3, CommitPhase
      <3> QED BY <3>2, <3>3
    <2>3. CASE ~(Commits(s, m.topic, m.content, "Resolved", 0) /\ CommitReserves(s, 0))
      <3>1. e = ApplyWithoutCommit(s, m.topic, m.content, "Resolved", 0)
        BY <1>5, <2>3 DEF Disposition, ClockNow
      <3>2. "Resolved" \in CatalogReplies BY DEF CatalogReplies
      <3>3. Answers(s, e, m.id) /\ Handles(s, e.state)
        BY <1>1, <1>5, <2>1, <3>1, <3>2, DeliveryAnswers, ApplyHandles
      <3> QED BY <1>2, <1>3, <3>3
    <2> QED BY <2>2, <2>3
  <1> QED BY <1>4, <1>5

\* A command the journal does not match has left no trace.
LEMMA NoTrace ==
  ASSUME NEW s, AgentInv(s), PhaseInv(s), PendingInv(s), NEW id, NEW f,
         command_match(s, id, f, 0) = "unknown"
  PROVE  ~Journalled(s, id) /\ Unknown(s, id, 0)
  <1>1. s \in States /\ verify(s)
    BY DEF AgentInv
  <1>2. LiveEntries(s, id, 0) = {}
    BY DEF command_match
  <1>3. ~Journalled(s, id)
    BY <1>1, <1>2 DEF LiveEntries, Journalled, verify, JournalValid
  <1>4. ~IsPendingCommand(s, id)
    BY <1>1, <1>3 DEF IsPendingCommand, verify, PendingJournalled, Journalled
  <1>5. ASSUME NEW i \in DOMAIN s.outbox,
               s.outbox[i].event \in {AckEvent(id), ReportEvent(id)}
        PROVE  FALSE
    <2>1. s.outbox \in Seq(Facts)
      BY <1>1 DEF States, Facts
    <2>2. IsAck(s.outbox[i]) \/ IsReport(s.outbox[i])
      BY <2>1 DEF Facts, Acks, Reports, IsAck, IsReport
    <2>3. EntrySemanticValid(s.outbox[i])
      BY <1>1 DEF verify, OutboxEntriesValid
    <2>4. s.outbox[i].event.kind \in {"ack", "report"} /\ s.outbox[i].event.cause = id
      BY <1>5 DEF AckEvent, ReportEvent
    <2>5. s.outbox[i].command_id = id
      BY <2>3, <2>4 DEF EntrySemanticValid, AckEvent, ReportEvent
    <2> QED BY <1>3, <2>2, <2>5 DEF PendingInv, PhaseInv
  <1> QED BY <1>2, <1>3, <1>4, <1>5 DEF Unknown

\* An error of a branch changes nothing.
FailsClean(s, e) ==
  e.result \in AgentErrors =>
     e.state = s /\ e.result \in {"InvalidState", "OutboxFull", "CommandJournalFull"}

\* An exact replay, a conflicting replay and a rejection fail in that way.
LEMMA BranchErrors ==
  ASSUME NEW s, NEW id, NEW f, NEW r \in Rejections, NEW date
  PROVE  /\ FailsClean(s, ExactReplay(s, id, f)) /\ FailsClean(s, ConflictingReplay(s, id, f))
         /\ FailsClean(s, PersistRejection(s, id, f, r, date))
  <1> DEFINE Kept(e) == FailsClean(s, e)
  <1>1. r \notin AgentErrors
    BY DEF Rejections, AgentErrors
  <1>2. \A u : Kept(persist_candidate(s, u, r)) /\ Kept(persist_candidate(s, u, "Duplicate"))
              /\ Kept(persist_candidate(s, u, "MalformedCommand"))
    BY <1>1 DEF persist_candidate, Effect, AgentErrors, FailsClean
  <1>3. /\ Kept(Effect(s, "Duplicate")) /\ Kept(Effect(s, "MalformedCommand"))
        /\ Kept(Effect(s, "OutboxFull")) /\ Kept(Effect(s, "CommandJournalFull"))
    BY DEF Effect, AgentErrors, FailsClean
  <1> HIDE DEF Kept
  <1>4. Kept(ExactReplay(s, id, f))
    BY <1>2, <1>3 DEF ExactReplay
  <1>5. Kept(ConflictingReplay(s, id, f))
    BY <1>2, <1>3 DEF ConflictingReplay
  <1>6. Kept(PersistRejection(s, id, f, r, date))
    BY <1>2, <1>3 DEF PersistRejection
  <1> QED BY <1>4, <1>5, <1>6 DEF Kept

\* The errors of apply_command, short of the commit.
LEMMA ApplyErrors ==
  ASSUME NEW s, NEW topic, NEW c, NEW resolved \in CatalogReplies, NEW date,
         NEW e, e = ApplyWithoutCommit(s, topic, c, resolved, date),
         e.result \in AgentErrors
  PROVE  /\ e.state = s
         /\ e.result \in {"InvalidState", "OutboxFull", "CommandJournalFull",
                          "RotationInFlight"}
         /\ e.result = "RotationInFlight" =>
              /\ rotation_in_flight(s)
              /\ command_match(s, CommandData[c].id, c, date) = "unknown"
  <1> DEFINE id == CommandData[c].id
             match == command_match(s, id, c, date)
             r == Rejection(s, topic, c, resolved, date)
  <1>1. match \in {"same", "different", "unknown"} /\ "DeviceFailure" \in Rejections
    BY DEF command_match, Rejections
  <1>2. r \in Rejections \union {None}
    BY RejectionType
  <1> HIDE DEF id, match, r
  <1>3. CASE match = "same"
    <2>1. e = ExactReplay(s, id, c)
      BY <1>3 DEF ApplyWithoutCommit, command_fingerprint, match, id, Commits
    <2>2. FailsClean(s, e) BY <1>1, <2>1, BranchErrors
    <2> QED BY <2>2 DEF FailsClean
  <1>4. CASE match = "different"
    <2>1. e = ConflictingReplay(s, id, c)
      BY <1>4 DEF ApplyWithoutCommit, command_fingerprint, match, id, Commits
    <2>2. FailsClean(s, e) BY <1>1, <2>1, BranchErrors
    <2> QED BY <2>2 DEF FailsClean
  <1>5. CASE match = "unknown" /\ rotation_in_flight(s)
    <2>1. e = Effect(s, "RotationInFlight")
      BY <1>5 DEF ApplyWithoutCommit, command_fingerprint, match, id, Commits
    <2> QED BY <1>5, <2>1 DEF Effect, match, id
  <1>6. CASE /\ match = "unknown" /\ ~rotation_in_flight(s)
             /\ Commits(s, topic, c, resolved, date)
    <2>1. e = Effect(s, IF reserve_outbox(s, 2) THEN "CommandJournalFull" ELSE "OutboxFull")
      BY <1>6 DEF ApplyWithoutCommit, command_fingerprint, match, id
    <2> QED BY <2>1 DEF Effect
  <1>7. CASE /\ match = "unknown" /\ ~rotation_in_flight(s)
             /\ ~Commits(s, topic, c, resolved, date)
    <2>1. r # None
      BY <1>7 DEF Commits, r, match, id, command_fingerprint
    <2>2. e = PersistRejection(s, id, c, r, date)
      BY <1>7 DEF ApplyWithoutCommit, command_fingerprint, match, id, r
    <2>3. r \in Rejections BY <1>2, <2>1
    <2>4. FailsClean(s, e) BY <2>2, <2>3, BranchErrors
    <2> QED BY <2>4 DEF FailsClean
  <1> QED BY <1>1, <1>3, <1>4, <1>5, <1>6, <1>7

\* The errors of reject_malformed_delivery, on the current topic.
LEMMA MalformedErrors ==
  ASSUME NEW s, NEW id, NEW payload, NEW date,
         NEW e, e = reject_malformed_delivery(s, s.credential_generation, id, payload, date),
         e.result \in AgentErrors
  PROVE  e.state = s /\ e.result \in {"InvalidState", "OutboxFull", "CommandJournalFull"}
  <1> DEFINE f == <<s.credential_generation, id, payload>>
             match == command_match(s, id, f, date)
  <1>1. match \in {"same", "different", "unknown"} /\ "MalformedCommand" \in Rejections
    BY DEF command_match, Rejections
  <1>2. \/ e = ExactReplay(s, id, f) \/ e = ConflictingReplay(s, id, f)
        \/ e = PersistRejection(s, id, f, "MalformedCommand", date)
    BY <1>1 DEF reject_malformed_delivery, malformed_fingerprint
  <1> HIDE DEF f
  <1>3. FailsClean(s, e)
    BY <1>1, <1>2, BranchErrors
  <1> QED BY <1>3 DEF FailsClean

\* An answer fails only where the command in flight may stop the process, and then
\* changes nothing.
LEMMA DispositionErrors ==
  ASSUME NEW s, AgentInv(s), PhaseInv(s), PendingInv(s), NEW m \in Messages,
         broker.inflight = <<m>>, NEW e, e = Disposition(s, m), e.result \in AgentErrors
  PROVE  e.state = s /\ Refused(s)
  <1>1. s \in States /\ verify(s) /\ Consistent(s) /\ 0 \in Nat
    BY DEF AgentInv
  <1>2. broker.inflight # << >> /\ broker.inflight[1] = m /\ m \in Held
    <2>1. broker.inflight # << >> /\ broker.inflight[1] = m /\ 1 \in DOMAIN broker.inflight
      OBVIOUS
    <2> QED BY <2>1 DEF Held
  <1>3. "Resolved" \in CatalogReplies
    BY DEF CatalogReplies
  <1>4. CASE Awaited(s)
    <2>1. Delivers(m, s.pending_inbound) /\ s.pending_inbound # None
      BY <1>1, <1>2, <1>4 DEF PendingInv, Awaited, verify, PendingIffReport
    <2>2. PICK c \in Commands : c = m.content
      BY <2>1 DEF Delivers
    <2>3. PICK id : id = CommandData[c].id
      OBVIOUS
    <2>4. id = m.id /\ id = s.pending_inbound.command_id /\ c = s.pending_inbound.fingerprint
      BY <2>1, <2>2, <2>3, MessageFacts DEF Delivers
    <2>5. command_match(s, id, c, 0) = "same"
      <3>1. PICK j \in s.command_journal : j.command_id = id /\ j.fingerprint = c
        BY <1>1, <2>1, <2>4 DEF verify, PendingJournalled
      <3>2. j \in LiveEntries(s, id, 0)
        BY <1>1, <3>1 DEF LiveEntries, verify, JournalValid
      <3> QED BY <3>1, <3>2 DEF command_match
    <2>6. e = ApplyWithoutCommit(s, m.topic, c, "Resolved", 0)
      BY <2>2, <2>3, <2>5 DEF Disposition, ClockNow, Commits, command_fingerprint
    <2>7. e = ExactReplay(s, id, c)
      BY <2>3, <2>5, <2>6 DEF ApplyWithoutCommit, command_fingerprint, Commits
    <2>8. e.state = s /\ e.result \in {"InvalidState", "OutboxFull", "CommandJournalFull"}
      <3>1. "DeviceFailure" \in Rejections BY DEF Rejections
      <3> QED BY <2>7, <3>1, BranchErrors DEF FailsClean
    <2>9. e.result = "InvalidState"
      <3>1. has_command_ack(s, id) \/ reserve_outbox(s, 1)
        BY <1>4, <2>4 DEF PendingInv
      <3> QED BY <2>7, <2>8, <3>1 DEF ExactReplay, persist_candidate, Effect
    <2>10. ~Numbers(s)
      <3>1. id \in CommandIds /\ c \in Fingerprints /\ "DeviceFailure" \in Rejections
        BY <2>3, CommandsAssumption DEF Fingerprints, Rejections
      <3> QED BY <1>1, <2>5, <2>7, <2>9, <3>1, BranchesAccepted
    <2> QED BY <1>2, <2>8, <2>10 DEF Refused
  <1>5. CASE ~Awaited(s)
    <2>1. m.topic = s.credential_generation
      BY <1>2, <1>5 DEF PhaseInv, Clean
    <2>2. ASSUME command_intake_open(s, 0)
          PROVE  /\ reserve_outbox(s, 2)
                 /\ reserve_command_journal(expire_command_journal(s, 0))
                 /\ CommitReserves(s, 0)
      <3>1. /\ reserve_outbox(s, 2)
            /\ reserve_command_journal(expire_command_journal(s, 0))
        BY <1>1, <2>2, ExpiredHasRoom DEF command_intake_open, Consistent, JournalSound
      <3>2. PICK k : k = expire_command_journal(s, 0)
        OBVIOUS
      <3>3. k.outbox = s.outbox
        BY <1>1, <3>2, ExpireFacts
      <3> QED BY <3>1, <3>2, <3>3 DEF CommitReserves, reserve_outbox
    <2>3. \A id, f : command_match(s, id, f, 0) = "unknown" => Unknown(s, id, 0)
      BY NoTrace
    <2>4. CASE m.content \notin Commands
      <3>1. m.content \in Malformed /\ m.topic \in Nat /\ m.id \in CommandIds
        BY <2>4, MessageFacts
      <3>2. e = reject_malformed_delivery(s, m.topic, m.id, m.content, 0)
        BY <2>4 DEF Disposition, ClockNow
      <3>3. e.state = s /\ e.result \in {"InvalidState", "OutboxFull", "CommandJournalFull"}
        BY <2>1, <3>2, MalformedErrors
      <3>4. e.result = "InvalidState" => ~Numbers(s)
        BY <1>1, <2>3, <3>1, <3>2, MalformedAccepted
      <3>5. command_intake_open(s, 0) => e.result \notin {"OutboxFull", "CommandJournalFull"}
        BY <1>1, <2>2, <3>2, MalformedFits
      <3> QED BY <1>2, <2>1, <3>3, <3>4, <3>5 DEF Refused
    <2>5. CASE m.content \in Commands
      <3>1. PICK c \in Commands : c = m.content /\ CommandData[c].id = m.id
        BY <2>5, MessageFacts
      <3>2. CASE Commits(s, m.topic, c, "Resolved", 0) /\ CommitReserves(s, 0)
        <4>1. e = Commit(s, c, 0)
          BY <3>1, <3>2 DEF Disposition, ClockNow
        <4>2. e.state = s /\ e.result = "InvalidState"
          BY <4>1 DEF Commit, persist_candidate, Effect, AgentErrors
        <4>3. Unknown(s, CommandData[c].id, 0) /\ ~rotation_in_flight(s)
          BY <2>3, <3>2 DEF Commits, command_fingerprint
        <4>4. ~Numbers(s)
          BY <1>1, <3>2, <4>1, <4>2, <4>3, CommitAccepted
        <4> QED BY <1>2, <4>2, <4>4 DEF Refused
      <3>3. CASE ~(Commits(s, m.topic, c, "Resolved", 0) /\ CommitReserves(s, 0))
        <4>1. e = ApplyWithoutCommit(s, m.topic, c, "Resolved", 0)
          BY <3>1, <3>3 DEF Disposition, ClockNow
        <4>2. /\ e.state = s
              /\ e.result \in {"InvalidState", "OutboxFull", "CommandJournalFull",
                               "RotationInFlight"}
              /\ e.result = "RotationInFlight" =>
                   /\ rotation_in_flight(s)
                   /\ command_match(s, CommandData[c].id, c, 0) = "unknown"
          BY <1>3, <4>1, ApplyErrors
        <4>3. e.result = "RotationInFlight" => rotation_in_flight(s) /\ ~Journalled(s, m.id)
          BY <3>1, <4>2, NoTrace
        <4>4. e.result = "InvalidState" => ~Numbers(s)
          BY <1>1, <1>3, <2>3, <4>1, ApplyAccepted
        <4>5. command_intake_open(s, 0) =>
                e.result \notin {"OutboxFull", "CommandJournalFull"}
          BY <1>1, <1>3, <2>2, <3>3, <4>1, ApplyFits
        <4> QED BY <1>2, <2>1, <4>2, <4>3, <4>4, <4>5 DEF Refused
      <3> QED BY <3>2, <3>3
    <2> QED BY <2>4, <2>5
  <1> QED BY <1>4, <1>5

\* The fact the broker has acknowledged is confirmed.
LEMMA ConfirmSucceeds ==
  ASSUME NEW s, AgentInv(s), NEW event, Queued(s, event)
  PROVE  ConfirmOutbound(s, event).result \notin AgentErrors
  <1>1. s \in States /\ verify(s) /\ Consistent(s)
    BY DEF AgentInv
  <1>2. PICK k \in DOMAIN s.outbox :
           /\ s.outbox[k].event = event
           /\ event.kind = "report" =>
                s.outbox[k].kind = "ReportReady" /\ InboundSettled(s)
    BY DEF Queued
  <1>3. \A i \in DOMAIN s.outbox : s.outbox[i].event = event => i = k
    BY <1>1, <1>2 DEF verify, OutboxEntriesDistinct
  <1>4. IsReport(s.outbox[k]) => event.kind = "report"
    <2>1. EntrySemanticValid(s.outbox[k])
      BY <1>1 DEF verify, OutboxEntriesValid
    <2> QED BY <1>2, <2>1 DEF EntrySemanticValid, IsReport, IsAck, ReportEvent
  <1>5. s.outbox[k].kind # "ReportBlocked" /\ Confirmable(s, k)
    BY <1>2, <1>4 DEF Confirmable, IsReport
  <1>6. verify(confirm_outbound(s, k))
    BY <1>1, <1>5, ConfirmVerifies
  <1>7. ConfirmOutbound(s, event) = persist_candidate(s, confirm_outbound(s, k), "Confirmed")
    <2> DEFINE matching == {i \in DOMAIN s.outbox : s.outbox[i].event = event}
    <2>1. matching = {k}
      BY <1>2, <1>3
    <2>2. (CHOOSE i \in matching : TRUE) = k
      BY <2>1
    <2> QED BY <1>5, <2>1, <2>2 DEF ConfirmOutbound
  <1> QED BY <1>6, <1>7 DEF persist_candidate, Effect, AgentErrors

\* A session begins with the new credential.
LEMMA ReconnectSucceeds ==
  ASSUME NEW s, AgentInv(s), s.reconnect_revision # None
  PROVE  mark_current_credential_connected(s, s.reconnect_revision).result
           \notin AgentErrors
  <1>1. s \in States /\ verify(s) /\ s.reconnect_revision = s.current.revision
    BY DEF AgentInv, verify, ReconnectMatchesCurrent
  <1>2. verify(mark_reconnected(s))
    BY <1>1, ReconnectVerifies
  <1> QED BY <1>2 DEF mark_current_credential_connected, persist_candidate, Effect,
                      AgentErrors

\* The pending delivery is settled.
LEMMA SettleSucceeds ==
  ASSUME NEW s, AgentInv(s), s.pending_inbound # None, NEW token, Token(s, token)
  PROVE  persist_inbound_settlement(s, token).result \notin AgentErrors
  <1>1. s \in States /\ verify(s)
    BY DEF AgentInv
  <1>2. verify(mark_inbound_settled(s))
    BY <1>1, SettleVerifies
  <1> QED BY <1>2 DEF persist_inbound_settlement, persist_candidate, Effect, AgentErrors,
                      Token

\* A delivery is pending while its report is awaited.
LEMMA AwaitedPending ==
  ASSUME NEW s, AgentInv(s), Awaited(s)
  PROVE  s.pending_inbound # None
  BY DEF AgentInv, Awaited, verify, PendingIffReport

-----------------------------------------------------------------------------
(* The order of the requests. *)

\* A request more.
LEMMA AppendOrder ==
  ASSUME NEW q \in Seq(Outgoing), NEW p \in Outgoing, NEW r, r = Append(q, p)
  PROVE  /\ PubAckFirst(q) /\ (p.packet = "puback" => ~Has(q, "publish")) => PubAckFirst(r)
         /\ \A topic : Leaves(q, topic) => Leaves(r, topic)
  <1>1. /\ Len(q) \in Nat /\ DOMAIN q = 1 .. Len(q)
        /\ DOMAIN r = DOMAIN q \union {Len(q) + 1} /\ Len(q) + 1 \notin DOMAIN q
        /\ \A i \in DOMAIN q : r[i] = q[i]
        /\ r[Len(q) + 1] = p
    BY OneMore
  <1>2. \A i \in DOMAIN q : i < Len(q) + 1 /\ ~(Len(q) + 1 < i)
    BY <1>1
  <1>3. ASSUME PubAckFirst(q), p.packet = "puback" => ~Has(q, "publish"),
               NEW i \in DOMAIN r, NEW j \in DOMAIN r,
               r[i].packet = "publish", r[j].packet = "puback"
        PROVE  j < i
    <2>1. CASE i \in DOMAIN q /\ j \in DOMAIN q
      BY <1>1, <1>3, <2>1 DEF PubAckFirst
    <2>2. CASE i = Len(q) + 1 /\ j \in DOMAIN q
      BY <1>2, <2>2
    <2>3. CASE j = Len(q) + 1
      <3>1. p.packet = "puback" BY <1>1, <1>3, <2>3
      <3>2. i \in DOMAIN q BY <1>1, <1>3, <2>3, <3>1
      <3> QED BY <1>1, <1>3, <3>1, <3>2 DEF Has, ToSet
    <2> QED BY <1>1, <2>1, <2>2, <2>3
  <1>4. ASSUME NEW topic, Leaves(q, topic)
        PROVE  Leaves(r, topic)
    <2>1. PICK i \in DOMAIN q : /\ q[i] = Unsubscribe(topic)
                                /\ \A j \in DOMAIN q : j < i => q[j].packet # "unsubscribe"
      BY <1>4 DEF Leaves
    <2>2. i \in DOMAIN r /\ r[i] = Unsubscribe(topic)
      BY <1>1, <2>1
    <2>3. \A j \in DOMAIN r : j < i => r[j].packet # "unsubscribe"
      BY <1>1, <1>2, <2>1
    <2> QED BY <2>2, <2>3 DEF Leaves
  <1>5. PubAckFirst(q) /\ (p.packet = "puback" => ~Has(q, "publish")) => PubAckFirst(r)
    BY <1>3 DEF PubAckFirst
  <1> QED BY <1>4, <1>5

\* The first request is sent.
LEMMA TailOrder ==
  ASSUME NEW q \in Seq(Outgoing), q # << >>, NEW r, r = Tail(q)
  PROVE  /\ PubAckFirst(q) =>
              PubAckFirst(r) /\ (q[1].packet = "publish" => ~Has(q, "puback"))
         /\ \A topic : Leaves(q, topic) =>
              IF q[1].packet = "unsubscribe" THEN q[1] = Unsubscribe(topic)
              ELSE Leaves(r, topic)
  <1>1. /\ Len(q) \in Nat /\ Len(q) > 0 /\ DOMAIN q = 1 .. Len(q)
        /\ DOMAIN r = 1 .. Len(q) - 1
        /\ \A i \in 1 .. Len(q) - 1 : r[i] = q[i + 1]
    BY HeadTailProperties, EmptySeq
  <1>2. \A i \in DOMAIN r : i + 1 \in DOMAIN q /\ r[i] = q[i + 1] /\ i \in Int
    BY <1>1
  <1>3. ASSUME PubAckFirst(q)
        PROVE  PubAckFirst(r)
    <2>1. ASSUME NEW i \in DOMAIN r, NEW j \in DOMAIN r,
                 r[i].packet = "publish", r[j].packet = "puback"
          PROVE  j < i
      <3>1. j + 1 < i + 1 BY <1>2, <1>3, <2>1 DEF PubAckFirst
      <3> QED BY <1>2, <3>1
    <2> QED BY <2>1 DEF PubAckFirst
  <1>4. ASSUME PubAckFirst(q), q[1].packet = "publish"
        PROVE  ~Has(q, "puback")
    <2>1. 1 \in DOMAIN q /\ \A j \in DOMAIN q : ~(j < 1)
      BY <1>1
    <2> QED BY <1>4, <2>1 DEF PubAckFirst, Has, ToSet
  <1>5. ASSUME NEW topic, Leaves(q, topic)
        PROVE  IF q[1].packet = "unsubscribe" THEN q[1] = Unsubscribe(topic)
               ELSE Leaves(r, topic)
    <2>1. PICK i \in DOMAIN q : /\ q[i] = Unsubscribe(topic)
                                /\ \A j \in DOMAIN q : j < i => q[j].packet # "unsubscribe"
      BY <1>5 DEF Leaves
    <2>2. 1 \in DOMAIN q /\ (i = 1 \/ 1 < i)
      BY <1>1
    <2>3. q[i].packet = "unsubscribe"
      BY <2>1 DEF Unsubscribe
    <2>4. CASE i = 1
      BY <2>1, <2>3, <2>4
    <2>5. CASE 1 < i
      <3>1. q[1].packet # "unsubscribe" BY <2>1, <2>2, <2>5
      <3>2. i - 1 \in DOMAIN r /\ r[i - 1] = Unsubscribe(topic)
        BY <1>1, <2>1, <2>5
      <3>3. \A j \in DOMAIN r : j < i - 1 => r[j].packet # "unsubscribe"
        <4>1. \A j \in DOMAIN r : j < i - 1 => j + 1 < i BY <1>1
        <4> QED BY <1>2, <2>1, <4>1
      <3> QED BY <3>1, <3>2, <3>3 DEF Leaves
    <2> QED BY <2>2, <2>4, <2>5
  <1> QED BY <1>3, <1>4, <1>5

-----------------------------------------------------------------------------
(* Contexts, with regard to the old topic. *)

\* A report that waits for the next session is awaited.
LEMMA BlockedAwaited ==
  ASSUME NEW s, AgentInv(s), PhaseInv(s), Blocked(s)
  PROVE  Awaited(s)
  <1>1. PICK k \in DOMAIN s.outbox : s.outbox[k].kind = "ReportBlocked"
    BY DEF Blocked
  <1>2. IsReport(s.outbox[k]) /\ ReportEvent(s.outbox[k].command_id) \notin received
    BY <1>1 DEF PhaseInv, IsReport
  <1>3. \A l \in DOMAIN s.outbox : IsReport(s.outbox[l]) => l = k
    BY <1>2 DEF AgentInv, verify, AtMostOneReport
  <1> QED BY <1>2, <1>3 DEF Awaited, Reported, rotation_in_flight

\* The old topic is not in the way of a session that recovers.
Cool(x, ib) ==
  link = "up" /\ Recovering(x) /\ x.driver.connected => ~Hot(x, ib)

\* The agent's state goes on, and a subscription is requested or given up.
Moves(x, y) ==
  /\ y \in Contexts /\ GoesOn(x.state, y.state)
  /\ y.driver.identity = x.driver.identity
  /\ y.driver.recovery = x.driver.recovery
  /\ y.driver.connected = x.driver.connected
  /\ y.driver.held = x.driver.held
  /\ \/ y.requests = x.requests
     \/ \E p \in Outgoing :
          /\ p.packet = "unsubscribe" \/ p = Subscribe(x.driver.identity)
          /\ y.requests = Append(x.requests, p)

\* The requests after such a step.
LEMMA MovedRequests ==
  ASSUME NEW x \in Contexts, NEW y, Moves(x, y)
  PROVE  /\ PubAckFirst(x.requests) => PubAckFirst(y.requests)
         /\ \A topic : Leaves(x.requests, topic) => Leaves(y.requests, topic)
         /\ Has(y.requests, "publish") <=> Has(x.requests, "publish")
         /\ Has(y.requests, "puback") <=> Has(x.requests, "puback")
         /\ \A p \in ToSet(y.requests) : p \in ToSet(x.requests)
              \/ p.packet = "unsubscribe" \/ p = Subscribe(x.driver.identity)
  <1>1. CASE y.requests = x.requests
    BY <1>1
  <1>2. ASSUME NEW p \in Outgoing, p.packet = "unsubscribe" \/ p = Subscribe(x.driver.identity),
               y.requests = Append(x.requests, p)
        PROVE  /\ PubAckFirst(x.requests) => PubAckFirst(y.requests)
               /\ \A topic : Leaves(x.requests, topic) => Leaves(y.requests, topic)
               /\ Has(y.requests, "publish") <=> Has(x.requests, "publish")
               /\ Has(y.requests, "puback") <=> Has(x.requests, "puback")
               /\ \A q \in ToSet(y.requests) : q \in ToSet(x.requests)
                    \/ q.packet = "unsubscribe" \/ q = Subscribe(x.driver.identity)
    <2>1. x.requests \in Seq(Outgoing)
      BY DEF Contexts
    <2>2. p.packet \in {"subscribe", "unsubscribe"}
      BY <1>2 DEF Subscribe
    <2>3. /\ ToSet(y.requests) = ToSet(x.requests) \union {p}
          /\ \A name : Has(y.requests, name) <=> Has(x.requests, name) \/ p.packet = name
      BY <1>2, <2>1, AppendPacket
    <2>4. /\ PubAckFirst(x.requests) => PubAckFirst(y.requests)
          /\ \A topic : Leaves(x.requests, topic) => Leaves(y.requests, topic)
      BY <1>2, <2>1, <2>2, AppendOrder
    <2> QED BY <1>2, <2>2, <2>3, <2>4
  <1> QED BY <1>1, <1>2 DEF Moves

\* It keeps the invariant, if a session that recovers goes on waiting.
LEMMA MovesTopic ==
  ASSUME NEW x, NEW ib, CtxInv(x, ib), PhaseInv(x.state), PendingInv(x.state),
         TopicInv(x, ib), ScopeInv(x), NEW y, Moves(x, y),
         link = "up" /\ Recovering(x) /\ x.driver.connected /\ Hot(x, ib) =>
            unsubscribe_pending(y.driver) /\ ~Has(y.requests, "subscribe")
  PROVE  /\ PhaseInv(y.state) /\ PendingInv(y.state) /\ TopicInv(y, ib) /\ ScopeInv(y)
         /\ Cool(x, ib) => Cool(y, ib)
  <1>1. x \in Contexts /\ AgentInv(x.state)
    BY DEF CtxInv
  <1>2. /\ y.driver.identity = x.driver.identity
        /\ y.driver.recovery = x.driver.recovery
        /\ y.driver.connected = x.driver.connected
        /\ y.driver.held = x.driver.held
        /\ Stays(x.state, y.state) /\ y \in Contexts /\ y.state \in States
    BY DEF Moves, GoesOn, Contexts
  <1>3. /\ PhaseInv(y.state) /\ (Awaited(y.state) <=> Awaited(x.state))
        /\ Awaited(y.state) =>
             y.state.pending_inbound.topic = x.state.pending_inbound.topic
        /\ y.state.credential_generation = x.state.credential_generation
    BY <1>1, <1>2, StaysPhase
  <1>4. /\ PubAckFirst(x.requests) => PubAckFirst(y.requests)
        /\ \A topic : Leaves(x.requests, topic) => Leaves(y.requests, topic)
        /\ Has(y.requests, "publish") <=> Has(x.requests, "publish")
        /\ Has(y.requests, "puback") <=> Has(x.requests, "puback")
        /\ \A p \in ToSet(y.requests) : p \in ToSet(x.requests)
             \/ p.packet = "unsubscribe" \/ p = Subscribe(x.driver.identity)
    BY <1>1, MovedRequests
  <1>5. Recovering(y) <=> Recovering(x)
    BY <1>2, <1>3 DEF Recovering
  <1>6. Recovering(y) =>
          /\ y.state.pending_inbound.topic = x.state.pending_inbound.topic
          /\ Hot(y, ib) <=> Hot(x, ib)
    BY <1>2, <1>3 DEF Recovering, Hot
  <1>7. Cool(x, ib) => Cool(y, ib)
    BY <1>2, <1>5, <1>6 DEF Cool
  <1>8. y.driver.identity # y.state.credential_generation =>
          y.driver.identity = y.state.pending_inbound.topic
    <2> SUFFICES ASSUME y.driver.identity # y.state.credential_generation
                 PROVE  y.driver.identity = y.state.pending_inbound.topic
      OBVIOUS
    <2>1. x.driver.identity # x.state.credential_generation
      BY <1>2, <1>3
    <2>2. Awaited(x.state)
      BY <1>1, <2>1, BlockedAwaited DEF CtxInv, ConnectInv
    <2> QED BY <1>2, <1>3, <2>1, <2>2 DEF TopicInv
  <1>9. \A p \in ToSet(y.requests) : p.packet = "subscribe" => p.topic = y.driver.identity
    <2>1. Subscribe(x.driver.identity).topic = x.driver.identity
      BY DEF Subscribe
    <2> QED BY <1>2, <1>4, <2>1 DEF TopicInv
  <1>10. ~y.driver.connected => \A p \in ToSet(ib) : p.packet \in {"connack", "command"}
    BY <1>2 DEF TopicInv
  <1>11. Recovering(y) => /\ y.driver.recovery # None
                          /\ y.driver.recovery.topic = y.state.pending_inbound.topic
    BY <1>2, <1>5, <1>6 DEF TopicInv
  <1>12. link = "up" /\ broker.inflight # << >> =>
            Has(ib, "command") \/ y.driver.held # << >> \/ Has(y.requests, "puback")
    BY <1>2, <1>4 DEF TopicInv
  <1>13. ASSUME link = "up", Recovering(y), y.driver.connected
         PROVE  RecoveryInv(y, ib)
    <2>1. Recovering(x) /\ x.driver.connected /\ RecoveryInv(x, ib)
      BY <1>2, <1>5, <1>13 DEF TopicInv
    <2> QED BY <1>4, <1>6, <1>13, <2>1 DEF RecoveryInv
  <1>14. TopicInv(y, ib)
    BY <1>8, <1>9, <1>10, <1>11, <1>12, <1>13 DEF TopicInv
  <1>15. PendingInv(y.state)
    BY <1>1, <1>2, GoesOnPending DEF Moves
  <1>16. Recovering(y) =>
           y.driver.recovery = [topic |-> y.state.pending_inbound.topic,
                                command_id |-> y.state.pending_inbound.command_id]
    <2>1. Recovering(y) => SameDelivery(x.state.pending_inbound, y.state.pending_inbound)
      BY <1>1, <1>2, StaysPhase DEF Recovering
    <2> QED BY <1>2, <1>5, <2>1 DEF ScopeInv, SameDelivery
  <1>17. \A token : Token(x.state, token) => Token(y.state, token)
    BY <1>1, <1>2, StaysToken
  <1>18. \A p \in ToSet(y.requests) : p.packet = "puback" => Token(y.state, p.token)
    <2>1. Subscribe(x.driver.identity).packet = "subscribe"
      BY DEF Subscribe
    <2> QED BY <1>4, <1>17, <2>1 DEF ScopeInv
  <1>19. ScopeInv(y)
    BY <1>2, <1>16, <1>17, <1>18 DEF ScopeInv
  <1> QED BY <1>3, <1>7, <1>14, <1>15, <1>19

\* A packet that is not a command is polled by a connected session.
LEMMA PolledTopic ==
  ASSUME NEW x, NEW ib, CtxInv(x, ib), TopicInv(x, ib), ib # << >>, x.driver.connected,
         ib[1].packet # "command", NEW r, r = Tail(ib)
  PROVE  /\ TopicInv(x, r)
         /\ ib[1].packet \in {"suback", "factack"} => Cool(x, r)
         /\ ib[1].packet = "unsuback" /\ x.driver.held = << >> => Cool(x, r)
         /\ link = "up" /\ Recovering(x) =>
              /\ ~Has(r, "command")
              /\ x.driver.held # << >> => ~Has(x.requests, "publish")
              /\ ib[1].packet = "unsuback" =>
                   x.state.pending_inbound.topic \notin broker.subscriptions
  <1>1. ib \in Seq(Incoming)
    BY DEF CtxInv
  <1>2. /\ ib[1] \in ToSet(ib) /\ ToSet(r) \subseteq ToSet(ib)
        /\ \A name : Has(r, name) => Has(ib, name)
        /\ \A name : ib[1].packet = name => Has(ib, name)
    BY <1>1, TakePacket
  <1>3. Has(ib, "command") => Has(r, "command")
    <2>1. /\ Len(ib) \in Nat /\ Len(ib) > 0 /\ DOMAIN ib = 1 .. Len(ib)
          /\ DOMAIN r = 1 .. Len(ib) - 1
          /\ \A i \in 1 .. Len(ib) - 1 : r[i] = ib[i + 1]
      BY <1>1, HeadTailProperties, EmptySeq
    <2> SUFFICES ASSUME NEW i \in DOMAIN ib, ib[i].packet = "command"
                 PROVE  Has(r, "command")
      BY DEF Has, ToSet
    <2>2. i # 1 OBVIOUS
    <2>3. i - 1 \in DOMAIN r /\ r[i - 1] = ib[i]
      BY <2>1, <2>2
    <2> QED BY <2>3 DEF Has, ToSet
  <1>4. ASSUME link = "up", Recovering(x)
        PROVE  RecoveryInv(x, ib) /\ ~Has(ib, "command")
    BY <1>4 DEF TopicInv, RecoveryInv
  <1>5. ASSUME link = "up", Recovering(x)
        PROVE  RecoveryInv(x, r)
    BY <1>2, <1>4, <1>5 DEF RecoveryInv, Hot
  <1>6. TopicInv(x, r)
    BY <1>2, <1>3, <1>5 DEF TopicInv
  <1>7. ib[1].packet \in {"suback", "factack"} => Cool(x, r)
    BY <1>2, <1>4 DEF Cool, Hot, RecoveryInv
  <1>8. ib[1].packet = "unsuback" /\ x.driver.held = << >> => Cool(x, r)
    BY <1>2, <1>4 DEF Cool, Hot, RecoveryInv
  <1>9. link = "up" /\ Recovering(x) =>
          /\ ~Has(r, "command")
          /\ x.driver.held # << >> => ~Has(x.requests, "publish")
          /\ ib[1].packet = "unsuback" =>
               x.state.pending_inbound.topic \notin broker.subscriptions
    BY <1>2, <1>4 DEF RecoveryInv, Hot
  <1> QED BY <1>6, <1>7, <1>8, <1>9

-----------------------------------------------------------------------------
(* The driver's handlers, with regard to the old topic. *)

\* What a handler makes of a context, with these packets left to poll.
Tidy(y, ib) ==
  /\ PhaseInv(y.state) /\ PendingInv(y.state)
  /\ y.control = "Continue" => TopicInv(y, ib) /\ ScopeInv(y)
  /\ y.control = "Fatal" => Refused(y.state)

\* The driver takes note of something.
LEMMA NoteMoves ==
  ASSUME NEW x \in Contexts, NEW d \in Drivers, d.identity = x.driver.identity,
         d.recovery = x.driver.recovery,
         d.connected = x.driver.connected, d.held = x.driver.held,
         NEW y, y = [x EXCEPT !.driver = d]
  PROVE  /\ Moves(x, y) /\ y \in Contexts /\ y.state = x.state /\ y.driver = d
         /\ y.requests = x.requests /\ y.control = x.control
  <1>1. /\ y \in Contexts /\ y.state = x.state /\ y.driver = d
        /\ y.requests = x.requests /\ y.control = x.control
    BY DriverFields
  <1>2. GoesOn(x.state, x.state)
    BY SameGoesOn DEF Contexts
  <1> QED BY <1>1, <1>2 DEF Moves

\* An UNSUBSCRIBE is requested.
LEMMA UnsubscribeMoves ==
  ASSUME NEW x \in Contexts, NEW topic \in Nat, NEW z, z = StartUnsubscribe(x, topic)
  PROVE  /\ Moves(x, z) /\ z.state = x.state /\ z.control = x.control
         /\ z.requests = Append(x.requests, Unsubscribe(topic))
         /\ unsubscribe_pending(z.driver) /\ z.driver \in Drivers
         /\ z.driver.publish = x.driver.publish
  <1>1. PICK y : y = Queue(x, Unsubscribe(topic))
    OBVIOUS
  <1>2. /\ y \in Contexts /\ y.state = x.state /\ y.driver = x.driver
        /\ y.requests = Append(x.requests, Unsubscribe(topic)) /\ y.control = x.control
        /\ Unsubscribe(topic) \in Outgoing /\ Unsubscribe(topic).packet = "unsubscribe"
    BY <1>1, QueueFields, PacketTypes
  <1>3. x.driver \in Drivers
    BY DEF Contexts
  <1>4. PICK d : d = [x.driver EXCEPT !.subscription = "Unsubscribing"]
    OBVIOUS
  <1>5. /\ d \in Drivers /\ d.identity = x.driver.identity
        /\ d.connected = x.driver.connected /\ d.publish = x.driver.publish
        /\ d.held = x.driver.held /\ d.recovery = x.driver.recovery
        /\ d.subscription = "Unsubscribing"
    BY <1>3, <1>4 DEF Drivers
  <1>6. z = [y EXCEPT !.driver = d]
    BY <1>1, <1>2, <1>4 DEF StartUnsubscribe
  <1>7. /\ z \in Contexts /\ z.state = y.state /\ z.driver = d
        /\ z.requests = y.requests /\ z.control = y.control
    BY <1>2, <1>5, <1>6, DriverFields
  <1>8. GoesOn(x.state, z.state)
    BY <1>2, <1>7, SameGoesOn DEF Contexts
  <1>9. Moves(x, z)
    BY <1>2, <1>5, <1>7, <1>8 DEF Moves
  <1> QED BY <1>2, <1>5, <1>7, <1>9 DEF unsubscribe_pending

\* A SUBSCRIBE is requested, if the intake is open.
LEMMA SubscribeMoves ==
  ASSUME NEW x \in Contexts, NEW z, z = SubscribeIfOpen(x)
  PROVE  Moves(x, z) /\ z.state = x.state /\ z.control = x.control /\ z.driver = x.driver
  <1>1. x.driver.identity \in Nat
    BY DEF Contexts, Drivers
  <1>2. PICK p : p = Subscribe(x.driver.identity)
    OBVIOUS
  <1>3. p \in Outgoing
    BY <1>1, <1>2, PacketTypes
  <1>4. GoesOn(x.state, x.state)
    BY SameGoesOn DEF Contexts
  <1>5. PICK y : y = Queue(x, p)
    OBVIOUS
  <1>6. /\ y \in Contexts /\ y.state = x.state /\ y.driver = x.driver
        /\ y.requests = Append(x.requests, p) /\ y.control = x.control
    BY <1>3, <1>5, QueueFields
  <1>7. Moves(x, y)
    BY <1>2, <1>3, <1>4, <1>6 DEF Moves
  <1>8. Moves(x, x)
    BY <1>4 DEF Moves
  <1> QED BY <1>2, <1>5, <1>6, <1>7, <1>8 DEF SubscribeIfOpen

\* The state goes on; then a request is made.
LEMMA MovesTwice ==
  ASSUME NEW x, NEW y, NEW z, Moves(x, y), y.requests = x.requests,
         Moves(y, z), z.state = y.state
  PROVE  Moves(x, z)
  BY DEF Moves

\* An operation of the agent takes effect.
LEMMA EffectMoves ==
  ASSUME NEW x \in Contexts, NEW e, e.state \in States, GoesOn(x.state, e.state),
         NEW y, y = WithEffect(x, e)
  PROVE  /\ Moves(x, y) /\ y \in Contexts /\ y.state = e.state /\ y.driver = x.driver
         /\ y.requests = x.requests
         /\ y.control = IF e.result \in AgentErrors THEN "Fatal" ELSE x.control
  <1>1. /\ y \in Contexts /\ y.state = e.state /\ y.driver = x.driver
        /\ y.requests = x.requests
        /\ y.control = IF e.result \in AgentErrors THEN "Fatal" ELSE x.control
    BY EffectFields
  <1> QED BY <1>1 DEF Moves

\* A handler that moves on, where the old topic is not in the way.
LEMMA CoolTidy ==
  ASSUME NEW x, NEW ib, CtxInv(x, ib), PhaseInv(x.state), PendingInv(x.state),
         TopicInv(x, ib), ScopeInv(x), Cool(x, ib),
         NEW y, Moves(x, y), y.control # "Fatal"
  PROVE  Tidy(y, ib) /\ Tidy(Reconnect(y), ib)
  <1>1. PhaseInv(y.state) /\ PendingInv(y.state) /\ TopicInv(y, ib) /\ ScopeInv(y)
    BY MovesTopic DEF Cool
  <1>2. y \in Contexts
    BY DEF Moves
  <1>3. Reconnect(y).state = y.state /\ Reconnect(y).control = "Reconnect"
    BY <1>2, ControlFields DEF Reconnect
  <1> QED BY <1>1, <1>3 DEF Tidy

\* SUBACK.
LEMMA SubscribedTidy ==
  ASSUME NEW x, NEW ib, CtxInv(x, ib), PhaseInv(x.state), PendingInv(x.state),
         TopicInv(x, ib), ScopeInv(x), x.control = "Continue", ib # << >>,
         x.driver.connected, ib[1].packet = "suback"
  PROVE  Tidy(on_subscribed(x), Tail(ib))
  <1>1. x \in Contexts /\ x.driver \in Drivers
    BY DEF CtxInv, Contexts
  <1>2. PICK d : d = [x.driver EXCEPT !.subscription = "Active"]
    OBVIOUS
  <1>3. /\ d \in Drivers /\ d.identity = x.driver.identity
        /\ d.connected = x.driver.connected /\ d.recovery = x.driver.recovery
        /\ d.held = x.driver.held
    BY <1>1, <1>2 DEF Drivers
  <1>4. PICK y : y = [x EXCEPT !.driver = d]
    OBVIOUS
  <1>5. Moves(x, y) /\ y.control = x.control
    BY <1>1, <1>3, <1>4, NoteMoves
  <1>6. on_subscribed(x) = y
    BY <1>2, <1>4 DEF on_subscribed
  <1>7. PICK r : r = Tail(ib)
    OBVIOUS
  <1>8. CtxInv(x, r) /\ TopicInv(x, r) /\ Cool(x, r)
    BY <1>7, PolledKeeps, PolledTopic
  <1> QED BY <1>5, <1>6, <1>7, <1>8, CoolTidy

\* PUBACK of a fact.
LEMMA OutboundAckTidy ==
  ASSUME NEW x, NEW ib, CtxInv(x, ib), PhaseInv(x.state), PendingInv(x.state),
         TopicInv(x, ib), ScopeInv(x), x.control = "Continue", ib # << >>,
         x.driver.connected, ib[1].packet = "factack", NEW event, event = ib[1].event
  PROVE  Tidy(on_outbound_acknowledged(x, event), Tail(ib))
  <1>1. /\ x \in Contexts /\ x.driver \in Drivers /\ AgentInv(x.state)
        /\ ib \in Seq(Incoming)
    BY DEF CtxInv, Contexts
  <1>2. PICK r : r = Tail(ib)
    OBVIOUS
  <1>3. CtxInv(x, r) /\ TopicInv(x, r) /\ Cool(x, r)
    BY <1>2, PolledKeeps, PolledTopic
  <1>4. event \in received /\ Queued(x.state, event) /\ x.driver.publish = "Pending"
    <2>1. ib[1] \in ToSet(ib) /\ Has(ib, "factack") BY <1>1, TakePacket
    <2> QED BY <2>1 DEF CtxInv, PublishInv
  <1>5. PICK d : d = [x.driver EXCEPT !.publish = "Idle"]
    OBVIOUS
  <1>6. /\ d \in Drivers /\ d.identity = x.driver.identity
        /\ d.connected = x.driver.connected /\ d.held = x.driver.held
        /\ d.recovery = x.driver.recovery
    BY <1>1, <1>5 DEF Drivers
  <1>7. PICK w : w = [x EXCEPT !.driver = d]
    OBVIOUS
  <1>8. /\ w \in Contexts /\ w.state = x.state /\ w.driver = d
        /\ w.requests = x.requests /\ w.control = "Continue"
    BY <1>1, <1>6, <1>7, DriverFields
  <1>9. PICK e : e = ConfirmOutbound(x.state, event)
    OBVIOUS
  <1>10. GoesOn(w.state, e.state) /\ e.state \in States /\ e.result \notin AgentErrors
    <2>1. PICK t : t = e.state OBVIOUS
    <2>2. t = ConfirmOutbound(x.state, event).state BY <1>9, <2>1
    <2>3. GoesOn(x.state, t) BY <1>1, <1>4, <2>2, ConfirmStays
    <2>4. AgentInv(t) BY <1>1, <1>4, <2>2, ConfirmKeeps
    <2>5. e.result \notin AgentErrors BY <1>1, <1>4, <1>9, ConfirmSucceeds
    <2> QED BY <1>8, <2>1, <2>3, <2>4, <2>5 DEF AgentInv
  <1>11. PICK y : y = WithEffect(w, e)
    OBVIOUS
  <1>12. /\ Moves(w, y) /\ y \in Contexts /\ y.driver = d /\ y.requests = x.requests
         /\ y.control = "Continue"
    BY <1>8, <1>10, <1>11, EffectMoves
  <1>13. Moves(x, y)
    <2>1. GoesOn(x.state, y.state) BY <1>8, <1>12 DEF Moves
    <2> QED BY <1>6, <1>12, <2>1 DEF Moves
  <1>14. PICK g : g = [y.driver EXCEPT !.reconnect = TRUE]
    OBVIOUS
  <1>15. /\ g \in Drivers /\ g.identity = y.driver.identity
         /\ g.connected = y.driver.connected /\ g.recovery = y.driver.recovery
         /\ g.held = y.driver.held /\ g.identity \in Nat
    BY <1>6, <1>12, <1>14 DEF Drivers
  <1>16. PICK z : z = [y EXCEPT !.driver = g]
    OBVIOUS
  <1>17. /\ Moves(y, z) /\ z \in Contexts /\ z.state = y.state /\ z.driver = g
         /\ z.requests = y.requests /\ z.control = "Continue"
    BY <1>12, <1>15, <1>16, NoteMoves
  <1>18. Moves(x, z)
    BY <1>12, <1>13, <1>17, MovesTwice
  <1>19. /\ Moves(x, StartUnsubscribe(z, z.driver.identity))
         /\ StartUnsubscribe(z, z.driver.identity).control = "Continue"
    <2>1. PICK v : v = StartUnsubscribe(z, z.driver.identity) OBVIOUS
    <2>2. Moves(z, v) /\ v.state = z.state /\ v.control = "Continue"
      BY <1>15, <1>17, <2>1, UnsubscribeMoves
    <2> QED BY <1>12, <1>17, <1>18, <2>1, <2>2, MovesTwice
  <1>20. Moves(x, SubscribeIfOpen(y)) /\ SubscribeIfOpen(y).control = "Continue"
    <2>1. PICK v : v = SubscribeIfOpen(y) OBVIOUS
    <2>2. Moves(y, v) /\ v.state = y.state /\ v.control = "Continue"
      BY <1>12, <2>1, SubscribeMoves
    <2> QED BY <1>12, <1>13, <2>1, <2>2, MovesTwice
  <1>21. on_outbound_acknowledged(x, event) =
           IF x.driver.publish # "Pending" THEN Fatal(x)
           ELSE IF y.control = "Fatal" THEN y
           ELSE IF y.state.reconnect_revision # None
           THEN IF ~unsubscribe_pending(y.driver) /\ pending_inbound_settled(y.state)
                THEN Reconnect(y)
                ELSE IF can_unsubscribe(z.driver)
                THEN StartUnsubscribe(z, z.driver.identity) ELSE z
           ELSE IF can_subscribe(y.driver) THEN SubscribeIfOpen(y) ELSE y
    BY <1>5, <1>7, <1>9, <1>11, <1>14, <1>16 DEF on_outbound_acknowledged
  <1>22. \A v : Moves(x, v) /\ v.control # "Fatal" => Tidy(v, r) /\ Tidy(Reconnect(v), r)
    BY <1>3, CoolTidy
  <1> QED BY <1>2, <1>4, <1>12, <1>13, <1>17, <1>18, <1>19, <1>20, <1>21, <1>22

\* The PUBACK of a delivery has been written.
LEMMA InboundAckTidy ==
  ASSUME NEW x, NEW ib, CtxInv(x, ib), PhaseInv(x.state), PendingInv(x.state),
         TopicInv(x, ib), ScopeInv(x), x.control = "Continue",
         NEW token, Token(x.state, token)
  PROVE  Tidy(on_inbound_acknowledged(x, token), ib)
  <1>1. x \in Contexts /\ AgentInv(x.state)
    BY DEF CtxInv
  <1>2. PICK e : e = persist_inbound_settlement(x.state, token)
    OBVIOUS
  <1>3. /\ GoesOn(x.state, e.state) /\ e.state \in States
        /\ token # None => e.result \notin AgentErrors
    <2>1. GoesOn(x.state, e.state) /\ e.state \in States
      BY <1>1, <1>2, SettleStays, SettleKeeps DEF Keeps, AgentInv
    <2>2. token # None => x.state.pending_inbound # None
      BY <1>1, AwaitedPending DEF Token
    <2>3. token # None => e.result \notin AgentErrors
      BY <1>1, <1>2, <2>2, SettleSucceeds
    <2> QED BY <2>1, <2>3
  <1>4. PICK y : y = WithEffect(x, e)
    OBVIOUS
  <1>5. /\ Moves(x, y) /\ y \in Contexts /\ y.driver = x.driver /\ y.requests = x.requests
        /\ token # None => y.control = "Continue"
    BY <1>1, <1>3, <1>4, EffectMoves
  <1>6. PhaseInv(y.state) /\ PendingInv(y.state) /\ TopicInv(y, ib) /\ ScopeInv(y)
    <2>1. link = "up" /\ Recovering(x) /\ x.driver.connected /\ Hot(x, ib) =>
            unsubscribe_pending(y.driver) /\ ~Has(y.requests, "subscribe")
      BY <1>5 DEF TopicInv, RecoveryInv
    <2> QED BY <1>5, <2>1, MovesTopic
  <1>7. Reconnect(y).state = y.state /\ Reconnect(y).control = "Reconnect"
    BY <1>5, ControlFields DEF Reconnect
  <1>8. \/ on_inbound_acknowledged(x, token) = x
        \/ token # None /\ on_inbound_acknowledged(x, token) = y
        \/ on_inbound_acknowledged(x, token) = Reconnect(y)
    BY <1>2, <1>4 DEF on_inbound_acknowledged
  <1> QED BY <1>5, <1>6, <1>7, <1>8 DEF Tidy

\* The shutdown begins.
LEMMA ShutdownTidy ==
  ASSUME NEW x, NEW ib, CtxInv(x, ib), PhaseInv(x.state), PendingInv(x.state),
         TopicInv(x, ib), ScopeInv(x), x.control = "Continue"
  PROVE  Tidy(start_shutdown(x), ib) /\ start_shutdown(x).state = x.state
  <1>1. x \in Contexts /\ x.driver \in Drivers
    BY DEF CtxInv, Contexts
  <1>2. PICK d : d = [x.driver EXCEPT !.shutdown = TRUE]
    OBVIOUS
  <1>3. /\ d \in Drivers /\ d.identity = x.driver.identity
        /\ d.connected = x.driver.connected /\ d.recovery = x.driver.recovery
        /\ d.held = x.driver.held /\ d.identity \in Nat
        /\ d.subscription = x.driver.subscription
    BY <1>1, <1>2 DEF Drivers
  <1>4. PICK y : y = [x EXCEPT !.driver = d]
    OBVIOUS
  <1>5. /\ Moves(x, y) /\ y \in Contexts /\ y.driver = d /\ y.requests = x.requests
        /\ y.state = x.state /\ y.control = "Continue"
    BY <1>1, <1>3, <1>4, NoteMoves
  <1>6. PICK z : z = StartUnsubscribe(y, y.driver.identity)
    OBVIOUS
  <1>7. /\ Moves(y, z) /\ z.state = y.state /\ unsubscribe_pending(z.driver)
        /\ z.control = "Continue"
        /\ z.requests = Append(y.requests, Unsubscribe(y.driver.identity))
    BY <1>3, <1>5, <1>6, UnsubscribeMoves
  <1>8. Moves(x, z)
    BY <1>5, <1>7, MovesTwice
  <1>9. PhaseInv(y.state) /\ PendingInv(y.state) /\ TopicInv(y, ib) /\ ScopeInv(y)
    <2>1. link = "up" /\ Recovering(x) /\ x.driver.connected /\ Hot(x, ib) =>
            unsubscribe_pending(y.driver) /\ ~Has(y.requests, "subscribe")
      BY <1>3, <1>5 DEF TopicInv, RecoveryInv, unsubscribe_pending
    <2> QED BY <1>5, <2>1, MovesTopic
  <1>10. PhaseInv(z.state) /\ PendingInv(z.state) /\ TopicInv(z, ib) /\ ScopeInv(z)
    <2>1. Has(z.requests, "subscribe") => Has(x.requests, "subscribe")
      <3>1. y.requests \in Seq(Outgoing) BY <1>5 DEF Contexts
      <3>2. /\ Unsubscribe(y.driver.identity) \in Outgoing
            /\ Unsubscribe(y.driver.identity).packet # "subscribe"
        BY <1>3, <1>5, PacketTypes
      <3> QED BY <1>5, <1>7, <3>1, <3>2, AppendPacket
    <2>2. link = "up" /\ Recovering(x) /\ x.driver.connected /\ Hot(x, ib) =>
            unsubscribe_pending(z.driver) /\ ~Has(z.requests, "subscribe")
      BY <1>7, <2>1 DEF TopicInv, RecoveryInv
    <2> QED BY <1>8, <2>2, MovesTopic
  <1>11. start_shutdown(x) = IF can_unsubscribe(y.driver) THEN z ELSE y
    BY <1>2, <1>4, <1>6 DEF start_shutdown
  <1> QED BY <1>5, <1>7, <1>9, <1>10, <1>11 DEF Tidy

\* The PUBACK that was held back is queued, after the UNSUBACK.
LEMMA AnswerTopic ==
  ASSUME NEW x, NEW ib, CtxInv(x, ib), TopicInv(x, ib), x.driver.connected,
         link = "up" /\ Recovering(x) =>
            /\ ~Has(ib, "command") /\ ~Has(x.requests, "publish")
            /\ x.state.pending_inbound.topic \notin broker.subscriptions,
         ScopeInv(x), NEW token \in Tokens \union {None}, Token(x.state, token),
         NEW y, y.state = x.state, y.driver.held = << >>,
         y.driver.identity = x.driver.identity, y.driver.connected = x.driver.connected,
         y.driver.recovery = x.driver.recovery,
         y.requests = Append(x.requests, PubAck(token))
  PROVE  TopicInv(y, ib) /\ ScopeInv(y)
  <1>1. x.requests \in Seq(Outgoing)
    BY DEF CtxInv, Contexts
  <1>2. PICK p \in Outgoing : p = PubAck(token) /\ p.packet = "puback"
    BY PacketTypes
  <1>3. /\ ToSet(y.requests) = ToSet(x.requests) \union {p}
        /\ \A name : Has(y.requests, name) <=> Has(x.requests, name) \/ p.packet = name
    BY <1>1, <1>2, AppendPacket
  <1>4. PubAckFirst(x.requests) /\ ~Has(x.requests, "publish") => PubAckFirst(y.requests)
    BY <1>1, <1>2, AppendOrder
  <1>5. Recovering(y) <=> Recovering(x)
    BY DEF Recovering
  <1>6. ASSUME link = "up", Recovering(y)
        PROVE  RecoveryInv(y, ib)
    <2>1. RecoveryInv(x, ib)
      BY <1>5, <1>6 DEF TopicInv
    <2>2. ~Hot(y, ib)
      BY <1>5, <1>6 DEF Hot
    <2> QED BY <1>4, <1>5, <1>6, <2>1, <2>2 DEF RecoveryInv, Hot
  <1>7. \A q \in ToSet(y.requests) : q.packet = "subscribe" => q.topic = y.driver.identity
    BY <1>2, <1>3 DEF TopicInv
  <1>8. TopicInv(y, ib)
    BY <1>2, <1>3, <1>5, <1>6, <1>7 DEF TopicInv
  <1>9. p.token = token
    BY <1>2 DEF PubAck
  <1>10. ScopeInv(y)
    BY <1>3, <1>5, <1>9, ShortQueues DEF ScopeInv
  <1> QED BY <1>8, <1>10

\* UNSUBACK.
LEMMA UnsubscribedTidy ==
  ASSUME NEW x, NEW ib, CtxInv(x, ib), PhaseInv(x.state), PendingInv(x.state),
         TopicInv(x, ib), ScopeInv(x), x.control = "Continue", ib # << >>,
         x.driver.connected, ib[1].packet = "unsuback"
  PROVE  Tidy(on_unsubscribed(x), Tail(ib))
  <1>1. x \in Contexts /\ x.driver \in Drivers /\ AgentInv(x.state)
    BY DEF CtxInv, Contexts
  <1>2. PICK r : r = Tail(ib)
    OBVIOUS
  <1>3. /\ CtxInv(x, r) /\ TopicInv(x, r)
        /\ x.driver.held = << >> => Cool(x, r)
        /\ link = "up" /\ Recovering(x) =>
             /\ ~Has(r, "command")
             /\ x.driver.held # << >> => ~Has(x.requests, "publish")
             /\ x.state.pending_inbound.topic \notin broker.subscriptions
    BY <1>2, PolledKeeps, PolledTopic
  <1>4. PICK d : d = [x.driver EXCEPT !.subscription = "Inactive"]
    OBVIOUS
  <1>5. /\ d \in Drivers /\ d.identity = x.driver.identity
        /\ d.connected = x.driver.connected /\ d.recovery = x.driver.recovery
        /\ d.held = x.driver.held
    BY <1>1, <1>4 DEF Drivers
  <1>6. PICK y : y = [x EXCEPT !.driver = d]
    OBVIOUS
  <1>7. /\ y \in Contexts /\ y.state = x.state /\ y.driver = d
        /\ y.requests = x.requests /\ y.control = "Continue"
    BY <1>1, <1>5, <1>6, DriverFields
  <1>8. PICK z : z = IF /\ y.driver.recovery # None /\ ~y.driver.observed
                        /\ ~pending_inbound_settled(y.state)
                     THEN WithEffect(y, persist_inbound_settlement(y.state, None)) ELSE y
    OBVIOUS
  <1>9. Moves(x, z) /\ z \in Contexts /\ z.requests = x.requests /\ z.control = "Continue"
    <2>1. CASE z = y
      <3>1. Moves(x, y) BY <1>1, <1>5, <1>6, NoteMoves
      <3> QED BY <1>7, <2>1, <3>1
    <2>2. CASE /\ ~pending_inbound_settled(y.state)
               /\ z = WithEffect(y, persist_inbound_settlement(y.state, None))
      <3>1. PICK token : token = None OBVIOUS
      <3>2. PICK e : e = persist_inbound_settlement(y.state, token) OBVIOUS
      <3>3. GoesOn(y.state, e.state) /\ e.state \in States
        BY <1>1, <1>7, <3>2, SettleStays, SettleKeeps DEF Keeps, AgentInv
      <3>4. e.result \notin AgentErrors
        <4>1. y.state.pending_inbound # None BY <2>2 DEF pending_inbound_settled
        <4>2. Token(y.state, token) BY <3>1 DEF Token
        <4> QED BY <1>1, <1>7, <3>2, <4>1, <4>2, SettleSucceeds
      <3>5. z = WithEffect(y, e) BY <2>2, <3>1, <3>2
      <3>6. /\ z \in Contexts /\ z.state = e.state /\ z.driver = y.driver
            /\ z.requests = y.requests /\ z.control = "Continue"
        BY <1>7, <3>3, <3>4, <3>5, EffectFields
      <3> QED BY <1>5, <1>7, <3>3, <3>6 DEF Moves
    <2> QED BY <1>8, <2>1, <2>2
  <1>10. PICK v : v = [Queue(y, PubAck(y.driver.held[1])) EXCEPT !.driver.held = << >>]
    OBVIOUS
  <1>11. PICK completion : completion =
            unsubscribe_completion(z.driver.reconnect, pending_inbound_settled(z.state),
                                   rotation_in_flight(z.state))
    OBVIOUS
  <1>12. on_unsubscribed(x) =
           IF y.driver.held # << >> THEN v
           ELSE IF z.control = "Fatal" THEN z
           ELSE IF completion = "Exit" THEN Reconnect(z)
           ELSE IF completion = "Subscribe" /\ can_subscribe(z.driver)
           THEN SubscribeIfOpen(z) ELSE z
    BY <1>4, <1>6, <1>8, <1>10, <1>11 DEF on_unsubscribed
  <1>13. CASE y.driver.held = << >>
    <2>1. Moves(x, SubscribeIfOpen(z)) /\ SubscribeIfOpen(z).control = "Continue"
      <3>1. PICK u : u = SubscribeIfOpen(z) OBVIOUS
      <3>2. Moves(z, u) /\ u.state = z.state /\ u.control = "Continue"
        BY <1>9, <3>1, SubscribeMoves
      <3> QED BY <1>9, <3>1, <3>2, MovesTwice
    <2>2. Cool(x, r)
      BY <1>3, <1>5, <1>7, <1>13
    <2>3. \A u : Moves(x, u) /\ u.control # "Fatal" =>
            Tidy(u, r) /\ Tidy(Reconnect(u), r)
      BY <1>3, <2>2, CoolTidy
    <2> QED BY <1>2, <1>9, <1>12, <1>13, <2>1, <2>3
  <1>14. CASE y.driver.held # << >>
    <2>1. PICK token : token = y.driver.held[1]
      OBVIOUS
    <2>2. token \in Tokens \union {None}
      <3>1. PICK T : T = Tokens \union {None} OBVIOUS
      <3>2. y.driver.held \in Seq(T) BY <1>5, <1>7, <3>1 DEF Drivers
      <3> QED BY <1>14, <2>1, <3>1, <3>2, EmptySeq
    <2>3. PICK q : q = Queue(y, PubAck(token))
      OBVIOUS
    <2>4. PubAck(token) \in Outgoing BY <2>2, PacketTypes
    <2>5. /\ q \in Contexts /\ q.state = y.state /\ q.driver = y.driver
          /\ q.requests = Append(y.requests, PubAck(token)) /\ q.control = "Continue"
      BY <1>7, <2>3, <2>4, QueueFields
    <2>6. PICK h : h = [y.driver EXCEPT !.held = << >>]
      OBVIOUS
    <2>7. /\ h \in Drivers /\ h.identity = y.driver.identity
          /\ h.connected = y.driver.connected /\ h.recovery = y.driver.recovery
          /\ h.held = << >>
      <3>1. PICK k \in Seq(Tokens \union {None}) : k = << >>
        BY EmptySeq
      <3>2. h = [y.driver EXCEPT !.held = k] /\ y.driver \in Drivers
        BY <1>5, <1>7, <2>6, <3>1
      <3> QED BY <3>1, <3>2 DEF Drivers
    <2>8. v = [q EXCEPT !.driver = h]
      BY <1>10, <2>1, <2>3, <2>5, <2>6
    <2>9. /\ v \in Contexts /\ v.state = q.state /\ v.driver = h /\ v.requests = q.requests
          /\ v.control = "Continue"
      BY <2>5, <2>7, <2>8, DriverFields
    <2>10. /\ v.state = x.state /\ v.driver.held = << >>
           /\ v.driver.identity = x.driver.identity
           /\ v.driver.connected = x.driver.connected
           /\ v.driver.recovery = x.driver.recovery
           /\ v.requests = Append(x.requests, PubAck(token))
      BY <1>5, <1>7, <2>5, <2>7, <2>9
    <2>11. link = "up" /\ Recovering(x) =>
             /\ ~Has(r, "command") /\ ~Has(x.requests, "publish")
             /\ x.state.pending_inbound.topic \notin broker.subscriptions
      BY <1>3, <1>5, <1>7, <1>14
    <2>12. Token(x.state, token)
      <3>1. PICK T : T = Tokens \union {None} OBVIOUS
      <3>2. x.driver.held \in Seq(T) BY <1>1, <3>1 DEF Drivers
      <3>3. x.driver.held # << >> /\ token = x.driver.held[1]
        BY <1>5, <1>7, <1>14, <2>1
      <3>4. token \in ToSet(x.driver.held)
        BY <3>2, <3>3, EmptySeq DEF ToSet
      <3> QED BY <3>4 DEF ScopeInv
    <2>13. TopicInv(v, r) /\ ScopeInv(v)
      BY <1>3, <2>2, <2>10, <2>11, <2>12, AnswerTopic
    <2> QED BY <1>2, <1>12, <1>14, <2>9, <2>10, <2>13 DEF Tidy
  <1> QED BY <1>13, <1>14

\* CONNACK: a session that recovers gives up the old topic first.
LEMMA ConnectedTidy ==
  ASSUME NEW x, NEW ib, CtxInv(x, ib), PhaseInv(x.state), PendingInv(x.state),
         TopicInv(x, ib), ScopeInv(x), x.control = "Continue", ib # << >>,
         ~x.driver.connected
  PROVE  Tidy(on_connected(x), Tail(ib))
  <1>1. /\ x \in Contexts /\ x.driver \in Drivers /\ AgentInv(x.state)
        /\ x.requests = << >> /\ x.driver.held = << >>
        /\ x.driver.identity = x.state.credential_generation
        /\ ib \in Seq(Incoming) /\ ib[1].packet = "connack"
    BY FirstPacket DEF CtxInv, Contexts, ConnectInv
  <1>2. PICK d : d = [x.driver EXCEPT !.connected = TRUE, !.subscription = "Inactive"]
    OBVIOUS
  <1>3. /\ d \in Drivers /\ d.identity = x.driver.identity
        /\ d.connected /\ d.held = x.driver.held
        /\ d.recovery = x.driver.recovery
        /\ d.recovery # None => d.recovery.topic \in Nat
    BY <1>1, <1>2 DEF Drivers
  <1>4. PICK y : y = [x EXCEPT !.driver = d]
    OBVIOUS
  <1>5. /\ y \in Contexts /\ y.state = x.state /\ y.driver = d
        /\ y.requests = << >> /\ y.control = "Continue"
    BY <1>1, <1>3, <1>4, DriverFields
  <1>6. PICK z : z = IF y.state.reconnect_revision = None THEN y
                     ELSE WithEffect(y, mark_current_credential_connected(y.state,
                             y.state.reconnect_revision))
    OBVIOUS
  <1>7. /\ z \in Contexts /\ GoesOn(x.state, z.state) /\ z.driver = d /\ z.requests = << >>
        /\ z.control = "Continue"
    <2>1. CASE y.state.reconnect_revision = None
      BY <1>1, <1>5, <1>6, <2>1, SameGoesOn DEF Contexts
    <2>2. CASE y.state.reconnect_revision # None
      <3>1. PICK e : e = mark_current_credential_connected(y.state,
                            y.state.reconnect_revision)
        OBVIOUS
      <3>2. GoesOn(x.state, e.state) /\ e.state \in States
        BY <1>1, <1>5, <2>2, <3>1, ReconnectStays, ReconnectKeeps DEF Keeps, AgentInv
      <3>3. z = WithEffect(y, e)
        BY <1>6, <2>2, <3>1
      <3>4. e.result \notin AgentErrors
        BY <1>1, <1>5, <2>2, <3>1, ReconnectSucceeds
      <3> QED BY <1>5, <3>2, <3>3, <3>4, EffectFields
    <2> QED BY <2>1, <2>2
  <1>8. PICK f : f = on_connected(x)
    OBVIOUS
  <1>9. f = IF z.control = "Fatal" THEN z
            ELSE IF z.driver.recovery # None
            THEN StartUnsubscribe(z, z.driver.recovery.topic)
            ELSE IF ~z.driver.shutdown /\ ~rotation_in_flight(z.state)
            THEN SubscribeIfOpen(z) ELSE z
    <2>1. y = [x EXCEPT !.driver.connected = TRUE, !.driver.subscription = "Inactive"]
      BY <1>1, <1>2, <1>4 DEF Contexts, Drivers
    <2> QED BY <1>6, <1>8, <2>1 DEF on_connected
  <1>10. Moves(z, z)
    BY <1>7, SameGoesOn DEF Moves, Contexts
  <1>11. Moves(z, f) /\ f.state = z.state /\ f.control = "Continue"
    <2>1. z.driver.recovery # None =>
            LET u == StartUnsubscribe(z, z.driver.recovery.topic)
            IN Moves(z, u) /\ u.state = z.state /\ u.control = z.control
      BY <1>3, <1>7, UnsubscribeMoves
    <2>2. LET u == SubscribeIfOpen(z)
          IN Moves(z, u) /\ u.state = z.state /\ u.control = z.control
      BY <1>7, SubscribeMoves
    <2> QED BY <1>7, <1>9, <1>10, <2>1, <2>2
  <1>12. /\ f.driver.identity = x.driver.identity /\ f.driver.connected
         /\ f.driver.recovery = x.driver.recovery /\ f.driver.held = << >>
    BY <1>1, <1>3, <1>7, <1>11 DEF Moves
  <1>13. /\ PhaseInv(f.state) /\ (Awaited(f.state) <=> Awaited(x.state))
         /\ Awaited(f.state) =>
              f.state.pending_inbound.topic = x.state.pending_inbound.topic
         /\ f.state.credential_generation = x.state.credential_generation
    BY <1>1, <1>7, <1>11, StaysPhase DEF GoesOn
  <1>14. Recovering(f) <=> Recovering(x)
    BY <1>12, <1>13 DEF Recovering
  <1>15. PICK r : r = Tail(ib)
    OBVIOUS
  <1>16. r \in Seq(Incoming) /\ (\A p \in ToSet(r) : p.packet = "command")
    <2>1. /\ r \in Seq(Incoming) /\ ToSet(r) \subseteq ToSet(ib)
          /\ \A i \in DOMAIN r : i + 1 \in DOMAIN ib /\ i + 1 # 1 /\ r[i] = ib[i + 1]
      BY <1>1, <1>15, TakePacket
    <2>2. \A p \in ToSet(ib) : p.packet \in {"connack", "command"}
      BY DEF TopicInv
    <2>3. \A i \in DOMAIN ib : ib[i].packet = "connack" => i = 1
      BY DEF CtxInv, ConnectInv
    <2>4. \A i \in DOMAIN r : r[i].packet = "command"
      BY <2>1, <2>2, <2>3 DEF ToSet
    <2> QED BY <2>1, <2>4 DEF ToSet
  <1>17. Has(ib, "command") => Has(r, "command") /\ r[1].packet = "command"
    <2> SUFFICES ASSUME NEW i \in DOMAIN ib, ib[i].packet = "command"
                 PROVE  Has(r, "command") /\ r[1].packet = "command"
      BY DEF Has, ToSet
    <2>1. /\ Len(ib) \in Nat /\ Len(ib) > 0 /\ DOMAIN ib = 1 .. Len(ib)
          /\ DOMAIN r = 1 .. Len(ib) - 1
      BY <1>1, <1>15, HeadTailProperties, EmptySeq
    <2>2. i # 1 BY <1>1
    <2>3. 1 \in DOMAIN r BY <2>1, <2>2
    <2>4. r[1] \in ToSet(r) BY <2>3 DEF ToSet
    <2> QED BY <1>16, <2>4 DEF Has
  <1>18. Has(r, "command") => Has(ib, "command")
    BY <1>1, <1>15, TakePacket
  <1>19. \A p \in ToSet(f.requests) :
            p.packet = "unsubscribe" \/ p = Subscribe(x.driver.identity)
    <2>1. \A p \in ToSet(f.requests) : p \in ToSet(z.requests)
            \/ p.packet = "unsubscribe" \/ p = Subscribe(z.driver.identity)
      BY <1>7, <1>11, MovedRequests
    <2> QED BY <1>3, <1>7, <2>1, ShortQueues
  <1>20. ASSUME link = "up", Recovering(f), f.control = "Continue"
         PROVE  RecoveryInv(f, r)
    <2>1. PICK old : old = x.state.pending_inbound.topic
      OBVIOUS
    <2>2. x.driver.recovery # None /\ x.driver.recovery.topic = old
      BY <1>14, <1>20, <2>1 DEF TopicInv
    <2>3. f.state.pending_inbound.topic = old
      BY <1>13, <1>20, <2>1 DEF Recovering
    <2>4. old \in Nat
      BY <1>3, <2>2
    <2>5. f = StartUnsubscribe(z, old)
      BY <1>3, <1>7, <1>9, <1>20, <2>2
    <2>6. unsubscribe_pending(f.driver) /\ f.requests = Append(z.requests, Unsubscribe(old))
      BY <1>7, <2>4, <2>5, UnsubscribeMoves
    <2>7. f.requests = <<Unsubscribe(old)>>
      BY <1>7, <2>6
    <2>8. Unsubscribe(old).packet = "unsubscribe"
      BY <2>4, PacketTypes
    <2>9. /\ DOMAIN f.requests = {1} /\ f.requests[1] = Unsubscribe(old)
          /\ \A name : Has(f.requests, name) <=> name = "unsubscribe"
      BY <2>7, <2>8, ShortQueues
    <2>10. PubAckFirst(f.requests)
      BY <2>8, <2>9 DEF PubAckFirst
    <2>11. Leaves(f.requests, old)
      BY <2>9 DEF Leaves
    <2>12. ~Has(r, "factack") /\ ~Has(r, "suback") /\ ~Has(r, "unsuback")
      BY <1>16 DEF Has
    <2> QED BY <1>17, <1>18, <2>3, <2>6, <2>9, <2>10, <2>11, <2>12 DEF RecoveryInv
  <1>21. ASSUME f.control = "Continue"
         PROVE  TopicInv(f, r)
    <2>1. \A p \in ToSet(f.requests) : p.packet = "subscribe" => p.topic = f.driver.identity
      BY <1>12, <1>19 DEF Subscribe
    <2>2. Recovering(f) => /\ f.driver.recovery # None
                           /\ f.driver.recovery.topic = f.state.pending_inbound.topic
      BY <1>12, <1>13, <1>14 DEF TopicInv, Recovering
    <2>3. link = "up" /\ broker.inflight # << >> => Has(r, "command")
      <3>1. ~Has(x.requests, "puback") BY <1>1, ShortQueues
      <3> QED BY <1>1, <1>17, <3>1 DEF TopicInv
    <2> QED BY <1>1, <1>12, <1>13, <1>20, <1>21, <2>1, <2>2, <2>3 DEF TopicInv
  <1>22. PendingInv(f.state)
    <2>1. PICK s \in States : s = f.state
      BY <1>7, <1>11 DEF Contexts
    <2>2. GoesOn(x.state, s)
      BY <1>7, <1>11, <2>1
    <2> QED BY <1>1, <2>1, <2>2, GoesOnPending
  <1>23. ScopeInv(f)
    <2>1. Awaited(f.state) =>
            SameDelivery(x.state.pending_inbound, f.state.pending_inbound)
      BY <1>1, <1>7, <1>11, StaysPhase DEF GoesOn
    <2>2. Recovering(f) =>
            f.driver.recovery = [topic |-> f.state.pending_inbound.topic,
                                 command_id |-> f.state.pending_inbound.command_id]
      BY <1>12, <1>14, <2>1 DEF ScopeInv, SameDelivery, Recovering
    <2>3. \A p \in ToSet(f.requests) : p.packet # "puback"
      BY <1>19 DEF Subscribe
    <2> QED BY <1>12, <2>2, <2>3, ShortQueues DEF ScopeInv
  <1> QED BY <1>8, <1>11, <1>13, <1>15, <1>21, <1>22, <1>23 DEF Tidy

\* A delivery is answered: its PUBACK is queued, or held back and the topic given
\* up.
LEMMA AnsweredTopic ==
  ASSUME NEW x, NEW ib, CtxInv(x, ib), PhaseInv(x.state), TopicInv(x, ib), ib # << >>,
         x.driver.connected, ib[1].packet = "command", NEW r, r = Tail(ib),
         NEW z, NEW p \in Outgoing, p.packet \in {"puback", "unsubscribe"},
         z.requests = Append(x.requests, p),
         z.driver.identity = x.driver.identity, z.driver.connected = x.driver.connected,
         z.driver.recovery = x.driver.recovery,
         p.packet = "unsubscribe" => z.driver.held # << >> /\ unsubscribe_pending(z.driver),
         p.packet = "puback" => z.driver.subscription = x.driver.subscription,
         ~Stays(x.state, z.state) =>
            /\ ~rotation_in_flight(x.state)
            /\ z.state.credential_generation # x.state.credential_generation
            /\ z.state.pending_inbound.topic = x.state.credential_generation
  PROVE  TopicInv(z, r)
  <1>1. x \in Contexts /\ AgentInv(x.state) /\ ib \in Seq(Incoming) /\ x.requests \in Seq(Outgoing)
    BY DEF CtxInv, Contexts
  <1>2. /\ \A name : Has(r, name) => Has(ib, name)
        /\ Has(ib, "command") /\ ~Has(r, "command")
    <2>1. One(ib, "command") BY DEF CtxInv, DeliveryInv
    <2> QED BY <1>1, <2>1, TakePacket
  <1>3. /\ ToSet(z.requests) = ToSet(x.requests) \union {p}
        /\ \A name : Has(z.requests, name) <=> Has(x.requests, name) \/ p.packet = name
    BY <1>1, AppendPacket
  <1>4. /\ PubAckFirst(x.requests) /\ (p.packet = "puback" => ~Has(x.requests, "publish"))
             => PubAckFirst(z.requests)
        /\ \A topic : Leaves(x.requests, topic) => Leaves(z.requests, topic)
    BY <1>1, AppendOrder
  <1>5. ASSUME Stays(x.state, z.state)
        PROVE  /\ Awaited(z.state) <=> Awaited(x.state)
               /\ Awaited(z.state) =>
                    z.state.pending_inbound.topic = x.state.pending_inbound.topic
               /\ z.state.credential_generation = x.state.credential_generation
    BY <1>1, <1>5, StaysPhase
  <1>6. ASSUME ~Stays(x.state, z.state)
        PROVE  x.driver.identity = x.state.credential_generation
    <2>1. ~Blocked(x.state) BY <1>6 DEF Blocked, rotation_in_flight, IsReport
    <2> QED BY <2>1 DEF CtxInv, ConnectInv
  <1>7. Recovering(z) =>
          /\ Recovering(x)
          /\ z.state.pending_inbound.topic = x.state.pending_inbound.topic
    BY <1>5, <1>6 DEF Recovering
  <1>8. z.driver.identity # z.state.credential_generation =>
          z.driver.identity = z.state.pending_inbound.topic
    <2>1. CASE ~Stays(x.state, z.state)
      BY <1>6, <2>1
    <2>2. CASE Stays(x.state, z.state)
      <3>1. x.driver.identity # x.state.credential_generation => Awaited(x.state)
        BY <1>1, BlockedAwaited DEF CtxInv, ConnectInv
      <3> QED BY <1>5, <2>2, <3>1 DEF TopicInv
    <2> QED BY <2>1, <2>2
  <1>9. \A q \in ToSet(z.requests) : q.packet = "subscribe" => q.topic = z.driver.identity
    BY <1>3 DEF TopicInv
  <1>10. Recovering(z) => /\ z.driver.recovery # None
                          /\ z.driver.recovery.topic = z.state.pending_inbound.topic
    BY <1>7 DEF TopicInv
  <1>11. z.driver.held # << >> \/ Has(z.requests, "puback")
    BY <1>3
  <1>12. ASSUME link = "up", Recovering(z)
         PROVE  RecoveryInv(z, r)
    <2>1. /\ RecoveryInv(x, ib) /\ Recovering(x)
          /\ z.state.pending_inbound.topic = x.state.pending_inbound.topic
      BY <1>7, <1>12 DEF TopicInv
    <2>2. /\ unsubscribe_pending(x.driver)
          /\ ~Has(x.requests, "publish") /\ ~Has(x.requests, "subscribe")
          /\ ~Has(ib, "factack") /\ ~Has(ib, "suback")
      BY <1>2, <2>1 DEF RecoveryInv, Hot
    <2>3. unsubscribe_pending(z.driver)
      BY <2>2 DEF unsubscribe_pending
    <2>4. ~Has(z.requests, "publish") /\ ~Has(z.requests, "subscribe")
      BY <1>3, <2>2
    <2> QED BY <1>2, <1>4, <2>1, <2>2, <2>3, <2>4 DEF RecoveryInv
  <1> QED BY <1>8, <1>9, <1>10, <1>11, <1>12 DEF TopicInv

\* Its PUBACK settles the pending delivery, if it is the one.
LEMMA AnsweredToken ==
  ASSUME NEW s, AgentInv(s), PhaseInv(s), NEW m \in Held,
         NEW token, token = pending_delivery_settlement_token(s, m.topic, m.id)
  PROVE  Token(s, token)
  <1> SUFFICES ASSUME token # None
               PROVE  /\ Awaited(s)
                      /\ token = SettlementToken(s.pending_inbound.topic,
                                   s.pending_inbound.command_id,
                                   s.pending_inbound.fingerprint)
    BY DEF Token
  <1>1. /\ s.pending_inbound # None /\ s.pending_inbound.topic = m.topic
        /\ s.pending_inbound.command_id = m.id
        /\ token = SettlementToken(m.topic, m.id, s.pending_inbound.fingerprint)
    BY DEF pending_delivery_settlement_token
  <1>2. rotation_in_flight(s)
    BY <1>1 DEF AgentInv, verify, PendingIffReport
  <1>3. Awaited(s)
    BY <1>1, <1>2 DEF PhaseInv, Clean
  <1> QED BY <1>1, <1>3

\* The session expects it: it comes on the topic of the session, or is the pending
\* delivery.
LEMMA DeliveredInScope ==
  ASSUME NEW x, NEW ib, CtxInv(x, ib), PhaseInv(x.state), PendingInv(x.state),
         TopicInv(x, ib), ScopeInv(x), NEW m, broker.inflight = <<m>>
  PROVE  InScope(x.driver, m)
  <1>1. broker.inflight # << >> /\ broker.inflight[1] = m /\ m \in Held
    <2>1. broker.inflight # << >> /\ broker.inflight[1] = m /\ 1 \in DOMAIN broker.inflight
      OBVIOUS
    <2> QED BY <2>1 DEF Held
  <1>2. CASE Awaited(x.state)
    <2>1. m.topic = x.state.pending_inbound.topic /\ m.id = x.state.pending_inbound.command_id
      BY <1>1, <1>2 DEF PendingInv, Delivers
    <2>2. CASE x.driver.identity # x.state.credential_generation
      BY <2>1, <2>2 DEF TopicInv, InScope
    <2>3. CASE x.driver.identity = x.state.credential_generation
      BY <1>2, <2>1, <2>3 DEF Recovering, ScopeInv, InScope
    <2> QED BY <2>2, <2>3
  <1>3. CASE ~Awaited(x.state)
    <2>1. m.topic = x.state.credential_generation
      BY <1>1, <1>3 DEF PhaseInv, Clean
    <2>2. x.driver.identity = x.state.credential_generation
      BY <1>3, BlockedAwaited DEF CtxInv, ConnectInv
    <2> QED BY <2>1, <2>2 DEF InScope
  <1> QED BY <1>2, <1>3

\* What the session expects stays the same.
LEMMA AnsweredScope ==
  ASSUME NEW x, NEW ib, CtxInv(x, ib), PhaseInv(x.state), ScopeInv(x), ib # << >>,
         ib[1].packet = "command", NEW z, NEW p \in Outgoing, NEW token,
         Token(z.state, token), p.packet = "puback" => p.token = token,
         z.requests = Append(x.requests, p), \A h \in ToSet(z.driver.held) : h = token,
         z.driver.identity = x.driver.identity, z.driver.recovery = x.driver.recovery,
         ~Stays(x.state, z.state) =>
            /\ ~rotation_in_flight(x.state)
            /\ z.state.credential_generation # x.state.credential_generation
  PROVE  ScopeInv(z)
  <1>1. /\ x \in Contexts /\ AgentInv(x.state) /\ ib \in Seq(Incoming)
        /\ x.requests \in Seq(Outgoing)
    BY DEF CtxInv, Contexts
  <1>2. ~Has(x.requests, "puback")
    BY <1>1, TakePacket DEF CtxInv, DeliveryInv
  <1>3. ToSet(z.requests) = ToSet(x.requests) \union {p}
    BY <1>1, AppendPacket
  <1>4. \A q \in ToSet(z.requests) : q.packet = "puback" => Token(z.state, q.token)
    BY <1>2, <1>3 DEF Has
  <1>5. ASSUME Recovering(z)
        PROVE  /\ Recovering(x)
               /\ SameDelivery(x.state.pending_inbound, z.state.pending_inbound)
    <2>1. CASE ~Stays(x.state, z.state)
      <3>1. ~Blocked(x.state) BY <2>1 DEF Blocked, rotation_in_flight, IsReport
      <3>2. x.driver.identity = x.state.credential_generation
        BY <3>1 DEF CtxInv, ConnectInv
      <3> QED BY <1>5, <2>1, <3>2 DEF Recovering
    <2>2. CASE Stays(x.state, z.state)
      <3>1. /\ Awaited(z.state) <=> Awaited(x.state)
            /\ Awaited(z.state) =>
                 SameDelivery(x.state.pending_inbound, z.state.pending_inbound)
            /\ z.state.credential_generation = x.state.credential_generation
        BY <1>1, <2>2, StaysPhase
      <3> QED BY <1>5, <3>1 DEF Recovering
    <2> QED BY <2>1, <2>2
  <1> QED BY <1>4, <1>5 DEF ScopeInv, SameDelivery

\* A command is delivered.
LEMMA CommandTidy ==
  ASSUME NEW x, NEW ib, CtxInv(x, ib), PhaseInv(x.state), PendingInv(x.state),
         TopicInv(x, ib), ScopeInv(x), x.control = "Continue", OrderInv,
         ib # << >>, x.driver.connected,
         ib[1].packet = "command", NEW m, m = ib[1].message
  PROVE  Tidy(on_command(x, m), Tail(ib))
  <1>1. /\ x \in Contexts /\ x.driver \in Drivers /\ AgentInv(x.state)
        /\ ib \in Seq(Incoming) /\ x.driver.identity \in Nat
    BY DEF CtxInv, Contexts, Drivers
  <1>2. PICK r : r = Tail(ib)
    OBVIOUS
  <1>3. ib[1] \in Incoming /\ ib[1] \in ToSet(ib)
    BY <1>1, TakePacket
  <1>4. broker.inflight = <<m>> /\ m \in Messages
    BY <1>3 DEF CtxInv, DeliveryInv, Incoming, ConnAck, SubAck, UnsubAck
  <1>5. PICK e : e = Disposition(x.state, m)
    OBVIOUS
  <1>6. /\ PhaseInv(e.state) /\ PendingInv(e.state)
        /\ ~Stays(x.state, e.state) =>
             /\ ~rotation_in_flight(x.state)
             /\ e.state.credential_generation # x.state.credential_generation
             /\ e.state.pending_inbound.topic = x.state.credential_generation
    BY <1>1, <1>4, <1>5, DispositionPhase
  <1>7. e.state \in States /\ AgentInv(e.state)
    BY <1>1, <1>4, <1>5, DispositionKeeps DEF Keeps, AgentInv
  <1>8. PICK d : d = [x.driver EXCEPT !.observed =
                        @ \/ (x.driver.recovery # None /\ x.driver.recovery.topic = m.topic)]
    OBVIOUS
  <1>9. /\ d \in Drivers /\ d.identity = x.driver.identity
        /\ d.connected = x.driver.connected /\ d.recovery = x.driver.recovery
        /\ d.held = x.driver.held /\ d.subscription = x.driver.subscription
    BY <1>1, <1>8 DEF Drivers
  <1>10. PICK w : w = [x EXCEPT !.driver = d]
    OBVIOUS
  <1>11. /\ w \in Contexts /\ w.state = x.state /\ w.driver = d
         /\ w.requests = x.requests /\ w.control = "Continue"
    BY <1>1, <1>9, <1>10, DriverFields
  <1>12. PICK y : y = WithEffect(w, e)
    OBVIOUS
  <1>13. /\ y \in Contexts /\ y.state = e.state /\ y.driver = d
         /\ y.requests = x.requests
         /\ y.control = IF e.result \in AgentErrors THEN "Fatal" ELSE "Continue"
    BY <1>7, <1>11, <1>12, EffectFields
  <1>14. PICK token \in Tokens \union {None} :
            token = pending_delivery_settlement_token(y.state, m.topic, m.id)
    BY <1>4, <1>7, <1>13, TokenType
  <1>15. PICK hold : hold = should_hold_command_ack(e.result = "Accepted",
                               command_intake_open(y.state, ClockNow), y.driver.shutdown)
    OBVIOUS
  <1>16. on_command(x, m) =
           IF ~InScope(x.driver, m) THEN Fatal(x)
           ELSE IF y.control = "Fatal" THEN y
           ELSE IF hold
           THEN [StartUnsubscribe(y, y.driver.identity) EXCEPT !.driver.held = <<token>>]
           ELSE Queue(y, PubAck(token))
    BY <1>5, <1>8, <1>10, <1>12, <1>14, <1>15 DEF on_command
  <1>17. InScope(x.driver, m)
    BY <1>4, DeliveredInScope
  <1>18. y.control = "Fatal" => Tidy(y, r)
    <2>1. y.control = "Fatal" => e.state = x.state /\ Refused(x.state)
      BY <1>1, <1>4, <1>5, <1>13, DispositionErrors
    <2> QED BY <1>6, <1>13, <2>1 DEF Tidy
  <1>19. Token(e.state, token)
    <2>1. m \in Held
      <3>1. broker.inflight[1] = m /\ 1 \in DOMAIN broker.inflight BY <1>4
      <3> QED BY <3>1 DEF Held
    <2> QED BY <1>6, <1>7, <1>13, <1>14, <2>1, AnsweredToken
  <1>20. ASSUME NEW z, z = Queue(y, PubAck(token)), y.control # "Fatal"
         PROVE  Tidy(z, r)
    <2>1. /\ PubAck(token) \in Outgoing /\ PubAck(token).packet = "puback"
          /\ PubAck(token).token = token
      BY PacketTypes DEF PubAck
    <2>2. /\ z.state = y.state /\ z.driver = y.driver /\ z.control = y.control
          /\ z.requests = Append(y.requests, PubAck(token))
      BY <1>13, <1>20, <2>1, QueueFields
    <2>3. PICK p \in Outgoing : /\ p.packet = "puback" /\ p.token = token
                                /\ z.requests = Append(x.requests, p)
      BY <1>13, <2>1, <2>2
    <2>4. TopicInv(z, r)
      BY <1>2, <1>6, <1>9, <1>13, <2>2, <2>3, AnsweredTopic
    <2>5. x.driver.held = << >>
      BY <1>1, TakePacket DEF CtxInv, DeliveryInv
    <2>6. \A h \in ToSet(z.driver.held) : h = token
      BY <1>9, <1>13, <2>2, <2>5, ShortQueues
    <2>7. ScopeInv(z)
      BY <1>6, <1>9, <1>13, <1>19, <2>2, <2>3, <2>6, AnsweredScope
    <2> QED BY <1>6, <1>13, <1>20, <2>2, <2>4, <2>7 DEF Tidy
  <1>21. ASSUME NEW z,
                z = [StartUnsubscribe(y, y.driver.identity) EXCEPT !.driver.held = <<token>>],
                y.control # "Fatal"
         PROVE  Tidy(z, r)
    <2>1. PICK v : v = StartUnsubscribe(y, y.driver.identity)
      OBVIOUS
    <2>2. /\ Moves(y, v) /\ v.state = y.state /\ v.control = y.control
          /\ v.requests = Append(y.requests, Unsubscribe(y.driver.identity))
          /\ unsubscribe_pending(v.driver) /\ v.driver \in Drivers
      <3>1. PICK topic \in Nat : topic = y.driver.identity BY <1>1, <1>9, <1>13
      <3>2. v = StartUnsubscribe(y, topic) BY <2>1, <3>1
      <3> QED BY <1>13, <3>1, <3>2, UnsubscribeMoves
    <2>3. PICK p \in Outgoing : p.packet = "unsubscribe" /\ v.requests = Append(x.requests, p)
      BY <1>1, <1>9, <1>13, <2>2, PacketTypes
    <2>4. PICK h : h = [v.driver EXCEPT !.held = <<token>>]
      OBVIOUS
    <2>5. /\ h \in Drivers /\ h.identity = v.driver.identity
          /\ h.connected = v.driver.connected /\ h.recovery = v.driver.recovery
          /\ h.held = <<token>> /\ h.subscription = v.driver.subscription
      <3>1. PICK k \in Seq(Tokens \union {None}) : k = <<token>>
        BY OneElement
      <3>2. h = [v.driver EXCEPT !.held = k] BY <2>4, <3>1
      <3> QED BY <2>2, <3>1, <3>2 DEF Drivers
    <2>6. z = [v EXCEPT !.driver = h]
      BY <1>21, <2>1, <2>4
    <2>7. v \in Contexts
      BY <2>2 DEF Moves
    <2>8. /\ z.state = v.state /\ z.driver = h /\ z.requests = v.requests
          /\ z.control = v.control
      BY <2>5, <2>6, <2>7, DriverFields
    <2>9. /\ z.driver.identity = x.driver.identity
          /\ z.driver.connected = x.driver.connected
          /\ z.driver.recovery = x.driver.recovery
      BY <1>9, <1>13, <2>2, <2>5, <2>8 DEF Moves
    <2>10. z.driver.held # << >> /\ unsubscribe_pending(z.driver)
      <3>1. <<token>> # << >> OBVIOUS
      <3> QED BY <2>2, <2>5, <2>8, <3>1 DEF unsubscribe_pending
    <2>11. z.state = e.state /\ z.requests = Append(x.requests, p)
      BY <1>13, <2>2, <2>3, <2>8
    <2>12. TopicInv(z, r)
      BY <1>2, <1>6, <2>3, <2>9, <2>10, <2>11, AnsweredTopic
    <2>13. \A k \in ToSet(z.driver.held) : k = token
      BY <2>5, <2>8, ShortQueues
    <2>14. ScopeInv(z)
      BY <1>6, <1>19, <2>3, <2>9, <2>11, <2>13, AnsweredScope
    <2> QED BY <1>6, <1>13, <1>21, <2>2, <2>8, <2>11, <2>12, <2>14 DEF Tidy
  <1> QED BY <1>2, <1>16, <1>17, <1>18, <1>20, <1>21

\* The next fact is handed to the transport: not while an UNSUBACK is awaited.
LEMMA PublishedTopic ==
  ASSUME NEW x, NEW ib, CtxInv(x, ib), TopicInv(x, ib), ~unsubscribe_pending(x.driver),
         NEW p \in Outgoing, p.packet = "publish",
         NEW y, y.state = x.state, y.requests = Append(x.requests, p),
         y.driver.identity = x.driver.identity, y.driver.connected = x.driver.connected,
         y.driver.recovery = x.driver.recovery, y.driver.held = x.driver.held
  PROVE  TopicInv(y, ib)
  <1>1. x.requests \in Seq(Outgoing)
    BY DEF CtxInv, Contexts
  <1>2. /\ ToSet(y.requests) = ToSet(x.requests) \union {p}
        /\ \A name : Has(y.requests, name) <=> Has(x.requests, name) \/ p.packet = name
        /\ PubAckFirst(x.requests) => PubAckFirst(y.requests)
    <2>1. PubAckFirst(x.requests) => PubAckFirst(y.requests)
      BY <1>1, AppendOrder
    <2> QED BY <1>1, <2>1, AppendPacket
  <1>3. Recovering(y) <=> Recovering(x)
    BY DEF Recovering
  <1>4. ASSUME link = "up", Recovering(y), y.driver.connected
        PROVE  RecoveryInv(y, ib)
    <2>1. RecoveryInv(x, ib)
      BY <1>3, <1>4 DEF TopicInv
    <2>2. ~Hot(x, ib)
      BY <2>1 DEF RecoveryInv
    <2> QED BY <1>2, <2>1, <2>2 DEF RecoveryInv, Hot
  <1>5. \A q \in ToSet(y.requests) : q.packet = "subscribe" => q.topic = y.driver.identity
    BY <1>2 DEF TopicInv
  <1> QED BY <1>2, <1>3, <1>4, <1>5 DEF TopicInv

\* The top of the loop.
LEMMA LoopTopTidy ==
  ASSUME NEW x, NEW y, NEW ib, Good(x, y, ib), Tidy(y, ib)
  PROVE  Tidy(LoopTop(y), ib) /\ LoopTop(y).state = y.state
  <1>1. y \in Contexts /\ y.driver \in Drivers /\ y.state \in States
    BY DEF Good, Contexts, AgentInv
  <1>2. PICK i : i = next_outbound(y.state)
    OBVIOUS
  <1>3. PICK q : q = Queue(y, PublishFact(y.state.outbox[i].event))
    OBVIOUS
  <1>4. PICK p : p = [q EXCEPT !.driver.publish = "Pending"]
    OBVIOUS
  <1>5. ASSUME y.control = "Continue", can_publish(y.driver), i # 0
        PROVE  /\ p \in Contexts /\ p.state = y.state /\ TopicInv(p, ib) /\ ScopeInv(p)
               /\ p.control = "Continue"
    <2>1. CtxInv(y, ib) /\ TopicInv(y, ib) /\ ScopeInv(y) BY <1>5 DEF Good, Tidy
    <2>2. i \in DOMAIN y.state.outbox
      BY <1>1, <1>2, <1>5, NextOutboundQueued
    <2>3. PICK fact \in Outgoing :
             fact = PublishFact(y.state.outbox[i].event) /\ fact.packet = "publish"
      <3>1. y.state.outbox \in Seq(Facts) BY <1>1 DEF States, Facts
      <3>2. y.state.outbox[i] \in Facts BY <2>2, <3>1
      <3>3. y.state.outbox[i].event \in Events BY <3>2 DEF Facts, Acks, Reports
      <3> QED BY <3>3, PacketTypes
    <2>4. /\ q \in Contexts /\ q.state = y.state /\ q.driver = y.driver
          /\ q.requests = Append(y.requests, fact) /\ q.control = y.control
      BY <1>1, <1>3, <2>3, QueueFields
    <2>5. PICK d : d = [y.driver EXCEPT !.publish = "Pending"]
      OBVIOUS
    <2>6. /\ d \in Drivers /\ d.identity = y.driver.identity
          /\ d.connected = y.driver.connected /\ d.recovery = y.driver.recovery
          /\ d.held = y.driver.held
      BY <1>1, <2>5 DEF Drivers
    <2>7. p = [q EXCEPT !.driver = d]
      BY <1>4, <2>4, <2>5
    <2>8. /\ p \in Contexts /\ p.state = q.state /\ p.driver = d /\ p.requests = q.requests
          /\ p.control = q.control
      BY <2>4, <2>6, <2>7, DriverFields
    <2>9. ~unsubscribe_pending(y.driver)
      BY <1>5 DEF can_publish
    <2>10. TopicInv(p, ib)
      BY <2>1, <2>3, <2>4, <2>6, <2>8, <2>9, PublishedTopic
    <2>11. ToSet(p.requests) = ToSet(y.requests) \union {fact}
      <3>1. y.requests \in Seq(Outgoing) BY <1>1 DEF Contexts
      <3> QED BY <2>4, <2>8, <3>1, AppendPacket
    <2>12. ScopeInv(p)
      BY <2>1, <2>3, <2>4, <2>6, <2>8, <2>11 DEF ScopeInv, Recovering
    <2> QED BY <1>5, <2>4, <2>8, <2>10, <2>12
  <1>6. PICK w : w = publish_next(y)
    OBVIOUS
  <1>7. w = IF can_publish(y.driver) /\ i # 0 THEN p ELSE y
    BY <1>2, <1>3, <1>4, <1>6 DEF publish_next
  <1>8. ASSUME y.control = "Continue"
        PROVE  /\ w \in Contexts /\ w.state = y.state /\ TopicInv(w, ib) /\ ScopeInv(w)
               /\ w.control = "Continue"
    BY <1>1, <1>5, <1>7, <1>8 DEF Tidy
  <1>9. CASE y.control # "Continue"
    <2>1. LoopTop(y) = y BY <1>9 DEF LoopTop
    <2> QED BY <2>1
  <1>10. CASE y.control = "Continue"
    <2>1. PICK v : v = [w EXCEPT !.control = "Shutdown"]
      OBVIOUS
    <2>2. LoopTop(y) = v \/ LoopTop(y) = w
      BY <1>6, <1>10, <2>1 DEF LoopTop
    <2>3. v.state = w.state /\ v.control = "Shutdown"
      BY <1>8, <1>10, <2>1, ControlFields
    <2> QED BY <1>8, <1>10, <2>2, <2>3 DEF Tidy
  <1> QED BY <1>9, <1>10

-----------------------------------------------------------------------------
(* The steps, with regard to the old topic. *)

\* The broker and the server do nothing: the order stays.
LEMMA SameOrder ==
  ASSUME UNCHANGED environment, OrderInv
  PROVE  OrderInv'
  BY DEF environment, OrderInv, Held, Answered

\* The phase is that of the state it was shown for.
LEMMA SamePhase ==
  ASSUME UNCHANGED environment, NEW t, PhaseInv(t), state' = t
  PROVE  PhaseInv(state)'
  <1>1. broker' = broker /\ received' = received /\ position' = position
    BY DEF environment
  <1> QED BY <1>1 DEF PhaseInv, Awaited, Reported, Clean, Held, Answered

\* The session is in the context it was shown for.
LEMMA SameTopic ==
  ASSUME UNCHANGED environment, NEW y, NEW ib, TopicInv(y, ib), Here' = y, inbox' = ib,
         link' \in {link, "broken"}
  PROVE  TopicInv(Here, inbox)'
  <1>1. broker' = broker /\ received' = received /\ position' = position
    BY DEF environment
  <1> QED BY <1>1 DEF TopicInv, Recovering, Awaited, Reported, RecoveryInv, Hot

\* So are what is pending and what may stop the process,
LEMMA SamePending ==
  ASSUME UNCHANGED environment, NEW t, state' = t
  PROVE  /\ PendingInv(t) => PendingInv(state)'
         /\ Refused(t) => Refused(state)'
  <1>1. broker' = broker /\ received' = received
    BY DEF environment
  <1>2. PendingInv(t) => PendingInv(state)'
    BY <1>1 DEF PendingInv, Awaited, Reported, Delivers
  <1>3. Refused(t) => Refused(state)'
    BY <1>1 DEF Refused
  <1> QED BY <1>2, <1>3

\* and what the session expects.
LEMMA SameScope ==
  ASSUME UNCHANGED environment, NEW y, ScopeInv(y), Here' = y, state' = y.state,
         NEW left, SentInv(y.state, left), sent' = left
  PROVE  ScopeInv(Here)' /\ SentInv(state, sent)'
  <1>1. broker' = broker /\ received' = received
    BY DEF environment
  <1>2. PICK s : s = y.state
    OBVIOUS
  <1>3. Awaited(s)' <=> Awaited(s)
    BY <1>1 DEF Awaited, Reported
  <1>4. \A token : Token(s, token)' <=> Token(s, token)
    BY <1>3 DEF Token
  <1>5. ScopeInv(Here)'
    BY <1>2, <1>3, <1>4 DEF ScopeInv, Recovering
  <1>6. SentInv(state, sent)'
    BY <1>2, <1>4 DEF SentInv
  <1> QED BY <1>5, <1>6

\* The agent's state stays: no new command is in flight while the report is
\* awaited, and when it is not awaited any more, no PUBACK is left that settles it.
LEMMA AnswerKept ==
  ASSUME NInv, state' = state, NEW flight, broker'.inflight = flight,
         Awaited(state)' => Awaited(state) /\ (flight # << >> => flight = broker.inflight),
         process' = "failed" => process = "failed" /\ flight = broker.inflight,
         NEW r, requests' = r, ToSet(r) \subseteq ToSet(requests),
         driver' # None => driver' = driver,
         NEW left, sent' = left, driver' # None /\ left # sent => SentInv(state, left)',
         driver' # None /\ Awaited(state) /\ ~Awaited(state)' =>
            driver.held = << >> /\ ~Has(r, "puback") /\ left = << >>
  PROVE  AnswerInv'
  <1>1. AnswerInv /\ IInv
    BY DEF NInv
  <1>2. PendingInv(state)'
    BY <1>1 DEF AnswerInv, PendingInv, Delivers
  <1>3. ASSUME Awaited(state) => Awaited(state)'
        PROVE  \A token : Token(state, token) => Token(state, token)'
    BY <1>3 DEF Token
  <1>4. ASSUME driver' # None
        PROVE  ScopeInv(Here)'
    <2>1. PICK x : x = Here
      OBVIOUS
    <2>2. /\ ScopeInv(x) /\ x.state = state /\ x.driver = driver /\ x.requests = requests
      BY <1>1, <1>4, <2>1, HereFacts DEF AnswerInv
    <2>3. PICK n : n = Context(state, driver, r)
      OBVIOUS
    <2>4. Here' = n /\ n.state = state /\ n.driver = driver /\ n.requests = r
      BY <1>4, <2>3 DEF Here, Context
    <2>5. Recovering(n)' => Recovering(x)
      BY <2>2, <2>4 DEF Recovering
    <2>6. Recovering(n)' =>
            driver.recovery = [topic |-> state.pending_inbound.topic,
                               command_id |-> state.pending_inbound.command_id]
      BY <2>2, <2>5 DEF ScopeInv
    <2>7. /\ \A p \in ToSet(r) : p.packet = "puback" => Token(state, p.token)
          /\ \A token \in ToSet(driver.held) : Token(state, token)
      BY <2>2 DEF ScopeInv
    <2>8. /\ \A p \in ToSet(r) : p.packet = "puback" => Token(n.state, p.token)'
          /\ \A token \in ToSet(driver.held) : Token(n.state, token)'
      <3>1. CASE Awaited(state) => Awaited(state)'
        BY <1>3, <2>4, <2>7, <3>1
      <3>2. CASE Awaited(state) /\ ~Awaited(state)'
        BY <1>4, <3>2, ShortQueues DEF Has
      <3> QED BY <3>1, <3>2
    <2> QED BY <2>4, <2>6, <2>8 DEF ScopeInv
  <1>5. ASSUME driver' # None
        PROVE  SentInv(state, sent)'
    <2>1. CASE left # sent
      BY <1>5, <2>1
    <2>2. CASE left = sent /\ (Awaited(state) => Awaited(state)')
      BY <1>1, <1>3, <1>5, <2>2 DEF AnswerInv, SentInv
    <2>3. CASE Awaited(state) /\ ~Awaited(state)'
      BY <1>5, <2>3 DEF SentInv
    <2> QED BY <2>1, <2>2, <2>3
  <1>6. process' = "failed" => Refused(state)'
    BY <1>1 DEF AnswerInv, Refused
  <1> QED BY <1>2, <1>4, <1>5, <1>6 DEF AnswerInv

\* A handler comes back to the top of the loop.
LEMMA HandledTidy ==
  ASSUME NInv, IInv', driver # None, NEW y, NEW ib, NEW left, y \in Contexts, Tidy(y, ib),
         SentInv(y.state, left), Handled(y, ib, left)
  PROVE  NInv'
  <1>1. state' = y.state /\ UNCHANGED environment
    BY DEF Handled
  <1>2. OrderInv' /\ PhaseInv(state)'
    BY <1>1, SameOrder, SamePhase DEF NInv, Tidy
  <1>3. PendingInv(state)'
    BY <1>1, SamePending DEF Tidy
  <1>4. CASE y.control # "Continue"
    <2>1. driver' = None BY <1>4 DEF Handled, EndSession
    <2>2. process' = "failed" => y.control = "Fatal"
      BY <1>4 DEF Handled, Contexts
    <2>3. process' = "failed" => Refused(state)'
      BY <1>1, <2>2, SamePending DEF Tidy
    <2> QED BY <1>2, <1>3, <2>1, <2>3 DEF NInv, AnswerInv
  <1>5. CASE y.control = "Continue"
    <2>1. /\ driver' = y.driver /\ requests' = y.requests /\ inbox' = ib
          /\ link' = link /\ process' = process /\ sent' = left
      BY <1>5 DEF Handled
    <2>2. Here' = y
      BY <1>1, <1>5, <2>1 DEF Here, Context, Contexts
    <2>3. TopicInv(y, ib) /\ ScopeInv(y)
      BY <1>5 DEF Tidy
    <2>4. TopicInv(Here, inbox)'
      BY <1>1, <2>1, <2>2, <2>3, SameTopic
    <2>5. ScopeInv(Here)' /\ SentInv(state, sent)'
      BY <1>1, <2>1, <2>2, <2>3, SameScope
    <2>6. process' = "up"
      BY <2>1 DEF NInv, IInv
    <2> QED BY <1>2, <1>3, <2>4, <2>5, <2>6 DEF NInv, AnswerInv
  <1> QED BY <1>4, <1>5

\* handle_event for a packet of the broker.
LEMMA HandlePacketTidy ==
  ASSUME NEW x, NEW ib, CtxInv(x, ib), PhaseInv(x.state), PendingInv(x.state),
         TopicInv(x, ib), ScopeInv(x), x.control = "Continue", OrderInv, ib # << >>
  PROVE  Tidy(HandlePacket(x, ib[1]), Tail(ib))
  <1>1. PICK p : p = ib[1]
    OBVIOUS
  <1>2. p \in Incoming
    BY <1>1, TakePacket DEF CtxInv
  <1>3. p.packet \in {"connack", "suback", "unsuback", "command", "factack"}
    BY <1>2 DEF Incoming, ConnAck, SubAck, UnsubAck
  <1>4. p.packet = "connack" <=> ~x.driver.connected
    BY <1>1, FirstPacket
  <1>5. PICK y : y = HandlePacket(x, p)
    OBVIOUS
  <1>6. CASE p.packet = "connack"
    <2>1. y = on_connected(x) BY <1>5, <1>6 DEF HandlePacket
    <2> QED BY <1>1, <1>4, <1>5, <1>6, <2>1, ConnectedTidy
  <1>7. CASE p.packet = "suback"
    <2>1. y = on_subscribed(x) BY <1>5, <1>7 DEF HandlePacket
    <2> QED BY <1>1, <1>4, <1>5, <1>7, <2>1, SubscribedTidy
  <1>8. CASE p.packet = "unsuback"
    <2>1. y = on_unsubscribed(x) BY <1>5, <1>8 DEF HandlePacket
    <2> QED BY <1>1, <1>4, <1>5, <1>8, <2>1, UnsubscribedTidy
  <1>9. CASE p.packet = "command"
    <2>1. PICK m : m = p.message OBVIOUS
    <2>2. y = on_command(x, m) BY <1>5, <1>9, <2>1 DEF HandlePacket
    <2> QED BY <1>1, <1>4, <1>5, <1>9, <2>1, <2>2, CommandTidy
  <1>10. CASE p.packet = "factack"
    <2>1. PICK event : event = p.event OBVIOUS
    <2>2. y = on_outbound_acknowledged(x, event) BY <1>5, <1>10, <2>1 DEF HandlePacket
    <2> QED BY <1>1, <1>4, <1>5, <1>10, <2>1, <2>2, OutboundAckTidy
  <1> QED BY <1>3, <1>5, <1>1, <1>6, <1>7, <1>8, <1>9, <1>10

\* The events of a session.
LEMMA PollTidy ==
  ASSUME NInv, IInv', PollPacket \/ PollSent \/ StartShutdown
  PROVE  NInv'
  <1>1. driver # None /\ IInv
    BY DEF PollPacket, PollSent, StartShutdown, NInv
  <1>2. PICK x : x = Here
    OBVIOUS
  <1>3. /\ CtxInv(x, inbox) /\ x.control = "Continue" /\ x.state = state
        /\ PhaseInv(x.state) /\ PendingInv(x.state) /\ TopicInv(x, inbox)
        /\ ScopeInv(x) /\ SentInv(x.state, sent) /\ OrderInv
    BY <1>1, <1>2, HereFacts DEF NInv, AnswerInv
  <1>4. PICK y, ib, left :
          /\ Good(x, y, ib) /\ Tidy(y, ib) /\ SentInv(y.state, left)
          /\ Handled(LoopTop(y), ib, left)
    <2>1. CASE PollPacket
      <3>1. PICK y : y = HandlePacket(x, inbox[1]) OBVIOUS
      <3>2. inbox # << >> /\ Handled(LoopTop(y), Tail(inbox), sent) /\ sent = << >>
        BY <1>2, <2>1, <3>1 DEF PollPacket
      <3>3. Good(x, y, Tail(inbox)) /\ Tidy(y, Tail(inbox))
        BY <1>3, <3>1, <3>2, HandlePacketGood, HandlePacketTidy
      <3>4. SentInv(y.state, sent)
        BY <3>2 DEF SentInv
      <3> QED BY <3>2, <3>3, <3>4
    <2>2. CASE PollSent
      <3>1. PICK token : sent = <<token>> /\ Token(x.state, token)
        BY <1>3, <2>2 DEF PollSent, SentInv
      <3>2. sent[1] = token /\ Tail(sent) = << >>
        BY <3>1
      <3>3. PICK y : y = on_inbound_acknowledged(x, token) OBVIOUS
      <3>4. Handled(LoopTop(y), inbox, << >>)
        BY <1>2, <2>2, <3>2, <3>3 DEF PollSent
      <3>5. Good(x, y, inbox) /\ Tidy(y, inbox)
        BY <1>3, <3>1, <3>3, InboundAckGood, InboundAckTidy
      <3>6. SentInv(y.state, << >>)
        BY DEF SentInv
      <3> QED BY <3>4, <3>5, <3>6
    <2>3. CASE StartShutdown
      <3>1. PICK y : y = start_shutdown(x) OBVIOUS
      <3>2. Handled(LoopTop(y), inbox, sent)
        BY <1>2, <2>3, <3>1 DEF StartShutdown
      <3>3. Good(x, y, inbox) /\ Tidy(y, inbox) /\ y.state = x.state
        BY <1>3, <3>1, ShutdownGood, ShutdownTidy
      <3> QED BY <1>3, <3>2, <3>3
    <2> QED BY <2>1, <2>2, <2>3
  <1>5. PICK z : z = LoopTop(y)
    OBVIOUS
  <1>6. Good(x, z, ib) /\ Tidy(z, ib) /\ z.state = y.state
    BY <1>4, <1>5, LoopTopGood, LoopTopTidy
  <1>7. z \in Contexts /\ SentInv(z.state, left)
    BY <1>4, <1>6 DEF Good
  <1> QED BY <1>1, <1>4, <1>5, <1>6, <1>7, HandledTidy

\* The steps that end a session, or take place without one.
LEMMA OtherTidy ==
  ASSUME NInv, IInv',
         \/ ShutdownDeadline \/ ConnectionError \/ StopRetrying \/ Crash
         \/ ShutdownSignal \/ Restart \/ UNCHANGED vars
  PROVE  NInv'
  <1>1. state' = state /\ UNCHANGED environment
    BY DEF ShutdownDeadline, ConnectionError, StopRetrying, Crash, ShutdownSignal,
           Restart, vars
  <1>2. OrderInv' /\ PhaseInv(state)'
    BY <1>1, SameOrder, SamePhase DEF NInv
  <1>3. AnswerInv'
    <2>1. broker' = broker /\ received' = received
      BY <1>1 DEF environment
    <2>2. Awaited(state)' <=> Awaited(state)
      BY <1>1, <2>1 DEF Awaited, Reported
    <2>3. process' = "failed" => process = "failed"
      BY DEF ShutdownDeadline, ConnectionError, StopRetrying, Crash, ShutdownSignal,
             Restart, vars
    <2>4. UNCHANGED device \/ EndSession
      BY DEF ShutdownDeadline, ConnectionError, StopRetrying, Crash, ShutdownSignal,
             Restart, vars
    <2>5. PICK r, left, flight : r = requests' /\ left = sent' /\ flight = broker.inflight
      OBVIOUS
    <2>6. /\ ToSet(r) \subseteq ToSet(requests) /\ (driver' # None => driver' = driver)
          /\ driver' # None => left = sent
      BY <2>4, <2>5, ShortQueues DEF device, EndSession
    <2> QED BY <1>1, <2>1, <2>2, <2>3, <2>5, <2>6, AnswerKept
  <1>4. CASE driver' = None
    BY <1>2, <1>3, <1>4 DEF NInv
  <1>5. CASE driver' # None
    <2>1. UNCHANGED device
      BY <1>5 DEF ShutdownDeadline, ConnectionError, StopRetrying, Crash, ShutdownSignal,
                  Restart, vars, EndSession
    <2>2. driver' = driver /\ requests' = requests /\ link' = link /\ inbox' = inbox
      BY <2>1 DEF device
    <2>3. PICK x, ib : x = Here /\ ib = inbox
      OBVIOUS
    <2>4. Here' = x /\ inbox' = ib /\ TopicInv(x, ib)
      BY <1>1, <1>5, <2>2, <2>3 DEF Here, NInv
    <2>5. TopicInv(Here, inbox)'
      BY <1>1, <2>2, <2>4, SameTopic
    <2> QED BY <1>2, <1>3, <2>5 DEF NInv
  <1> QED BY <1>4, <1>5

\* The connection breaks.
LEMMA BreakLinkTidy ==
  ASSUME NInv, IInv', BreakLink
  PROVE  NInv'
  <1>1. /\ link = "up" /\ link' = "broken"
        /\ UNCHANGED <<state, process, driver, requests, sent, environment>>
    BY DEF BreakLink
  <1>2. PICK n \in 0 .. Len(inbox) : inbox' = SubSeq(inbox, 1, n)
    BY DEF BreakLink
  <1>3. IInv /\ driver # None
    BY <1>1 DEF NInv, IInv
  <1>4. PICK x : x = Here
    OBVIOUS
  <1>5. /\ TopicInv(x, inbox) /\ inbox \in Seq(Incoming) /\ Here' = x
    BY <1>1, <1>3, <1>4, HereFacts DEF Here, NInv
  <1>6. ToSet(inbox') \subseteq ToSet(inbox)
    BY <1>2, <1>5, PrefixPackets
  <1>7. OrderInv' /\ PhaseInv(state)'
    BY <1>1, SameOrder, SamePhase DEF NInv
  <1>8. broker' = broker /\ received' = received
    BY <1>1 DEF environment
  <1>9. TopicInv(Here, inbox)'
    BY <1>1, <1>5, <1>6, <1>8 DEF TopicInv, Recovering, Awaited, Reported
  <1>10. AnswerInv'
    <2>1. Awaited(state)' <=> Awaited(state)
      BY <1>1, <1>8 DEF Awaited, Reported
    <2>2. PICK r, left, flight : r = requests /\ left = sent /\ flight = broker.inflight
      OBVIOUS
    <2> QED BY <1>1, <1>8, <2>1, <2>2, AnswerKept
  <1> QED BY <1>7, <1>9, <1>10 DEF NInv

\* What comes after the first packet is still there.
LEMMA TailHas ==
  ASSUME NEW S, NEW q \in Seq(S), q # << >>, NEW name, Has(q, name), q[1].packet # name,
         NEW r, r = Tail(q)
  PROVE  Has(r, name)
  <1>1. /\ Len(q) \in Nat /\ Len(q) > 0 /\ DOMAIN q = 1 .. Len(q)
        /\ DOMAIN r = 1 .. Len(q) - 1
        /\ \A i \in 1 .. Len(q) - 1 : r[i] = q[i + 1]
    BY HeadTailProperties, EmptySeq
  <1>2. PICK i \in DOMAIN q : q[i].packet = name
    BY DEF Has, ToSet
  <1>3. i # 1 BY <1>2
  <1>4. i - 1 \in DOMAIN r /\ r[i - 1] = q[i]
    BY <1>1, <1>3
  <1> QED BY <1>2, <1>4 DEF Has, ToSet

\* run_session connects.
LEMMA StartSessionTidy ==
  ASSUME NInv, IInv', StartSession
  PROVE  NInv'
  <1>1. /\ driver' = NewDriver(state) /\ requests' = << >> /\ state' = state
        /\ sent' = << >> /\ process' = "up" /\ UNCHANGED environment
        /\ inbox' = <<ConnAck>> \o (IF broker.inflight = << >> THEN << >>
                                    ELSE <<Command(broker.inflight[1])>>)
    BY DEF StartSession
  <1>2. broker' = broker /\ received' = received
    BY <1>1 DEF environment
  <1>3. OrderInv' /\ PhaseInv(state)'
    BY <1>1, SameOrder, SamePhase DEF NInv
  <1>4. AgentInv(state) /\ BrokerInv
    BY DEF NInv, IInv
  <1>5. PICK d : d = NewDriver(state)
    OBVIOUS
  <1>6. /\ d.identity = state.credential_generation /\ ~d.connected
        /\ state.pending_inbound # None =>
             /\ d.recovery # None /\ d.recovery.topic = state.pending_inbound.topic
             /\ d.recovery = [topic |-> state.pending_inbound.topic,
                              command_id |-> state.pending_inbound.command_id]
        /\ d.held = << >>
    <2>1. /\ d.identity = state.credential_generation /\ d.connected = FALSE
          /\ d.held = << >>
          /\ d.recovery = IF state.pending_inbound = None THEN None
                          ELSE [topic |-> state.pending_inbound.topic,
                                command_id |-> state.pending_inbound.command_id]
      BY <1>5 DEF NewDriver
    <2>2. ASSUME state.pending_inbound # None
          PROVE  d.recovery # None /\ d.recovery.topic = state.pending_inbound.topic
      <3>1. state.pending_inbound \in PendingInbound
        BY <1>4, <2>2 DEF AgentInv, States
      <3>2. d.recovery \in [topic : Nat, command_id : CommandIds]
        BY <2>1, <2>2, <3>1 DEF PendingInbound
      <3>3. None \notin [topic : Nat, command_id : CommandIds]
        BY ScriptAssumption, Zenon
      <3> QED BY <2>1, <2>2, <3>2, <3>3
    <2> QED BY <2>1, <2>2
  <1>7. PICK one : one = <<ConnAck>>
    OBVIOUS
  <1>8. one \in Seq(Incoming) /\ ToSet(one) = {ConnAck} /\ ConnAck.packet = "connack"
    <2>1. ConnAck \in Incoming /\ ConnAck.packet = "connack" BY IncomingTypes
    <2>2. one \in Seq(Incoming) BY <1>7, <2>1, OneElement
    <2> QED BY <1>7, <2>1, <2>2, ShortQueues
  <1>9. PICK ib : /\ ib = inbox'
                  /\ \A p \in ToSet(ib) : p.packet \in {"connack", "command"}
                  /\ broker.inflight # << >> => Has(ib, "command")
    <2>1. CASE broker.inflight = << >>
      <3>1. inbox' = one
        BY <1>1, <1>7, <1>8, <2>1, ConcatEmptySeq
      <3> QED BY <1>8, <2>1, <3>1
    <2>2. CASE broker.inflight # << >>
      <3>1. PICK m : m = broker.inflight[1]
        OBVIOUS
      <3>2. m \in Messages
        BY <1>4, <2>2, <3>1 DEF BrokerInv
      <3>3. PICK q \in Incoming : q = Command(m) /\ q.packet = "command"
        BY <3>2, IncomingTypes
      <3>4. PICK two : two = Append(one, q)
        OBVIOUS
      <3>5. inbox' = two
        <4>1. one \o <<q>> = Append(one, q) BY <1>8, <3>3
        <4> QED BY <1>1, <1>7, <2>2, <3>1, <3>3, <3>4, <4>1
      <3>6. /\ ToSet(two) = ToSet(one) \union {q}
            /\ \A name : Has(two, name) <=> Has(one, name) \/ q.packet = name
        BY <1>8, <3>3, <3>4, AppendPacket
      <3> QED BY <1>8, <3>3, <3>5, <3>6
    <2> QED BY <2>1, <2>2
  <1>10. PICK n : n = Context(state, d, << >>)
    OBVIOUS
  <1>11. Here' = n /\ n.state = state /\ n.driver = d /\ n.requests = << >>
    BY <1>1, <1>5, <1>10 DEF Here, Context
  <1>12. rotation_in_flight(state) => state.pending_inbound # None
    BY <1>4 DEF AgentInv, verify, PendingIffReport
  <1>13. TopicInv(Here, inbox)'
    <2>1. ToSet(n.requests) = {} BY <1>11, ShortQueues
    <2> QED BY <1>2, <1>6, <1>9, <1>11, <1>12, <2>1 DEF TopicInv, Recovering, Awaited, Reported
  <1>14. AnswerInv'
    <2>1. PendingInv(state)'
      BY <1>1, SamePending DEF NInv, AnswerInv
    <2>2. ToSet(n.requests) = {} /\ ToSet(d.held) = {}
      BY <1>6, <1>11, ShortQueues
    <2>3. Recovering(n)' => state.pending_inbound # None
      BY <1>11, <1>12 DEF Recovering, Awaited
    <2>4. ScopeInv(Here)'
      BY <1>6, <1>11, <2>2, <2>3 DEF ScopeInv
    <2> QED BY <1>1, <2>1, <2>4 DEF AnswerInv, SentInv
  <1> QED BY <1>3, <1>13, <1>14 DEF NInv

\* The broker delivers the next command.
LEMMA DeliverTidy ==
  ASSUME NInv, IInv', Deliver
  PROVE  NInv'
  <1>1. /\ link = "up" /\ broker.inflight = << >> /\ broker.queue # << >>
        /\ broker' = [broker EXCEPT !.inflight = <<broker.queue[1]>>, !.queue = Tail(@)]
        /\ inbox' = Append(inbox, Command(broker.queue[1]))
        /\ UNCHANGED <<state, process, driver, requests, sent, link, received, position>>
    BY DEF Deliver
  <1>2. driver # None /\ IInv /\ BrokerInv /\ process = "up"
    BY <1>1 DEF NInv, IInv
  <1>3. PICK x : x = Here
    OBVIOUS
  <1>4. /\ CtxInv(x, inbox) /\ x.state = state /\ x.driver = driver /\ x.requests = requests
        /\ inbox \in Seq(Incoming) /\ Here' = x /\ TopicInv(x, inbox)
    BY <1>1, <1>2, <1>3, HereFacts DEF Here, NInv
  <1>5. PICK m : m = broker.queue[1]
    OBVIOUS
  <1>6. PICK u : u = Tail(broker.queue)
    OBVIOUS
  <1>7. /\ broker.queue \in Seq(Messages) /\ m \in Messages /\ u \in Seq(Messages)
        /\ Len(broker.queue) \in Nat /\ 1 \in DOMAIN broker.queue
        /\ Len(u) = Len(broker.queue) - 1
        /\ \A i \in DOMAIN u : i \in Int /\ i + 1 \in DOMAIN broker.queue
                               /\ u[i] = broker.queue[i + 1]
        /\ u # << >> => 1 < Len(broker.queue)
    <2>1. broker.queue \in Seq(Messages) BY <1>2 DEF BrokerInv
    <2>2. /\ m \in Messages /\ u \in Seq(Messages) /\ DOMAIN u = 1 .. Len(broker.queue) - 1
          /\ Len(u) = Len(broker.queue) - 1
          /\ \A i \in 1 .. Len(broker.queue) - 1 : u[i] = broker.queue[i + 1]
          /\ Len(broker.queue) \in Nat /\ Len(broker.queue) > 0
          /\ DOMAIN broker.queue = 1 .. Len(broker.queue)
      BY <1>1, <1>5, <1>6, <2>1, HeadTailProperties, EmptySeq
    <2>3. u # << >> => Len(u) > 0
      BY <2>2
    <2> QED BY <2>1, <2>2, <2>3
  <1>8. PICK one : one = <<m>>
    OBVIOUS
  <1>9. one \in Seq(Messages) /\ DOMAIN one = {1} /\ one[1] = m
    <2>1. one \in Seq(Messages) BY <1>7, <1>8, OneElement
    <2>2. DOMAIN one = {1} /\ one[1] = m BY <1>8
    <2> QED BY <2>1, <2>2
  <1>10. /\ broker'.queue = u /\ broker'.inflight = one
         /\ broker'.subscriptions = broker.subscriptions
    BY <1>1, <1>2, <1>5, <1>6, <1>7, <1>8, <1>9 DEF BrokerInv
  <1>11. Held' \subseteq Held
    <2>1. ASSUME NEW i \in DOMAIN u PROVE u[i] \in Held
      BY <1>7 DEF Held
    <2>2. m \in Held BY <1>5, <1>7 DEF Held
    <2> QED BY <1>9, <1>10, <2>1, <2>2 DEF Held
  <1>12. \A i \in DOMAIN broker.queue :
            i < Len(broker.queue) => Answered(broker.queue[i])
    BY DEF NInv, OrderInv
  <1>13. OrderInv'
    <2>1. \A k \in Held' : \E i \in 1 .. position' : k = Script[i]
      BY <1>1, <1>11 DEF NInv, OrderInv
    <2>2. ASSUME NEW i \in DOMAIN u, i < Len(u) PROVE Answered(u[i])
      <3>1. i + 1 < Len(broker.queue) BY <1>7, <2>2
      <3> QED BY <1>7, <1>12, <3>1
    <2>3. u # << >> => Answered(m)
      BY <1>5, <1>7, <1>12
    <2>4. /\ \A i \in DOMAIN u : i < Len(u) => Answered(u[i])'
          /\ u # << >> => Answered(one[1])'
      BY <1>1, <1>9, <2>2, <2>3 DEF Answered
    <2> QED BY <1>10, <2>1, <2>4 DEF OrderInv
  <1>14. ~Awaited(state) /\ Clean(state.credential_generation)
    BY <1>1 DEF NInv, PhaseInv
  <1>15. Clean(state.credential_generation)'
    BY <1>1, <1>10, <1>11, <1>14 DEF Clean
  <1>16. ~Awaited(state)'
    BY <1>1, <1>14 DEF Awaited, Reported
  <1>17. PhaseInv(state)'
    BY <1>1, <1>15, <1>16 DEF NInv, PhaseInv
  <1>18. PICK q \in Incoming : q = Command(m) /\ q.packet = "command"
    BY <1>7, IncomingTypes
  <1>19. PICK ib : ib = Append(inbox, q)
    OBVIOUS
  <1>20. /\ ToSet(ib) = ToSet(inbox) \union {q} /\ inbox' = ib
         /\ \A name : Has(ib, name) <=> Has(inbox, name) \/ q.packet = name
    <2>1. inbox' = ib BY <1>1, <1>5, <1>18, <1>19
    <2> QED BY <1>4, <1>18, <1>19, <2>1, AppendPacket
  <1>21. ~Recovering(Here)'
    BY <1>4, <1>1, <1>16 DEF Recovering
  <1>22. TopicInv(Here, inbox)'
    BY <1>4, <1>18, <1>20, <1>21 DEF TopicInv
  <1>23. AnswerInv'
    <2>1. PICK r, left : r = requests /\ left = sent
      OBVIOUS
    <2> QED BY <1>1, <1>2, <1>10, <1>14, <1>16, <2>1, AnswerKept
  <1> QED BY <1>13, <1>17, <1>22, <1>23 DEF NInv

\* The server sends the next message.
LEMMA ServerSendsTidy ==
  ASSUME NInv, IInv', ServerSends
  PROVE  NInv'
  <1>1. /\ position < Len(Script) /\ position' = position + 1
        /\ broker' = [broker EXCEPT !.queue = Append(broker.queue, Script[position + 1])]
        /\ \A i \in 1 .. position : Answered(Script[i])
        /\ Script[position + 1].topic \in broker.subscriptions
        /\ UNCHANGED <<state, process, device, received>>
    BY DEF ServerSends
  <1>2. UNCHANGED <<driver, requests, sent, link, inbox>>
    BY <1>1 DEF device
  <1>3. BrokerInv /\ position \in Nat
    BY DEF NInv, IInv
  <1>4. PICK m : m = Script[position + 1]
    OBVIOUS
  <1>5. m \in Messages
    <2>1. PICK M : M = [topic : Nat, id : CommandIds, content : Commands \union Malformed]
      OBVIOUS
    <2>2. Script \in Seq(M) BY <2>1, ScriptAssumption, Zenon
    <2>3. position + 1 \in DOMAIN Script BY <1>1, <1>3, <2>2
    <2> QED BY <1>4, <2>3 DEF Messages, ToSet
  <1>6. PICK u : u = Append(broker.queue, m)
    OBVIOUS
  <1>7. /\ broker.queue \in Seq(Messages) /\ u \in Seq(Messages)
        /\ DOMAIN u = DOMAIN broker.queue \union {Len(broker.queue) + 1}
        /\ \A i \in DOMAIN broker.queue : u[i] = broker.queue[i]
        /\ u[Len(broker.queue) + 1] = m
        /\ Len(u) = Len(broker.queue) + 1 /\ Len(broker.queue) \in Nat
    <2>1. broker.queue \in Seq(Messages) BY <1>3 DEF BrokerInv
    <2>2. Len(u) = Len(broker.queue) + 1 /\ Len(broker.queue) \in Nat
      BY <1>5, <1>6, <2>1
    <2> QED BY <1>5, <1>6, <2>1, <2>2, OneMore
  <1>8. /\ broker'.queue = u /\ broker'.inflight = broker.inflight
        /\ broker'.subscriptions = broker.subscriptions
    BY <1>1, <1>3, <1>4, <1>6, <1>7 DEF BrokerInv
  <1>9. Held' \subseteq Held \union {m}
    BY <1>7, <1>8 DEF Held
  <1>10. \A k \in Held : Answered(k)
    BY <1>1 DEF NInv, OrderInv
  <1>11. OrderInv'
    <2>1. \A k \in Held' : \E i \in 1 .. position' : k = Script[i]
      <3>1. position + 1 \in 1 .. position' /\ (\A i \in 1 .. position : i \in 1 .. position')
        BY <1>1, <1>3
      <3> QED BY <1>4, <1>9, <3>1 DEF NInv, OrderInv
    <2>2. ASSUME NEW i \in DOMAIN u, i < Len(u) PROVE Answered(u[i])
      <3>1. i \in DOMAIN broker.queue BY <1>7, <2>2
      <3> QED BY <1>7, <1>10, <3>1 DEF Held
    <2>3. broker.inflight # << >> => Answered(broker.inflight[1])
      <3>1. broker.inflight \in Seq(Messages) BY <1>3 DEF BrokerInv
      <3>2. broker.inflight # << >> => 1 \in DOMAIN broker.inflight BY <3>1
      <3> QED BY <1>10, <3>2 DEF Held
    <2>4. PICK flight : flight = broker.inflight
      OBVIOUS
    <2>5. /\ \A i \in DOMAIN u : i < Len(u) => Answered(u[i])'
          /\ flight # << >> => Answered(flight[1])'
      BY <1>1, <2>2, <2>3, <2>4 DEF Answered
    <2> QED BY <1>8, <2>1, <2>4, <2>5 DEF OrderInv
  <1>12. ~Awaited(state) /\ Clean(state.credential_generation)
    BY <1>1 DEF NInv, PhaseInv
  <1>13. Clean(state.credential_generation)'
    BY <1>1, <1>4, <1>8, <1>9, <1>12 DEF Clean
  <1>14. ~Awaited(state)'
    BY <1>1, <1>12 DEF Awaited, Reported
  <1>15. PhaseInv(state)'
    BY <1>1, <1>13, <1>14 DEF NInv, PhaseInv
  <1>16. driver' # None => TopicInv(Here, inbox)'
    <2> SUFFICES ASSUME driver' # None PROVE TopicInv(Here, inbox)'
      OBVIOUS
    <2>1. PICK x : x = Here OBVIOUS
    <2>2. TopicInv(x, inbox) /\ Here' = x
      BY <1>1, <1>2, <2>1 DEF Here, NInv
    <2>3. ~Recovering(Here)'
      BY <1>14 DEF Recovering, Here, Context
    <2> QED BY <1>2, <1>8, <2>2, <2>3 DEF TopicInv
  <1>17. AnswerInv'
    <2>1. PICK r, left, flight : r = requests /\ left = sent /\ flight = broker.inflight
      OBVIOUS
    <2> QED BY <1>1, <1>2, <1>8, <1>12, <1>14, <2>1, AnswerKept
  <1> QED BY <1>11, <1>15, <1>16, <1>17 DEF NInv

\* The session goes on with fewer requests.
LEMMA TopicGoesOn ==
  ASSUME NInv, driver # None, driver.connected, UNCHANGED <<state, driver, link>>,
         NEW r, requests' = r, ToSet(r) \subseteq ToSet(requests), NEW ib, inbox' = ib,
         NEW n, n = Context(state, driver, r), Awaited(state)' => Awaited(state),
         link = "up" /\ broker'.inflight # << >> =>
            Has(ib, "command") \/ driver.held # << >> \/ Has(r, "puback"),
         link = "up" /\ Recovering(n)' => RecoveryInv(n, ib)'
  PROVE  TopicInv(Here, inbox)'
  <1>1. IInv
    BY DEF NInv
  <1>2. PICK x : x = Here
    OBVIOUS
  <1>3. /\ TopicInv(x, inbox) /\ x.state = state /\ x.driver = driver /\ x.requests = requests
    BY <1>1, <1>2, HereFacts DEF NInv
  <1>4. Here' = n /\ n.state = state /\ n.driver = driver /\ n.requests = r
    BY DEF Here, Context
  <1>5. Recovering(n)' => Recovering(x)
    BY <1>3, <1>4 DEF Recovering
  <1> QED BY <1>3, <1>4, <1>5 DEF TopicInv

\* The client writes a packet.
LEMMA SendTidy ==
  ASSUME NInv, IInv', Send
  PROVE  NInv'
  <1>1. /\ driver # None /\ driver.connected /\ requests # << >>
        /\ requests' = Tail(requests) /\ sent = << >>
        /\ UNCHANGED <<state, process, driver, link, position>>
    BY DEF Send
  <1>2. PICK x : x = Here
    OBVIOUS
  <1>3. /\ CtxInv(x, inbox) /\ x.state = state /\ x.driver = driver /\ x.requests = requests
        /\ requests \in Seq(Outgoing) /\ inbox \in Seq(Incoming)
        /\ TopicInv(x, inbox) /\ PhaseInv(state) /\ OrderInv /\ IInv
    BY <1>1, <1>2, HereFacts DEF NInv
  <1>4. PublishInv(x, inbox) /\ ConnectInv(x, inbox) /\ AgentInv(state) /\ BrokerInv
    BY <1>3 DEF CtxInv, IInv
  <1>5. PICK r : r = Tail(requests)
    OBVIOUS
  <1>6. PICK p : p = requests[1]
    OBVIOUS
  <1>7. /\ p \in Outgoing /\ p \in ToSet(requests) /\ ToSet(r) \subseteq ToSet(requests)
        /\ \A name : Has(r, name) => Has(requests, name)
        /\ \A name : p.packet = name => Has(requests, name)
    BY <1>1, <1>3, <1>5, <1>6, TakePacket
  <1>8. PICK n : n = Context(state, driver, r)
    OBVIOUS
  <1>9. n.state = state /\ n.driver = driver /\ n.requests = r /\ requests' = r
    BY <1>1, <1>5, <1>8 DEF Context
  <1>10. p.packet \in {"subscribe", "unsubscribe", "publish", "puback"}
    BY <1>7 DEF Outgoing
  <1>11. p.packet # "puback" /\ Has(requests, "puback") => Has(r, "puback")
    BY <1>1, <1>3, <1>5, <1>6, TailHas
  <1>12. /\ PubAckFirst(requests) =>
              PubAckFirst(r) /\ (p.packet = "publish" => ~Has(requests, "puback"))
         /\ \A topic : Leaves(requests, topic) =>
              IF p.packet = "unsubscribe" THEN p = Unsubscribe(topic) ELSE Leaves(r, topic)
    BY <1>1, <1>3, <1>5, <1>6, TailOrder
  <1>13. PICK old : old = state.pending_inbound.topic
    OBVIOUS
  <1>14. driver.identity # state.credential_generation =>
           Awaited(state) /\ driver.identity = old
    BY <1>3, <1>4, <1>13, BlockedAwaited DEF ConnectInv, TopicInv
  <1>15. Awaited(state) => state.credential_generation # old
    BY <1>3, <1>13 DEF PhaseInv, Awaited
  <1>16. ASSUME link = "up", Awaited(state), driver.identity = state.credential_generation
         PROVE  RecoveryInv(x, inbox)
    BY <1>1, <1>3, <1>16 DEF TopicInv, Recovering
  <1>17. PICK left : /\ left = sent'
                     /\ p.packet # "puback" => left = sent
                     /\ p.packet = "puback" /\ received' = received => SentInv(state, left)'
    <2>1. CASE p.packet # "puback"
      BY <1>6, <2>1 DEF Send
    <2>2. CASE p.packet = "puback"
      <3>1. PICK token : token = p.token
        OBVIOUS
      <3>2. token \in Tokens \union {None}
        BY <1>7, <2>2, <3>1 DEF Outgoing
      <3>3. sent' = <<token>>
        BY <1>1, <1>6, <2>2, <3>1 DEF Send
      <3>4. Token(state, token)
        <4>1. ScopeInv(x)
          BY <1>1, <1>2 DEF NInv, AnswerInv
        <4> QED BY <1>3, <1>7, <2>2, <3>1, <4>1 DEF ScopeInv
      <3>5. ASSUME received' = received
            PROVE  Token(state, token)'
        BY <1>1, <3>4, <3>5 DEF Token, Awaited, Reported
      <3> QED BY <2>2, <3>2, <3>3, <3>5 DEF SentInv
    <2> QED BY <2>1, <2>2
  <1>18. process = "up" /\ process' = "up"
    BY <1>1, <1>3 DEF IInv
  <1>19. PICK flight : flight = broker'.inflight
    OBVIOUS
  <1>20. CASE link # "up"
    <2>1. UNCHANGED <<broker, inbox, received>>
      BY <1>20 DEF Send
    <2>2. OrderInv' /\ PhaseInv(state)'
      BY <1>1, <1>3, <2>1, SameOrder, SamePhase DEF environment
    <2>3. Awaited(state)' => Awaited(state)
      BY <1>1, <2>1 DEF Awaited, Reported
    <2>4. TopicInv(Here, inbox)'
      BY <1>1, <1>7, <1>8, <1>9, <1>20, <2>1, <2>3, TopicGoesOn
    <2>5. Awaited(state) => Awaited(state)'
      BY <1>1, <2>1 DEF Awaited, Reported
    <2>6. AnswerInv'
      BY <1>1, <1>7, <1>9, <1>17, <1>18, <1>19, <2>1, <2>3, <2>5, AnswerKept
    <2> QED BY <2>2, <2>4, <2>6 DEF NInv
  <1>21. ASSUME link = "up", BrokerTakes(p), p.packet = "subscribe"
         PROVE  NInv'
    <2>1. /\ broker' = [broker EXCEPT !.subscriptions = broker.subscriptions \union {p.topic}]
          /\ inbox' = Append(inbox, SubAck) /\ received' = received
      BY <1>21 DEF BrokerTakes
    <2>2. p.topic = driver.identity
      BY <1>3, <1>7, <1>21 DEF TopicInv
    <2>3. /\ broker'.queue = broker.queue /\ broker'.inflight = broker.inflight
          /\ broker'.subscriptions = broker.subscriptions \union {driver.identity}
      BY <1>4, <2>1, <2>2 DEF BrokerInv
    <2>4. Held' = Held
      BY <2>3 DEF Held
    <2>5. OrderInv'
      BY <1>1, <1>3, <2>1, <2>3, <2>4 DEF OrderInv, Answered
    <2>6. Awaited(state)' <=> Awaited(state)
      BY <1>1, <2>1 DEF Awaited, Reported
    <2>7. PhaseInv(state)'
      BY <1>1, <1>3, <1>13, <1>14, <2>1, <2>3, <2>4, <2>6 DEF PhaseInv, Clean, Answered
    <2>8. PICK q \in Incoming : q = SubAck /\ q.packet = "suback"
      BY IncomingTypes
    <2>9. PICK ib : ib = Append(inbox, q)
      OBVIOUS
    <2>10. \A name : Has(ib, name) <=> Has(inbox, name) \/ q.packet = name
      BY <1>3, <2>8, <2>9, AppendPacket
    <2>11. broker'.inflight # << >> =>
             Has(ib, "command") \/ driver.held # << >> \/ Has(r, "puback")
      BY <1>3, <1>11, <1>21, <2>3, <2>10 DEF TopicInv
    <2>12. ASSUME Recovering(n)'
           PROVE  RecoveryInv(n, ib)'
      <3>1. Awaited(state) /\ driver.identity = state.credential_generation
        BY <1>1, <1>9, <2>6, <2>12 DEF Recovering
      <3>2. RecoveryInv(x, inbox) /\ ~Hot(x, inbox)
        BY <1>3, <1>7, <1>16, <1>21, <3>1 DEF RecoveryInv
      <3>3. ~Hot(n, ib)' /\ ~Has(ib, "command") /\ old \notin broker'.subscriptions
        BY <1>3, <1>9, <1>13, <1>15, <2>3, <2>8, <2>10, <3>1, <3>2 DEF Hot
      <3> QED BY <1>3, <1>9, <1>12, <1>13, <3>2, <3>3 DEF RecoveryInv
    <2>13. TopicInv(Here, inbox)'
      BY <1>1, <1>7, <1>8, <1>9, <2>1, <2>6, <2>8, <2>9, <2>11, <2>12, TopicGoesOn
    <2>14. AnswerInv'
      BY <1>1, <1>7, <1>9, <1>17, <1>18, <1>19, <1>21, <2>3, <2>6, AnswerKept
    <2> QED BY <2>5, <2>7, <2>13, <2>14 DEF NInv
  <1>22. ASSUME link = "up", BrokerTakes(p), p.packet = "unsubscribe"
         PROVE  NInv'
    <2>1. /\ broker' = [broker EXCEPT !.subscriptions = broker.subscriptions \ {p.topic}]
          /\ inbox' = Append(inbox, UnsubAck) /\ received' = received
      BY <1>22 DEF BrokerTakes
    <2>2. /\ broker'.queue = broker.queue /\ broker'.inflight = broker.inflight
          /\ broker'.subscriptions = broker.subscriptions \ {p.topic}
      BY <1>4, <2>1 DEF BrokerInv
    <2>3. Held' = Held
      BY <2>2 DEF Held
    <2>4. OrderInv'
      BY <1>1, <1>3, <2>1, <2>2, <2>3 DEF OrderInv, Answered
    <2>5. Awaited(state)' <=> Awaited(state)
      BY <1>1, <2>1 DEF Awaited, Reported
    <2>6. PhaseInv(state)'
      BY <1>1, <1>3, <2>1, <2>2, <2>3, <2>5 DEF PhaseInv, Clean, Answered
    <2>7. PICK q \in Incoming : q = UnsubAck /\ q.packet = "unsuback"
      BY IncomingTypes
    <2>8. PICK ib : ib = Append(inbox, q)
      OBVIOUS
    <2>9. /\ \A name : Has(ib, name) <=> Has(inbox, name) \/ q.packet = name
          /\ inbox # << >> => ib[1] = inbox[1]
      BY <1>3, <2>7, <2>8, AppendPacket
    <2>10. broker'.inflight # << >> =>
             Has(ib, "command") \/ driver.held # << >> \/ Has(r, "puback")
      BY <1>3, <1>11, <1>22, <2>2, <2>9 DEF TopicInv
    <2>11. ASSUME Recovering(n)'
           PROVE  RecoveryInv(n, ib)'
      <3>1. Awaited(state) /\ driver.identity = state.credential_generation
        BY <1>1, <1>9, <2>5, <2>11 DEF Recovering
      <3>2. RecoveryInv(x, inbox)
        BY <1>16, <1>22, <3>1
      <3>3. old \notin broker'.subscriptions
        <4>1. old \in broker.subscriptions => p = Unsubscribe(old)
          BY <1>3, <1>12, <1>13, <1>22, <3>2 DEF RecoveryInv
        <4>2. Unsubscribe(old).topic = old
          BY DEF Unsubscribe
        <4> QED BY <2>2, <4>1, <4>2
      <3>4. Has(ib, "command") => ib[1].packet = "command"
        <4>1. Has(ib, "command") => Has(inbox, "command") BY <2>7, <2>9
        <4>2. Has(inbox, "command") => inbox # << >> BY ShortQueues
        <4> QED BY <2>9, <3>2, <4>1, <4>2 DEF RecoveryInv
      <3>5. Hot(n, ib)' => Hot(x, inbox)
        BY <1>1, <1>3, <1>9, <1>13, <2>7, <2>9, <3>3 DEF Hot
      <3>6. PubAckFirst(r)
        BY <1>3, <1>12, <3>2 DEF RecoveryInv
      <3> QED BY <1>3, <1>7, <1>9, <1>13, <2>7, <2>9, <3>2, <3>3, <3>4, <3>5, <3>6
              DEF RecoveryInv
    <2>12. TopicInv(Here, inbox)'
      BY <1>1, <1>7, <1>8, <1>9, <2>1, <2>5, <2>7, <2>8, <2>10, <2>11, TopicGoesOn
    <2>13. AnswerInv'
      BY <1>1, <1>7, <1>9, <1>17, <1>18, <1>19, <1>22, <2>2, <2>5, AnswerKept
    <2> QED BY <2>4, <2>6, <2>12, <2>13 DEF NInv
  <1>23. ASSUME link = "up", BrokerTakes(p), p.packet = "puback"
         PROVE  NInv'
    <2>1. /\ broker' = [broker EXCEPT !.inflight = << >>] /\ inbox' = inbox
          /\ received' = received
      BY <1>23 DEF BrokerTakes
    <2>2. /\ broker'.queue = broker.queue /\ broker'.inflight = << >>
          /\ broker'.subscriptions = broker.subscriptions
      BY <1>4, <2>1 DEF BrokerInv
    <2>3. Held' \subseteq Held
      <3>1. DOMAIN broker'.inflight = {} BY <2>2, EmptySeq
      <3> QED BY <2>2, <3>1 DEF Held
    <2>4. OrderInv'
      BY <1>1, <1>3, <2>1, <2>2, <2>3 DEF OrderInv, Answered
    <2>5. Awaited(state)' <=> Awaited(state)
      BY <1>1, <2>1 DEF Awaited, Reported
    <2>6. PhaseInv(state)'
      BY <1>1, <1>3, <2>1, <2>2, <2>3, <2>5 DEF PhaseInv, Clean, Answered
    <2>7. PICK ib : ib = inbox
      OBVIOUS
    <2>8. ASSUME Recovering(n)'
          PROVE  RecoveryInv(n, ib)'
      <3>1. Awaited(state) /\ driver.identity = state.credential_generation
        BY <1>1, <1>9, <2>5, <2>8 DEF Recovering
      <3>2. RecoveryInv(x, inbox)
        BY <1>16, <1>23, <3>1
      <3>3. Hot(n, ib)' => Hot(x, inbox)
        BY <1>1, <1>3, <1>9, <2>2, <2>7 DEF Hot
      <3>4. old \in broker.subscriptions => Leaves(r, old)
        BY <1>3, <1>12, <1>13, <1>23, <3>2 DEF RecoveryInv
      <3> QED BY <1>3, <1>7, <1>9, <1>12, <1>13, <2>2, <2>7, <3>2, <3>3, <3>4
              DEF RecoveryInv
    <2>9. TopicInv(Here, inbox)'
      BY <1>1, <1>7, <1>8, <1>9, <2>1, <2>2, <2>5, <2>7, <2>8, TopicGoesOn
    <2>10. AnswerInv'
      BY <1>1, <1>7, <1>9, <1>17, <1>18, <1>19, <1>23, <2>1, <2>2, <2>5, AnswerKept
    <2> QED BY <2>4, <2>6, <2>9, <2>10 DEF NInv
  <1>24. ASSUME link = "up", BrokerTakes(p), p.packet = "publish"
         PROVE  NInv'
    <2>1. PICK event : event = p.event
      OBVIOUS
    <2>2. /\ received' = received \union {event} /\ inbox' = Append(inbox, FactAck(event))
          /\ broker' = broker
      BY <1>24, <2>1 DEF BrokerTakes
    <2>3. Held' = Held
      BY <2>2 DEF Held
    <2>4. OrderInv'
      BY <1>1, <1>3, <2>2, <2>3 DEF OrderInv, Answered
    <2>5. Awaited(state)' => Awaited(state)
      BY <1>1, <2>2 DEF Awaited, Reported
    <2>6. Has(requests, "publish") /\ event \in Events
      BY <1>7, <1>24, <2>1 DEF Outgoing
    <2>7. Queued(state, event)
      BY <1>3, <1>4, <1>7, <1>24, <2>1 DEF PublishInv
    <2>8. ASSUME event.kind = "report"
          PROVE  \E k \in DOMAIN state.outbox :
                    /\ state.outbox[k].kind = "ReportReady"
                    /\ event = ReportEvent(state.outbox[k].command_id)
      <3>1. PICK k \in DOMAIN state.outbox :
               state.outbox[k].event = event /\ state.outbox[k].kind = "ReportReady"
        BY <2>7, <2>8 DEF Queued
      <3>2. event = ReportEvent(state.outbox[k].command_id)
        BY <1>4, <3>1 DEF AgentInv, verify, OutboxEntriesValid, EntrySemanticValid, IsAck
      <3> QED BY <3>1, <3>2
    <2>9. event.kind = "report" => ~Blocked(state)
      BY <1>4, <2>8 DEF Blocked, AgentInv, verify, AtMostOneReport, IsReport
    <2>10. /\ ~Awaited(state)' => Clean(state.credential_generation)
           /\ Awaited(state) /\ ~Awaited(state)' =>
                driver.held = << >> /\ ~Has(requests, "puback")
      <3> SUFFICES ASSUME ~Awaited(state)', Awaited(state)
                   PROVE  /\ Clean(state.credential_generation)
                          /\ driver.held = << >> /\ ~Has(requests, "puback")
        BY <1>3 DEF PhaseInv
      <3>1. event.kind = "report"
        BY <1>1, <2>2 DEF Awaited, Reported, ReportEvent
      <3>2. driver.identity = state.credential_generation
        BY <1>3, <1>4, <2>9, <3>1 DEF ConnectInv
      <3>3. RecoveryInv(x, inbox) /\ ~Hot(x, inbox) /\ ~Has(requests, "puback")
        BY <1>3, <1>12, <1>16, <1>24, <2>6, <3>2 DEF RecoveryInv
      <3>4. broker.inflight = << >> /\ broker.queue = << >>
        BY <1>3, <1>24, <3>3 DEF TopicInv, Hot, PhaseInv
      <3>5. Held = {}
        <4>1. DOMAIN broker.inflight = {} /\ DOMAIN broker.queue = {} BY <3>4, EmptySeq
        <4> QED BY <4>1 DEF Held
      <3>6. broker.subscriptions \subseteq {old, state.credential_generation}
        BY <1>3, <1>13 DEF PhaseInv
      <3>7. old \notin broker.subscriptions
        BY <1>3, <1>13, <3>3 DEF Hot
      <3>8. driver.held = << >>
        BY <1>3, <3>3 DEF Hot
      <3> QED BY <3>3, <3>5, <3>6, <3>7, <3>8 DEF Clean
    <2>11. PhaseInv(state)'
      <3>1. ASSUME NEW k \in DOMAIN state.outbox, state.outbox[k].kind = "ReportBlocked"
            PROVE  ReportEvent(state.outbox[k].command_id) # event
        <4>1. Blocked(state) BY <3>1 DEF Blocked
        <4>2. event.kind # "report" BY <2>9, <4>1
        <4> QED BY <4>2 DEF ReportEvent
      <3>2. event.kind = "report" => Journalled(state, event.cause)
        <4> SUFFICES ASSUME event.kind = "report" PROVE Journalled(state, event.cause)
          OBVIOUS
        <4>1. PICK k \in DOMAIN state.outbox :
                 /\ state.outbox[k].kind = "ReportReady"
                 /\ event = ReportEvent(state.outbox[k].command_id)
          BY <2>8
        <4>2. event.cause = state.outbox[k].command_id BY <4>1 DEF ReportEvent
        <4> QED BY <1>3, <4>1, <4>2 DEF PhaseInv, IsReport
      <3>3. Awaited(state)' => event.kind # "report"
        BY <1>1, <2>2, <2>8 DEF Awaited, Reported, IsReport
      <3>4. ASSUME Awaited(state)'
            PROVE  \E i \in 1 .. position : ~Answered(Script[i])'
        <4>1. PICK i \in 1 .. position : ~Answered(Script[i])
          BY <1>3, <2>5, <3>4 DEF PhaseInv
        <4>2. ReportEvent(Script[i].id) # event
          BY <3>3, <3>4 DEF ReportEvent
        <4> QED BY <2>2, <4>1, <4>2 DEF Answered
      <3>5. IF Awaited(state)'
            THEN /\ broker.queue = << >>
                 /\ \E i \in 1 .. position : ~Answered(Script[i])'
                 /\ broker.subscriptions
                      \subseteq {state.pending_inbound.topic, state.credential_generation}
            ELSE Clean(state.credential_generation)
        BY <1>3, <2>5, <2>10, <3>4 DEF PhaseInv
      <3>6. Clean(state.credential_generation)' <=> Clean(state.credential_generation)
        BY <1>1, <2>2, <2>3 DEF Clean
      <3>7. /\ \A k \in DOMAIN state.outbox : IsReport(state.outbox[k]) =>
                 /\ Journalled(state, state.outbox[k].command_id)
                 /\ state.outbox[k].kind = "ReportBlocked" =>
                      ReportEvent(state.outbox[k].command_id) \notin received'
            /\ \A e \in received' : e.kind = "report" => Journalled(state, e.cause)
            /\ rotation_in_flight(state) =>
                 state.pending_inbound.topic # state.credential_generation
        BY <1>3, <2>2, <3>1, <3>2 DEF PhaseInv
      <3> QED BY <1>1, <2>2, <3>5, <3>6, <3>7 DEF PhaseInv
    <2>12. PICK q \in Incoming : q = FactAck(event) /\ q.packet = "factack"
      BY <2>6, IncomingTypes
    <2>13. PICK ib : ib = Append(inbox, q)
      OBVIOUS
    <2>14. \A name : Has(ib, name) <=> Has(inbox, name) \/ q.packet = name
      BY <1>3, <2>12, <2>13, AppendPacket
    <2>15. broker'.inflight # << >> =>
             Has(ib, "command") \/ driver.held # << >> \/ Has(r, "puback")
      BY <1>3, <1>11, <1>24, <2>2, <2>14 DEF TopicInv
    <2>16. ASSUME Recovering(n)'
           PROVE  RecoveryInv(n, ib)'
      <3>1. Awaited(state) /\ driver.identity = state.credential_generation
        BY <1>1, <1>9, <2>5, <2>16 DEF Recovering
      <3>2. RecoveryInv(x, inbox) /\ ~Hot(x, inbox)
        BY <1>3, <1>16, <1>24, <2>6, <3>1 DEF RecoveryInv
      <3>3. ~Hot(n, ib)' /\ ~Has(ib, "command") /\ old \notin broker'.subscriptions
        BY <1>3, <1>9, <1>13, <2>2, <2>12, <2>14, <3>2 DEF Hot
      <3> QED BY <1>3, <1>9, <1>12, <1>13, <3>2, <3>3 DEF RecoveryInv
    <2>17. TopicInv(Here, inbox)'
      BY <1>1, <1>7, <1>8, <1>9, <2>2, <2>5, <2>12, <2>13, <2>15, <2>16, TopicGoesOn
    <2>18. Awaited(state) /\ ~Awaited(state)' => driver.held = << >> /\ ~Has(r, "puback")
      BY <1>7, <2>10
    <2>19. AnswerInv'
      BY <1>1, <1>7, <1>9, <1>17, <1>18, <1>19, <1>24, <2>2, <2>5, <2>18, AnswerKept
    <2> QED BY <2>4, <2>11, <2>17, <2>19 DEF NInv
  <1>25. link # "up" \/ BrokerTakes(p)
    BY <1>6 DEF Send
  <1> QED BY <1>10, <1>20, <1>21, <1>22, <1>23, <1>24, <1>25

-----------------------------------------------------------------------------
(* Nothing of an old topic is left behind. *)

\* The broker starts with an empty session.
LEMMA InitNInv ==
  ASSUME Init
  PROVE  NInv
  <1>1. IInv BY InitIInv
  <1>2. state.outbox = << >> /\ DOMAIN state.outbox = {}
    <2>1. state.outbox = << >> BY DEF Init, Initial
    <2> QED BY <2>1, EmptySeq
  <1>3. /\ broker.queue = << >> /\ broker.inflight = << >> /\ broker.subscriptions = {}
        /\ received = {} /\ driver = None /\ process = "up"
    BY DEF Init
  <1>4. DOMAIN broker.queue = {} /\ DOMAIN broker.inflight = {}
    BY <1>3, EmptySeq
  <1>5. Held = {}
    BY <1>4 DEF Held
  <1>6. OrderInv
    BY <1>3, <1>4, <1>5 DEF OrderInv
  <1>7. ~rotation_in_flight(state)
    BY <1>2 DEF rotation_in_flight
  <1>8. PhaseInv(state)
    BY <1>2, <1>3, <1>5, <1>7 DEF PhaseInv, Awaited, Clean
  <1>9. AnswerInv
    BY <1>2, <1>3, <1>7 DEF AnswerInv, PendingInv, Awaited
  <1> QED BY <1>1, <1>3, <1>6, <1>8, <1>9 DEF NInv

\* Each step keeps the invariant.
LEMMA NextNInv ==
  ASSUME NInv, [Next]_vars
  PROVE  NInv'
  <1>0. IInv'
    BY NextIInv DEF NInv
  <1>1. CASE StartSession BY <1>0, <1>1, StartSessionTidy
  <1>2. CASE PollPacket \/ PollSent \/ StartShutdown BY <1>0, <1>2, PollTidy
  <1>3. CASE Send BY <1>0, <1>3, SendTidy
  <1>4. CASE Deliver BY <1>0, <1>4, DeliverTidy
  <1>5. CASE ServerSends BY <1>0, <1>5, ServerSendsTidy
  <1>6. CASE BreakLink BY <1>0, <1>6, BreakLinkTidy
  <1>7. CASE \/ ShutdownDeadline \/ ConnectionError \/ StopRetrying \/ Crash
             \/ ShutdownSignal \/ Restart \/ UNCHANGED vars
    BY <1>0, <1>7, OtherTidy
  <1> QED BY <1>1, <1>2, <1>3, <1>4, <1>5, <1>6, <1>7 DEF Next

\* A rotation leaves nothing of its old topic behind, whatever is lost, repeated
\* or interrupted on the way: when the report is confirmed, the broker has neither
\* a delivery for the old topic nor a subscription to it (main.rs on_connected,
\* on_unsubscribed, on_inbound_acknowledged).
THEOREM OldTopicIsLeft == Spec => []NothingLeftBehind
  <1>1. Init => NInv BY InitNInv
  <1>2. NInv /\ [Next]_vars => NInv' BY NextNInv
  <1>3. NInv => NothingLeftBehind
    BY DEF NInv, PhaseInv, Awaited, Clean, NothingLeftBehind
  <1> QED BY <1>1, <1>2, <1>3, PTL DEF Spec

-----------------------------------------------------------------------------
(* What stops the process. *)

\* What the invariant says of a process that an error has stopped.
LEMMA FailedAtIntake ==
  ASSUME NInv
  PROVE  FatalOnlyAtIntake
  <1>1. state.device_sequence \in Nat /\ SequenceMax \in Nat
    BY LimitsAssumption DEF NInv, IInv, AgentInv, States
  <1>2. ~Numbers(state) => state.device_sequence + 2 > SequenceMax
    BY <1>1 DEF Numbers
  <1> QED BY <1>2 DEF NInv, AnswerInv, Refused, Journalled, ClockNow, FatalOnlyAtIntake

\* At every limit of outbox, journal and counter, only a command in flight stops the
\* process: one of the session's own topic that finds the intake closed or the
\* rotation before it in flight, or one whose answer has no number left.  The
\* redelivery on the old topic, a PUBACK, a confirmation, a reconnect never do,
\* whatever is lost, repeated or interrupted (main.rs on_command, on_connected,
\* on_inbound_acknowledged, on_outbound_acknowledged; mqtt.rs command_delivery).
THEOREM FatalAtIntake == Spec => []FatalOnlyAtIntake
  <1>1. Init => NInv BY InitNInv
  <1>2. NInv /\ [Next]_vars => NInv' BY NextNInv
  <1>3. NInv => FatalOnlyAtIntake BY FailedAtIntake
  <1> QED BY <1>1, <1>2, <1>3, PTL DEF Spec

=============================================================================
