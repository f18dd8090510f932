-------------------------- MODULE AgentSessionProofs --------------------------
(***************************************************************************)
(* AgentSession, for every script of the server, every limit and any       *)
(* number of failures: one fact is outstanding at a time, a report is      *)
(* published by a session that uses the credential it reports, and a       *)
(* command leaves the broker only when the journal holds it.               *)
(*                                                                         *)
(* The driver's handlers are functions of a context; CtxInv is what every  *)
(* context satisfies that comes back to the top of the loop, together with *)
(* the packets that are left to poll.                                      *)
(***************************************************************************)
EXTENDS AgentSession, HandlerProofs

-----------------------------------------------------------------------------
(* Packets. *)

Messages == ToSet(Script)

Outgoing ==
  [packet : {"subscribe", "unsubscribe"}, topic : Nat]
    \union [packet : {"publish"}, event : Events]
    \union [packet : {"puback"}, token : Tokens \union {None}]

Incoming ==
  {ConnAck, SubAck, UnsubAck}
    \union [packet : {"command"}, message : Messages]
    \union [packet : {"factack"}, event : Events]

\* A queue has a packet of this name; it has one at most.
Has(q, name) == \E p \in ToSet(q) : p.packet = name
One(q, name) ==
  \A i, j \in DOMAIN q : q[i].packet = name /\ q[j].packet = name => i = j

-----------------------------------------------------------------------------
(* The invariant. *)

Contexts ==
  [state : States, driver : Drivers, requests : Seq(Outgoing),
   control : {"Continue", "Reconnect", "Shutdown", "Fatal"}]

\* The broker has taken the ACK of a rotation that is past it.
AckTaken(s) ==
  \A i \in DOMAIN s.outbox :
     /\ IsReport(s.outbox[i])
     /\ s.outbox[i].kind = "ReportReady" \/ s.reconnect_revision # None
     => AckEvent(s.outbox[i].command_id) \in received

AgentInv(s) == s \in States /\ verify(s) /\ Consistent(s) /\ AckTaken(s)

\* The fact is in the outbox; a report is ready, and its delivery is settled.
Queued(s, event) ==
  \E k \in DOMAIN s.outbox :
     /\ s.outbox[k].event = event
     /\ event.kind = "report" =>
          s.outbox[k].kind = "ReportReady" /\ InboundSettled(s)

\* The report of the rotation waits for the next session.
Blocked(s) == \E k \in DOMAIN s.outbox : s.outbox[k].kind = "ReportBlocked"

Journalled(s, id) == \E c \in s.command_journal : c.command_id = id

\* One fact is outstanding: in the requests, at the broker, or in the inbox.
PublishInv(x, ib) ==
  /\ One(x.requests, "publish") /\ One(ib, "factack")
  /\ ~(Has(x.requests, "publish") /\ Has(ib, "factack"))
  /\ Has(x.requests, "publish") \/ Has(ib, "factack") => x.driver.publish = "Pending"
  /\ \A p \in ToSet(x.requests) : p.packet = "publish" => Queued(x.state, p.event)
  /\ \A p \in ToSet(ib) : p.packet = "factack" =>
       p.event \in received /\ Queued(x.state, p.event)

\* One command is outstanding: in the inbox, held, or answered and not yet
\* taken by the broker; in the latter cases it is durable.
DeliveryInv(x, ib) ==
  /\ One(x.requests, "puback") /\ One(ib, "command")
  /\ Has(ib, "command") => ~Has(x.requests, "puback") /\ x.driver.held = << >>
  /\ Has(x.requests, "puback") => x.driver.held = << >>
  /\ \A p \in ToSet(ib) : p.packet = "command" => broker.inflight = <<p.message>>
  /\ Has(x.requests, "puback") \/ x.driver.held # << >> =>
       broker.inflight # << >> /\ Journalled(x.state, broker.inflight[1].id)

\* A session begins with its CONNACK, under the credential the state names, and
\* keeps it until a rotation waits for the next session.
ConnectInv(x, ib) ==
  /\ \A i \in DOMAIN ib : ib[i].packet = "connack" => i = 1 /\ ~x.driver.connected
  /\ ~x.driver.connected =>
       /\ x.requests = << >> /\ x.driver.held = << >>
       /\ x.driver.identity = x.state.credential_generation
       /\ ib # << >> => ib[1].packet = "connack"
  /\ x.driver.identity # x.state.credential_generation => Blocked(x.state)

CtxInv(x, ib) ==
  /\ x \in Contexts /\ AgentInv(x.state) /\ ib \in Seq(Incoming)
  /\ PublishInv(x, ib) /\ DeliveryInv(x, ib) /\ ConnectInv(x, ib)

BrokerInv ==
  /\ broker \in [subscriptions : SUBSET Nat, queue : Seq(Messages),
                 inflight : Seq(Messages)]
  /\ Len(broker.inflight) <= 1

IInv ==
  /\ process \in {"up", "retrying", "down", "failed"}
  /\ link \in {"none", "up", "broken"}
  /\ driver # None <=> link # "none"
  /\ driver # None => process = "up"
  /\ AgentInv(state) /\ BrokerInv
  /\ position \in Nat /\ position <= Len(Script)
  /\ IF driver = None THEN requests = << >> /\ inbox = << >>
     ELSE /\ CtxInv(Here, inbox)
          /\ link = "up" /\ ~driver.connected => inbox # << >>
  /\ SettledIsDurable

-----------------------------------------------------------------------------
(* Queues of packets. *)

\* A packet at the end.
LEMMA AppendPacket ==
  ASSUME NEW S, NEW q \in Seq(S), NEW p \in S
  PROVE  LET r == Append(q, p) IN
         /\ r \in Seq(S) /\ r # << >> /\ ToSet(r) = ToSet(q) \union {p}
         /\ \A name : Has(r, name) <=> Has(q, name) \/ p.packet = name
         /\ \A name : One(q, name) /\ (p.packet = name => ~Has(q, name)) => One(r, name)
         /\ q # << >> => r[1] = q[1]
         /\ \A i \in DOMAIN r : (i \in DOMAIN q /\ r[i] = q[i]) \/ (i = Len(q) + 1 /\ r[i] = p)
  <1> DEFINE r == Append(q, p)
  <1>1. /\ r \in Seq(S) /\ Len(q) \in Nat /\ DOMAIN q = 1 .. Len(q)
        /\ DOMAIN r = DOMAIN q \union {Len(q) + 1} /\ Len(q) + 1 \notin DOMAIN q
        /\ \A i \in DOMAIN q : r[i] = q[i]
        /\ r[Len(q) + 1] = p
    BY OneMore
  <1> HIDE DEF r
  <1>2. r # << >> /\ (q # << >> => r[1] = q[1])
    BY <1>1
  <1>3. ToSet(r) = ToSet(q) \union {p}
    BY <1>1 DEF ToSet
  <1>4. \A name : Has(r, name) <=> Has(q, name) \/ p.packet = name
    BY <1>3 DEF Has
  <1>5. \A name : One(q, name) /\ (p.packet = name => ~Has(q, name)) => One(r, name)
    BY <1>1 DEF One, Has, ToSet
  <1>6. \A i \in DOMAIN r : (i \in DOMAIN q /\ r[i] = q[i]) \/ (i = Len(q) + 1 /\ r[i] = p)
    BY <1>1
  <1> QED BY <1>1, <1>2, <1>3, <1>4, <1>5, <1>6 DEF r

\* The first packet is taken.
LEMMA TakePacket ==
  ASSUME NEW S, NEW q \in Seq(S), q # << >>
  PROVE  LET r == Tail(q) IN
         /\ r \in Seq(S) /\ q[1] \in S /\ q[1] \in ToSet(q) /\ ToSet(r) \subseteq ToSet(q)
         /\ \A name : Has(r, name) => Has(q, name)
         /\ \A name : q[1].packet = name => Has(q, name)
         /\ \A name : One(q, name) => One(r, name) /\ (q[1].packet = name => ~Has(r, name))
         /\ \A i \in DOMAIN r : i + 1 \in DOMAIN q /\ i + 1 # 1 /\ r[i] = q[i + 1]
  <1> DEFINE r == Tail(q)
  <1>1. /\ r \in Seq(S) /\ Len(q) \in Nat /\ Len(q) > 0 /\ DOMAIN q = 1 .. Len(q)
        /\ DOMAIN r = 1 .. Len(q) - 1
        /\ \A i \in 1 .. Len(q) - 1 : r[i] = q[i + 1]
    BY HeadTailProperties, EmptySeq
  <1> HIDE DEF r
  <1>2. \A i \in DOMAIN r : i + 1 \in DOMAIN q /\ i + 1 # 1 /\ r[i] = q[i + 1]
    BY <1>1
  <1>3. 1 \in DOMAIN q /\ q[1] \in S
    BY <1>1
  <1>4. ToSet(r) \subseteq ToSet(q) /\ q[1] \in ToSet(q)
    BY <1>2, <1>3 DEF ToSet
  <1>5. \A name : (Has(r, name) => Has(q, name)) /\ (q[1].packet = name => Has(q, name))
    BY <1>4 DEF Has
  <1>6. \A name : One(q, name) => One(r, name) /\ (q[1].packet = name => ~Has(r, name))
    <2> SUFFICES ASSUME NEW name, One(q, name)
                 PROVE  One(r, name) /\ (q[1].packet = name => ~Has(r, name))
      OBVIOUS
    <2>1. ASSUME NEW i \in DOMAIN r, NEW j \in DOMAIN r,
                 r[i].packet = name, r[j].packet = name
          PROVE  i = j
      <3>1. i + 1 = j + 1 BY <1>2, <2>1 DEF One
      <3> QED BY <1>1, <3>1
    <2>2. One(r, name) BY <2>1 DEF One
    <2>3. ASSUME q[1].packet = name, Has(r, name) PROVE FALSE
      <3>1. PICK i \in DOMAIN r : r[i].packet = name BY <2>3 DEF Has, ToSet
      <3> QED BY <1>2, <1>3, <2>3, <3>1 DEF One
    <2> QED BY <2>2, <2>3
  <1> QED BY <1>1, <1>2, <1>3, <1>4, <1>5, <1>6 DEF r

\* Nothing in an empty queue, one packet in a queue of one.
LEMMA ShortQueues ==
  /\ ToSet(<< >>) = {}
  /\ \A name : ~Has(<< >>, name) /\ One(<< >>, name)
  /\ \A p : ToSet(<<p>>) = {p}
  /\ \A p, name : (Has(<<p>>, name) <=> p.packet = name) /\ One(<<p>>, name)
  <1>1. DOMAIN << >> = {} BY EmptySeq
  <1>2. \A p : DOMAIN <<p>> = {1} /\ <<p>>[1] = p
    OBVIOUS
  <1>3. \A p : ToSet(<<p>>) = {p} BY <1>2 DEF ToSet
  <1>4. \A p, name : One(<<p>>, name) BY <1>2 DEF One
  <1> QED BY <1>1, <1>3, <1>4 DEF ToSet, Has, One

\* The packets that arrive before the connection breaks.
LEMMA PrefixPackets ==
  ASSUME NEW S, NEW q \in Seq(S), NEW n \in 0 .. Len(q)
  PROVE  LET r == SubSeq(q, 1, n) IN
         /\ r \in Seq(S) /\ ToSet(r) \subseteq ToSet(q)
         /\ \A name : (Has(r, name) => Has(q, name)) /\ (One(q, name) => One(r, name))
         /\ r # << >> => q # << >> /\ r[1] = q[1]
         /\ \A i \in DOMAIN r : i \in DOMAIN q /\ r[i] = q[i]
  <1> DEFINE r == SubSeq(q, 1, n)
  <1>1. /\ r \in Seq(S) /\ Len(q) \in Nat /\ DOMAIN q = 1 .. Len(q)
        /\ Len(r) = n /\ DOMAIN r = 1 .. n
        /\ \A i \in 1 .. n : r[i] = q[i]
    OBVIOUS
  <1> HIDE DEF r
  <1>2. \A i \in DOMAIN r : i \in DOMAIN q /\ r[i] = q[i]
    BY <1>1
  <1>3. r # << >> => q # << >> /\ r[1] = q[1]
    BY <1>1
  <1>4. ToSet(r) \subseteq ToSet(q)
    BY <1>2 DEF ToSet
  <1>5. \A name : (Has(r, name) => Has(q, name)) /\ (One(q, name) => One(r, name))
    BY <1>2, <1>4 DEF Has, One
  <1> QED BY <1>1, <1>2, <1>3, <1>4, <1>5 DEF r

-----------------------------------------------------------------------------
(* What the agent's answers to a delivery do. *)

\* A delivery with this id is answered: nothing changes, or one ACK of it is queued;
\* then, and without an error, its command is in the journal.
Answers(s, e, id) ==
  /\ e.state = s \/ (\E ack \in Acks : Queues(s, e.state, ack) /\ ack.command_id = id)
  /\ e.state # s => Journalled(e.state, id)
  /\ s.command_journal \subseteq e.state.command_journal
  /\ e.result \notin AgentErrors => Journalled(e.state, id)

\* persist_candidate answers if its candidate does.
LEMMA PersistAnswers ==
  ASSUME NEW s, NEW u, NEW r, NEW id, NEW ack \in Acks, Queues(s, u, ack),
         ack.command_id = id, s.command_journal \subseteq u.command_journal, Journalled(u, id)
  PROVE  Answers(s, persist_candidate(s, u, r), id)
  BY DEF Answers, persist_candidate, Effect, AgentErrors

\* A journalled command is matched, and only a journalled one.
LEMMA MatchJournalled ==
  ASSUME NEW s, NEW id, NEW f, command_match(s, id, f, 0) # "unknown"
  PROVE  Journalled(s, id)
  BY DEF command_match, LiveEntries, Journalled

\* agent.rs answers an exact duplicate.
LEMMA ExactReplayAnswers ==
  ASSUME NEW s \in States, verify(s), NEW id, NEW f, command_match(s, id, f, 0) = "same"
  PROVE  Answers(s, ExactReplay(s, id, f), id)
  <1>1. Journalled(s, id)
    BY MatchJournalled
  <1>2. PICK u : u = replay_command(s, id, f)
    OBVIOUS
  <1>3. PICK c \in s.command_journal :
           /\ c.command_id = id
           /\ ReplayedAck(c.acknowledgement) \in Acks
           /\ Queues(s, u, ReplayedAck(c.acknowledgement))
           /\ u.command_journal = s.command_journal
    BY <1>2, ReplayFacts
  <1>31. ReplayedAck(c.acknowledgement).command_id = id
    <2>1. c.acknowledgement \in Acks /\ c.acknowledgement.command_id = id
      BY <1>3 DEF States, StoredCommands, verify, JournalValid
    <2> QED BY <2>1 DEF ReplayedAck, Acks
  <1>4. Answers(s, persist_candidate(s, u, "Duplicate"), id)
    BY <1>1, <1>3, <1>31, PersistAnswers DEF Journalled
  <1>5. \A r : Answers(s, Effect(s, r), id)
    BY <1>1 DEF Answers, Effect
  <1> QED BY <1>2, <1>4, <1>5 DEF ExactReplay

\* agent.rs answers a conflicting duplicate.
LEMMA ConflictingReplayAnswers ==
  ASSUME NEW s \in States, NEW id \in CommandIds, NEW f \in Fingerprints,
         command_match(s, id, f, 0) = "different"
  PROVE  Answers(s, ConflictingReplay(s, id, f), id)
  <1>1. Journalled(s, id)
    BY MatchJournalled
  <1>2. PICK u : u = reject_conflicting_replay(s, id, f)
    OBVIOUS
  <1>3. PICK ack \in Acks : /\ Queues(s, u, ack) /\ ack.command_id = id
                            /\ u.command_journal = s.command_journal
    BY <1>2, ConflictFacts DEF FreshRejection
  <1>4. Answers(s, persist_candidate(s, u, "MalformedCommand"), id)
    BY <1>1, <1>3, PersistAnswers DEF Journalled
  <1>5. \A r : Answers(s, Effect(s, r), id)
    BY <1>1 DEF Answers, Effect
  <1> QED BY <1>2, <1>4, <1>5 DEF ConflictingReplay

\* agent.rs rejects a new command.
LEMMA RejectionAnswers ==
  ASSUME NEW s \in States, verify(s), NEW id \in CommandIds, NEW f \in Fingerprints,
         NEW r \in Rejections \union {None}
  PROVE  Answers(s, PersistRejection(s, id, f, r, 0), id)
  <1>1. PICK k : k = expire_command_journal(s, 0)
    OBVIOUS
  <1>2. /\ k \in States /\ k.outbox = s.outbox /\ k.current = s.current
        /\ k.reconnect_revision = s.reconnect_revision
        /\ k.pending_inbound = s.pending_inbound
        /\ k.command_journal = s.command_journal
    BY <1>1, ExpireFacts, NothingExpires
  <1>3. PICK date \in Nat : date = retention_deadline(0)
    BY CommandsAssumption DEF retention_deadline
  <1>4. PICK u : u = reject(k, id, f, r, date)
    OBVIOUS
  <1>5. PICK ack \in Acks :
           /\ FreshRejection(k, u, ack, AckEvent(id), id)
           /\ u.command_journal
                = k.command_journal \union {StoredCommand(id, f, ack, date)}
    BY <1>2, <1>4, RejectFacts
  <1>6. /\ Queues(s, u, ack) /\ ack.command_id = id
        /\ s.command_journal \subseteq u.command_journal
    BY <1>2, <1>5 DEF FreshRejection, Queues
  <1>7. Journalled(u, id)
    <2>1. StoredCommand(id, f, ack, date).command_id = id BY DEF StoredCommand
    <2> QED BY <1>5, <2>1 DEF Journalled
  <1>8. Answers(s, persist_candidate(s, u, r), id)
    BY <1>6, <1>7, PersistAnswers
  <1>9. Answers(s, Effect(s, "OutboxFull"), id) /\ Answers(s, Effect(s, "CommandJournalFull"), id)
    BY DEF Answers, Effect, AgentErrors
  <1> QED BY <1>1, <1>3, <1>4, <1>8, <1>9 DEF PersistRejection

\* apply_command, short of the commit, and reject_malformed_delivery.
LEMMA DeliveryAnswers ==
  ASSUME NEW s \in States, verify(s), NEW topic \in Nat
  PROVE  /\ \A c \in Commands :
              Answers(s, ApplyWithoutCommit(s, topic, c, "Resolved", 0), CommandData[c].id)
         /\ \A id \in CommandIds, payload \in Malformed :
              Answers(s, reject_malformed_delivery(s, topic, id, payload, 0), id)
  <1>1. ASSUME NEW c \in Commands
        PROVE  Answers(s, ApplyWithoutCommit(s, topic, c, "Resolved", 0), CommandData[c].id)
    <2> DEFINE id == CommandData[c].id
               match == command_match(s, id, c, 0)
               r == Rejection(s, topic, c, "Resolved", 0)
    <2>1. id \in CommandIds /\ c \in Fingerprints
      BY CommandsAssumption DEF Fingerprints
    <2>2. r \in Rejections \union {None}
      BY RejectionType DEF CatalogReplies
    <2>3. match \in {"same", "different", "unknown"}
      BY DEF command_match
    <2> DEFINE e == ApplyWithoutCommit(s, topic, c, "Resolved", 0)
    <2>4. \/ match = "same" /\ e = ExactReplay(s, id, c)
          \/ match = "different" /\ e = ConflictingReplay(s, id, c)
          \/ \E error \in AgentErrors : e = Effect(s, error)
          \/ e = PersistRejection(s, id, c, r, 0)
      BY <2>3 DEF ApplyWithoutCommit, command_fingerprint, AgentErrors, Commits
    <2>5. \A error \in AgentErrors : Answers(s, Effect(s, error), id)
      BY DEF Answers, Effect
    <2> QED BY <2>1, <2>2, <2>4, <2>5, ExactReplayAnswers, ConflictingReplayAnswers,
               RejectionAnswers
  <1>2. ASSUME NEW id \in CommandIds, NEW payload \in Malformed
        PROVE  Answers(s, reject_malformed_delivery(s, topic, id, payload, 0), id)
    <2> DEFINE f == <<topic, id, payload>>
               match == command_match(s, id, f, 0)
               e == reject_malformed_delivery(s, topic, id, payload, 0)
    <2>1. f \in Fingerprints
      BY DEF Fingerprints
    <2>2. match \in {"same", "different", "unknown"}
      BY DEF command_match
    <2>3. \/ match = "same" /\ e = ExactReplay(s, id, f)
          \/ match = "different" /\ e = ConflictingReplay(s, id, f)
          \/ e = Effect(s, "UnexpectedDelivery")
          \/ e = PersistRejection(s, id, f, "MalformedCommand", 0)
      BY <2>2 DEF reject_malformed_delivery, malformed_fingerprint
    <2>4. Answers(s, Effect(s, "UnexpectedDelivery"), id)
      BY DEF Answers, Effect, AgentErrors
    <2>5. "MalformedCommand" \in Rejections BY DEF Rejections
    <2> QED BY <2>1, <2>3, <2>4, <2>5, ExactReplayAnswers, ConflictingReplayAnswers,
               RejectionAnswers
  <1> QED BY <1>1, <1>2

-----------------------------------------------------------------------------
(* The agent's operations keep what the session relies on. *)

Keeps(s, t) ==
  /\ AgentInv(t)
  /\ s.command_journal \subseteq t.command_journal
  /\ \A event : Queued(s, event) => Queued(t, event)

\* The facts of an outbox that is kept as it is are still queued.
LEMMA KeptOutbox ==
  ASSUME NEW s, NEW t, DOMAIN s.outbox \subseteq DOMAIN t.outbox,
         \A i \in DOMAIN s.outbox : t.outbox[i] = s.outbox[i],
         InboundSettled(s) => InboundSettled(t)
  PROVE  /\ \A event : Queued(s, event) => Queued(t, event)
         /\ Blocked(s) => Blocked(t)
  BY DEF Queued, Blocked

\* One ACK more.
LEMMA OneAckMore ==
  ASSUME NEW s, AgentInv(s), NEW t \in States, verify(t), Consistent(t),
         s.command_journal \subseteq t.command_journal,
         NEW ack \in Acks, Queues(s, t, ack)
  PROVE  Keeps(s, t) /\ (Blocked(s) => Blocked(t))
  <1>1. s.outbox \in Seq(Facts) /\ ack \in Facts /\ ack.kind = "Ack"
    BY DEF AgentInv, States, Facts, Acks
  <1>2. /\ DOMAIN t.outbox = DOMAIN s.outbox \union {Len(s.outbox) + 1}
        /\ \A i \in DOMAIN s.outbox : t.outbox[i] = s.outbox[i]
        /\ t.outbox[Len(s.outbox) + 1] = ack
        /\ t.reconnect_revision = s.reconnect_revision
        /\ InboundSettled(s) => InboundSettled(t)
    BY <1>1, OneMore DEF Queues, InboundSettled
  <1>3. AckTaken(t)
    BY <1>1, <1>2 DEF AckTaken, AgentInv, IsReport
  <1> QED BY <1>2, <1>3, KeptOutbox DEF Keeps, AgentInv

\* A commit queues its ACK and a blocked report, while no other is queued.
LEMMA CommitKeeps ==
  ASSUME NEW s, AgentInv(s), ~rotation_in_flight(s), NEW c \in Commands,
         NEW e, e = Commit(s, c, 0)
  PROVE  /\ Keeps(s, e.state) /\ ~Blocked(s)
         /\ e.state.credential_generation # s.credential_generation => Blocked(e.state)
         /\ e.result \notin AgentErrors => Journalled(e.state, CommandData[c].id)
  <1> DEFINE id == CommandData[c].id
  <1>1. /\ s \in States /\ verify(s) /\ Consistent(s)
        /\ \A i \in DOMAIN s.outbox : ~IsReport(s.outbox[i])
        /\ s.reconnect_revision = None
    BY DEF AgentInv, rotation_in_flight, verify, ReconnectMatchesCurrent
  <1>2. PICK u, k : \E ack \in Acks, report \in Reports, pending \in PendingInbound :
           AcceptedCandidate(s, c, 0, u, k, ack, report, pending)
    BY <1>1, CommitCandidate
  <1>3. PICK ack \in Acks, report \in Reports, pending \in PendingInbound :
           AcceptedCandidate(s, c, 0, u, k, ack, report, pending)
    BY <1>2
  <1>4. /\ e = persist_candidate(s, u, "Accepted") /\ u \in States
        /\ Accepted(k, id, c, NextPosition(s, c), retention_deadline(0), u, ack,
                    report, pending)
        /\ k.outbox = s.outbox /\ k.command_journal = s.command_journal
        /\ k.reconnect_revision = s.reconnect_revision
    <2>1. /\ Commit(s, c, 0) = persist_candidate(s, u, "Accepted") /\ u \in States
          /\ k = expire_command_journal(s, 0)
          /\ Accepted(k, id, c, NextPosition(s, c), retention_deadline(0), u, ack,
                      report, pending)
      BY <1>3 DEF AcceptedCandidate
    <2>2. /\ k.outbox = s.outbox /\ k.command_journal = s.command_journal
          /\ k.reconnect_revision = s.reconnect_revision
      BY <1>1, <2>1, NothingExpires, ExpireFacts
    <2> QED BY <2>1, <2>2
  <1> HIDE DEF id
  <1>5. /\ report.kind = "ReportBlocked" /\ ack.kind = "Ack"
        /\ u.outbox = Append(Append(s.outbox, ack), report)
        /\ u.reconnect_revision = None
    BY <1>1, <1>4 DEF Accepted, Acks
  <1>6. s.command_journal \subseteq u.command_journal /\ Journalled(u, id)
    <2>1. StoredCommand(id, c, ack, retention_deadline(0)).command_id = id
      BY DEF StoredCommand
    <2> QED BY <1>4, <2>1 DEF Accepted, Journalled
  <1>7. s.outbox \in Seq(Facts) /\ ack \in Facts /\ report \in Facts
    BY <1>1 DEF States, Facts
  <1>8. PICK v : v = Append(s.outbox, ack)
    OBVIOUS
  <1>81. /\ v \in Seq(Facts)
         /\ DOMAIN v = DOMAIN s.outbox \union {Len(s.outbox) + 1}
         /\ \A i \in DOMAIN s.outbox : v[i] = s.outbox[i]
         /\ v[Len(s.outbox) + 1] = ack
    BY <1>7, <1>8, OneMore
  <1>9. /\ DOMAIN u.outbox = DOMAIN v \union {Len(v) + 1}
        /\ \A i \in DOMAIN v : u.outbox[i] = v[i]
        /\ u.outbox[Len(v) + 1] = report
    BY <1>5, <1>7, <1>8, <1>81, OneMore
  <1>10. Blocked(u) /\ (\A event : Queued(s, event) => Queued(u, event))
    <2>1. /\ DOMAIN s.outbox \subseteq DOMAIN u.outbox
          /\ \A i \in DOMAIN s.outbox : u.outbox[i] = s.outbox[i]
      BY <1>81, <1>9
    <2>2. \A event : Queued(s, event) => Queued(u, event)
      BY <1>1, <2>1 DEF Queued, IsReport
    <2> QED BY <1>5, <1>9, <2>2 DEF Blocked
  <1>11. AckTaken(u)
    <2>1. \A i \in DOMAIN u.outbox : ~IsReport(u.outbox[i]) \/ u.outbox[i] = report
      BY <1>1, <1>5, <1>81, <1>9 DEF IsReport
    <2> QED BY <1>5, <2>1 DEF AckTaken
  <1>12. ~Blocked(s)
    BY <1>1 DEF Blocked, IsReport
  <1>13. Consistent(e.state)
    BY <1>1, OthersConsistent
  <1>14. CASE verify(u)
    <2>1. e.state = u BY <1>4, <1>14 DEF persist_candidate, Effect
    <2>2. AgentInv(u) BY <1>4, <1>11, <1>13, <1>14, <2>1 DEF AgentInv
    <2>3. Keeps(s, u) BY <1>6, <1>10, <2>2 DEF Keeps
    <2> QED BY <1>6, <1>10, <1>12, <2>1, <2>3 DEF id
  <1>15. CASE ~verify(u)
    <2>1. e.state = s /\ e.result = "InvalidState"
      BY <1>4, <1>15 DEF persist_candidate, Effect
    <2> QED BY <1>12, <2>1 DEF Keeps, AgentErrors
  <1> QED BY <1>14, <1>15 DEF id

\* A message of the script is a command with its id, or does not decode.
LEMMA MessageFacts ==
  ASSUME NEW m \in Messages
  PROVE  /\ m.topic \in Nat /\ m.id \in CommandIds
         /\ IF m.content \in Commands THEN CommandData[m.content].id = m.id
            ELSE m.content \in Malformed
  <1>1. PICK i \in DOMAIN Script : m = Script[i]
    BY DEF Messages, ToSet
  <1>2. PICK M : M = [topic : Nat, id : CommandIds, content : Commands \union Malformed]
    OBVIOUS
  <1>3. Script \in Seq(M)
    BY <1>2, ScriptAssumption, Zenon
  <1>4. Script[i].content \in Commands => CommandData[Script[i].content].id = Script[i].id
    BY ScriptAssumption, Zenon
  <1>5. m \in M
    BY <1>1, <1>3
  <1> QED BY <1>1, <1>2, <1>4, <1>5

\* Every answer to a delivery (main.rs on_command).
LEMMA DispositionKeeps ==
  ASSUME NEW s, AgentInv(s), NEW m \in Messages, NEW e, e = Disposition(s, m)
  PROVE  /\ Keeps(s, e.state)
         /\ Blocked(s) => Blocked(e.state)
         /\ e.state.credential_generation # s.credential_generation => Blocked(e.state)
         /\ e.result \notin AgentErrors => Journalled(e.state, m.id)
  <1>1. s \in States /\ verify(s) /\ Consistent(s) /\ 0 \in Nat
    BY DEF AgentInv
  <1>2. Keeps(s, s)
    BY DEF Keeps
  <1>3. ASSUME Answers(s, e, m.id), Handles(s, e.state), Consistent(e.state)
        PROVE  /\ Keeps(s, e.state)
               /\ Blocked(s) => Blocked(e.state)
               /\ e.state.credential_generation = s.credential_generation
               /\ e.result \notin AgentErrors => Journalled(e.state, m.id)
    <2>1. /\ e.state \in States /\ verify(e.state)
          /\ e.state.credential_generation = s.credential_generation
      BY <1>1, <1>3 DEF Handles, Extends
    <2>2. Keeps(s, e.state) /\ (Blocked(s) => Blocked(e.state))
      BY <1>2, <1>3, <2>1, OneAckMore DEF Answers
    <2> QED BY <1>3, <2>1, <2>2 DEF Answers
  <1>4. CASE m.content \notin Commands
    <2>1. m.content \in Malformed /\ m.topic \in Nat /\ m.id \in CommandIds
      BY <1>4, MessageFacts
    <2>2. e = reject_malformed_delivery(s, m.topic, m.id, m.content, 0)
      BY <1>4 DEF Disposition, ClockNow
    <2>3. Answers(s, e, m.id) /\ Consistent(e.state) /\ Handles(s, e.state)
      BY <1>1, <2>1, <2>2, DeliveryAnswers, DeliveryConsistent, RejectMalformedHandles
    <2> QED BY <1>3, <2>3
  <1>5. CASE m.content \in Commands
    <2>1. m.topic \in Nat /\ CommandData[m.content].id = m.id
      BY <1>5, MessageFacts
    <2>2. CASE Commits(s, m.topic, m.content, "Resolved", 0) /\ CommitReserves(s, 0)
      <3>1. e = Commit(s, m.content, 0) /\ ~rotation_in_flight(s)
        BY <1>5, <2>2 DEF Disposition, ClockNow, Commits
      <3> QED BY <1>5, <2>1, <3>1, CommitKeeps
    <2>3. CASE ~(Commits(s, m.topic, m.content, "Resolved", 0) /\ CommitReserves(s, 0))
      <3>1. e = ApplyWithoutCommit(s, m.topic, m.content, "Resolved", 0)
        BY <1>5, <2>3 DEF Disposition, ClockNow
      <3>2. "Resolved" \in CatalogReplies BY DEF CatalogReplies
      <3>3. Answers(s, e, m.id) /\ Consistent(e.state) /\ Handles(s, e.state)
        BY <1>1, <1>5, <2>1, <3>1, <3>2, DeliveryAnswers, DeliveryConsistent, ApplyHandles
      <3> QED BY <1>3, <3>3
    <2> QED BY <2>2, <2>3
  <1> QED BY <1>4, <1>5

\* A PUBACK of the broker takes one fact; if that was the ACK of a rotation, the
\* broker has it (agent.rs confirm_outbound).
LEMMA ConfirmKeeps ==
  ASSUME NEW s, AgentInv(s), NEW event, event \in received,
         NEW t, t = ConfirmOutbound(s, event).state
  PROVE  /\ AgentInv(t) /\ t.command_journal = s.command_journal
         /\ Blocked(s) => Blocked(t)
         /\ t.credential_generation = s.credential_generation
  <1>1. s \in States /\ verify(s) /\ Consistent(s) /\ AckTaken(s) /\ 0 \in Nat
    BY DEF AgentInv
  <1>2. t = s \/ t # s
    OBVIOUS
  <1>3. CASE t # s
    <2> DEFINE matching == {i \in DOMAIN s.outbox : s.outbox[i].event = event}
               index == CHOOSE i \in matching : TRUE
    <2>1. /\ matching # {} /\ verify(confirm_outbound(s, index))
          /\ t = confirm_outbound(s, index)
      BY <1>3 DEF ConfirmOutbound, persist_candidate, Effect
    <2>2. PICK i \in DOMAIN s.outbox :
             /\ s.outbox[i].event = event /\ t = confirm_outbound(s, i) /\ verify(t)
      BY <2>1
    <2>3. /\ t \in States /\ Confirmed(s, i, t)
          /\ t.credential_generation = s.credential_generation
      BY <1>1, <2>2, ConfirmType, ConfirmFacts
    <2>4. /\ \A j \in DOMAIN t.outbox : \E k \in DOMAIN s.outbox : t.outbox[j] = s.outbox[k]
          /\ \A k \in DOMAIN s.outbox : k # i =>
                \E j \in DOMAIN t.outbox : t.outbox[j] = s.outbox[k]
      BY <1>1, <2>2, <2>3, RemovedEntries DEF Confirmed
    <2>5. s.outbox[i].kind # "ReportBlocked"
      BY <1>1, <2>2, BlockedReportStays
    <2>6. Blocked(s) => Blocked(t)
      BY <2>4, <2>5 DEF Blocked
    <2>7. Consistent(t)
      BY <1>1, OthersConsistent
    <2>8. AckTaken(t)
      <3> SUFFICES ASSUME NEW j \in DOMAIN t.outbox, IsReport(t.outbox[j]),
                          t.outbox[j].kind = "ReportReady" \/ t.reconnect_revision # None
                   PROVE  AckEvent(t.outbox[j].command_id) \in received
        BY DEF AckTaken
      <3>1. PICK k \in DOMAIN s.outbox : t.outbox[j] = s.outbox[k]
        BY <2>4
      <3>2. CASE s.outbox[k].kind = "ReportReady" \/ s.reconnect_revision # None
        BY <1>1, <3>1, <3>2 DEF AckTaken
      <3>3. CASE ~(s.outbox[k].kind = "ReportReady" \/ s.reconnect_revision # None)
        <4>1. Activates(s.outbox[i])
          BY <2>3, <3>1, <3>3 DEF Confirmed, Unlocks
        <4>2. PICK l \in DOMAIN s.outbox : SameRotation(s.outbox[i], s.outbox[l])
          BY <1>1, <4>1 DEF verify, ActivationMatched
        <4>3. l = k
          BY <1>1, <3>1, <4>2 DEF verify, AtMostOneReport, SameRotation, IsReport
        <4>4. event = AckEvent(s.outbox[i].command_id)
          BY <1>1, <2>2, <4>1 DEF Consistent, ActivationsFirst
        <4> QED BY <3>1, <4>2, <4>3, <4>4 DEF SameRotation
      <3> QED BY <3>2, <3>3
    <2>9. t.command_journal = s.command_journal
      BY <2>3 DEF Confirmed
    <2> QED BY <2>2, <2>3, <2>6, <2>7, <2>8, <2>9 DEF AgentInv
  <1> QED BY <1>2, <1>3

\* The first session with the new credential readies the report
\* (agent.rs mark_current_credential_connected).
LEMMA ReconnectKeeps ==
  ASSUME NEW s, AgentInv(s), NEW revision, s.reconnect_revision # None,
         NEW t, t = mark_current_credential_connected(s, revision).state
  PROVE  Keeps(s, t) /\ t.credential_generation = s.credential_generation
  <1>1. s \in States /\ verify(s) /\ Consistent(s) /\ AckTaken(s) /\ 0 \in Nat
    BY DEF AgentInv
  <1>2. PICK u : u = mark_reconnected(s)
    OBVIOUS
  <1>3. t = s \/ (t = u /\ verify(u))
    BY <1>2 DEF mark_current_credential_connected, persist_candidate, Effect
  <1>4. CASE t = s
    BY <1>4 DEF Keeps
  <1>5. CASE t = u /\ verify(u)
    <2>1. /\ u \in States /\ u.credential_generation = s.credential_generation
          /\ Reconnected(s, u)
      BY <1>1, <1>2, ReconnectedExtends, ReconnectFacts DEF Extends
    <2>2. Consistent(t)
      BY <1>1, OthersConsistent
    <2>3. AckTaken(u)
      BY <1>1, <2>1 DEF AckTaken, Reconnected, IsReport
    <2>4. \A event : Queued(s, event) => Queued(u, event)
      BY <2>1 DEF Queued, Reconnected, InboundSettled
    <2>5. u.command_journal = s.command_journal
      BY <2>1 DEF Reconnected
    <2> QED BY <1>5, <2>1, <2>2, <2>3, <2>4, <2>5 DEF Keeps, AgentInv
  <1> QED BY <1>3, <1>4, <1>5

\* The settlement of the delivery (agent.rs persist_inbound_settlement).
LEMMA SettleKeeps ==
  ASSUME NEW s, AgentInv(s), NEW token,
         NEW t, t = persist_inbound_settlement(s, token).state
  PROVE  /\ Keeps(s, t) /\ t.credential_generation = s.credential_generation
         /\ Blocked(s) => Blocked(t)
  <1>1. s \in States /\ verify(s) /\ Consistent(s) /\ AckTaken(s) /\ 0 \in Nat
    BY DEF AgentInv
  <1>2. PICK u : u = mark_inbound_settled(s)
    OBVIOUS
  <1>3. t = s \/ (t = u /\ verify(u) /\ s.pending_inbound # None)
    BY <1>2 DEF persist_inbound_settlement, persist_candidate, Effect
  <1>4. CASE t = s
    BY <1>4 DEF Keeps
  <1>5. CASE t = u /\ verify(u) /\ s.pending_inbound # None
    <2>1. /\ u \in States /\ u.credential_generation = s.credential_generation
          /\ IsSettled(s, u)
      BY <1>1, <1>2, <1>5, SettledExtends, SettleFacts DEF Extends
    <2>2. Consistent(t)
      BY <1>1, OthersConsistent
    <2>3. /\ u.outbox = s.outbox /\ u.reconnect_revision = s.reconnect_revision
          /\ u.command_journal = s.command_journal /\ InboundSettled(u)
      BY <2>1 DEF IsSettled, InboundSettled
    <2>4. AckTaken(u)
      BY <1>1, <2>3 DEF AckTaken
    <2>5. (\A event : Queued(s, event) => Queued(u, event)) /\ (Blocked(s) => Blocked(u))
      BY <2>3, KeptOutbox
    <2> QED BY <1>5, <2>1, <2>2, <2>3, <2>4, <2>5 DEF Keeps, AgentInv
  <1> QED BY <1>3, <1>4, <1>5

-----------------------------------------------------------------------------
(* Contexts. *)

\* A packet is queued to the transport.
LEMMA QueueFields ==
  ASSUME NEW x \in Contexts, NEW p \in Outgoing
  PROVE  LET y == Queue(x, p) IN
         /\ y \in Contexts /\ y.state = x.state /\ y.driver = x.driver
         /\ y.requests = Append(x.requests, p) /\ y.control = x.control
  <1>0. x.requests \in Seq(Outgoing)
    BY DEF Contexts
  <1>1. PICK r \in Seq(Outgoing) : r = Append(x.requests, p)
    BY <1>0, AppendPacket
  <1>2. Queue(x, p) = [x EXCEPT !.requests = r]
    BY <1>1 DEF Queue
  <1> QED BY <1>1, <1>2 DEF Contexts

\* An operation of the agent takes effect, or its error ends the process.
LEMMA EffectFields ==
  ASSUME NEW x \in Contexts, NEW e, e.state \in States
  PROVE  LET y == WithEffect(x, e) IN
         /\ y \in Contexts /\ y.state = e.state /\ y.driver = x.driver
         /\ y.requests = x.requests
         /\ y.control = IF e.result \in AgentErrors THEN "Fatal" ELSE x.control
  BY DEF WithEffect, Contexts

\* A control decision.
LEMMA ControlFields ==
  ASSUME NEW x \in Contexts, NEW c \in {"Continue", "Reconnect", "Shutdown", "Fatal"}
  PROVE  LET y == [x EXCEPT !.control = c] IN
         /\ y \in Contexts /\ y.state = x.state /\ y.driver = x.driver
         /\ y.requests = x.requests /\ y.control = c
  BY DEF Contexts

\* The driver takes note of something.
LEMMA DriverFields ==
  ASSUME NEW x \in Contexts, NEW d \in Drivers
  PROVE  LET y == [x EXCEPT !.driver = d] IN
         /\ y \in Contexts /\ y.state = x.state /\ y.driver = d
         /\ y.requests = x.requests /\ y.control = x.control
  BY DEF Contexts

\* The fields of the driver that the invariant is about.
SameSession(x, y) ==
  /\ y.driver.identity = x.driver.identity
  /\ y.driver.connected = x.driver.connected
  /\ y.driver.publish = x.driver.publish
  /\ y.driver.held = x.driver.held

\* A subscription is requested or given up, or the driver only takes note.
Quiet(x, y) ==
  /\ y \in Contexts /\ y.state = x.state /\ y.control = x.control
  /\ SameSession(x, y)
  /\ \/ y.requests = x.requests
     \/ \E p \in Outgoing : /\ p.packet \in {"subscribe", "unsubscribe"}
                            /\ y.requests = Append(x.requests, p)

\* Quiet steps keep the invariant.
LEMMA QuietKeeps ==
  ASSUME NEW x, NEW ib, CtxInv(x, ib), NEW y, Quiet(x, y),
         y.requests = x.requests \/ x.driver.connected
  PROVE  CtxInv(y, ib)
  <1>1. /\ x \in Contexts /\ y \in Contexts /\ x.requests \in Seq(Outgoing)
        /\ y.state = x.state /\ SameSession(x, y)
    BY DEF CtxInv, Contexts, Quiet
  <1>2. /\ \A p \in ToSet(y.requests) :
             p \in ToSet(x.requests) \/ p.packet \in {"subscribe", "unsubscribe"}
        /\ Has(y.requests, "publish") <=> Has(x.requests, "publish")
        /\ Has(y.requests, "puback") <=> Has(x.requests, "puback")
        /\ One(x.requests, "publish") => One(y.requests, "publish")
        /\ One(x.requests, "puback") => One(y.requests, "puback")
    <2>1. CASE y.requests = x.requests
      BY <2>1
    <2>2. ASSUME NEW p \in Outgoing, p.packet \in {"subscribe", "unsubscribe"},
                 y.requests = Append(x.requests, p)
          PROVE  <1>2!:
      BY <1>1, <2>2, AppendPacket
    <2> QED BY <2>1, <2>2 DEF Quiet
  <1>3. PublishInv(y, ib)
    BY <1>1, <1>2 DEF CtxInv, PublishInv, SameSession
  <1>4. DeliveryInv(y, ib)
    BY <1>1, <1>2 DEF CtxInv, DeliveryInv, SameSession
  <1>5. ConnectInv(y, ib)
    BY <1>1 DEF CtxInv, ConnectInv, SameSession
  <1> QED BY <1>1, <1>3, <1>4, <1>5 DEF CtxInv

\* The agent's state changes in a way that keeps what the session relies on.
LEMMA StateKeeps ==
  ASSUME NEW x, NEW ib, CtxInv(x, ib), NEW y \in Contexts,
         SameSession(x, y), y.requests = x.requests, Keeps(x.state, y.state),
         y.driver.identity # y.state.credential_generation => Blocked(y.state),
         ~x.driver.connected =>
            y.state.credential_generation = x.state.credential_generation
  PROVE  CtxInv(y, ib)
  <1>1. PublishInv(y, ib)
    BY DEF CtxInv, PublishInv, SameSession, Keeps
  <1>2. DeliveryInv(y, ib)
    BY DEF CtxInv, DeliveryInv, SameSession, Keeps, Journalled
  <1>3. ConnectInv(y, ib)
    BY DEF CtxInv, ConnectInv, SameSession
  <1> QED BY <1>1, <1>2, <1>3 DEF CtxInv, Keeps

\* A packet is polled by a connected session.
LEMMA PolledKeeps ==
  ASSUME NEW x, NEW ib, CtxInv(x, ib), ib # << >>, x.driver.connected
  PROVE  CtxInv(x, Tail(ib))
  <1>1. ib \in Seq(Incoming)
    BY DEF CtxInv
  <1>2. PICK r : r = Tail(ib)
    OBVIOUS
  <1>3. /\ r \in Seq(Incoming) /\ ToSet(r) \subseteq ToSet(ib)
        /\ \A name : Has(r, name) => Has(ib, name)
        /\ \A name : One(ib, name) => One(r, name)
        /\ \A i \in DOMAIN r : i + 1 \in DOMAIN ib /\ i + 1 # 1 /\ r[i] = ib[i + 1]
    BY <1>1, <1>2, TakePacket
  <1>4. PublishInv(x, r)
    BY <1>3 DEF CtxInv, PublishInv
  <1>5. DeliveryInv(x, r)
    BY <1>3 DEF CtxInv, DeliveryInv
  <1>6. ConnectInv(x, r)
    BY <1>3 DEF CtxInv, ConnectInv
  <1> QED BY <1>2, <1>3, <1>4, <1>5, <1>6 DEF CtxInv

-----------------------------------------------------------------------------
(* The driver's handlers. *)

\* What a handler makes of a context, with these packets left to poll.
Good(x, y, ib) ==
  /\ y \in Contexts /\ AgentInv(y.state)
  /\ x.state.command_journal \subseteq y.state.command_journal
  /\ y.control = "Continue" => CtxInv(y, ib)

\* The packets a session sends.
LEMMA PacketTypes ==
  /\ \A topic \in Nat : /\ Subscribe(topic) \in Outgoing
                        /\ Subscribe(topic).packet = "subscribe"
                        /\ Unsubscribe(topic) \in Outgoing
                        /\ Unsubscribe(topic).packet = "unsubscribe"
  /\ \A event \in Events : /\ PublishFact(event) \in Outgoing
                           /\ PublishFact(event).packet = "publish"
                           /\ PublishFact(event).event = event
  /\ \A token \in Tokens \union {None} : /\ PubAck(token) \in Outgoing
                                         /\ PubAck(token).packet = "puback"
  BY DEF Subscribe, Unsubscribe, PublishFact, PubAck, Outgoing

\* unsubscribe_command and unsubscribe_recovery (main.rs).
LEMMA UnsubscribeQuiet ==
  ASSUME NEW x \in Contexts, NEW topic \in Nat
  PROVE  Quiet(x, StartUnsubscribe(x, topic))
  <1>1. PICK y : y = Queue(x, Unsubscribe(topic))
    OBVIOUS
  <1>2. /\ y \in Contexts /\ y.state = x.state /\ y.driver = x.driver
        /\ y.requests = Append(x.requests, Unsubscribe(topic)) /\ y.control = x.control
        /\ Unsubscribe(topic) \in Outgoing /\ Unsubscribe(topic).packet = "unsubscribe"
    BY <1>1, QueueFields, PacketTypes
  <1>3. x.driver \in Drivers
    BY DEF Contexts
  <1>4. PICK d : d = [x.driver EXCEPT !.subscription = "Unsubscribing"]
    OBVIOUS
  <1>5. /\ d \in Drivers /\ d.identity = x.driver.identity
        /\ d.connected = x.driver.connected /\ d.publish = x.driver.publish
        /\ d.held = x.driver.held
    BY <1>3, <1>4 DEF Drivers
  <1>6. PICK z : z = StartUnsubscribe(x, topic)
    OBVIOUS
  <1>7. z = [y EXCEPT !.driver = d]
    BY <1>1, <1>2, <1>4, <1>6 DEF StartUnsubscribe
  <1>8. /\ z \in Contexts /\ z.state = y.state /\ z.driver = d
        /\ z.requests = y.requests /\ z.control = y.control
    BY <1>2, <1>5, <1>7, DriverFields
  <1> QED BY <1>2, <1>5, <1>6, <1>8 DEF Quiet, SameSession

\* subscribe, if the intake is open (main.rs).
LEMMA SubscribeQuiet ==
  ASSUME NEW x \in Contexts
  PROVE  Quiet(x, SubscribeIfOpen(x))
  <1>1. x.driver.identity \in Nat
    BY DEF Contexts, Drivers
  <1>2. PICK p : p = Subscribe(x.driver.identity)
    OBVIOUS
  <1>3. p \in Outgoing /\ p.packet = "subscribe"
    BY <1>1, <1>2, PacketTypes
  <1>4. Quiet(x, Queue(x, p))
    BY <1>3, QueueFields DEF Quiet, SameSession
  <1>5. Quiet(x, x)
    BY DEF Quiet, SameSession
  <1> QED BY <1>2, <1>4, <1>5 DEF SubscribeIfOpen

\* A quiet end of a handler.
LEMMA QuietEnd ==
  ASSUME NEW x, NEW y, NEW ib, CtxInv(y, ib), y.driver.connected, NEW z, Quiet(y, z),
         x.state.command_journal \subseteq y.state.command_journal
  PROVE  Good(x, z, ib)
  <1>1. CtxInv(z, ib)
    BY QuietKeeps
  <1>2. z.state = y.state BY DEF Quiet
  <1> QED BY <1>1, <1>2 DEF Good, CtxInv

\* A handler that ends the session.
LEMMA SessionEnds ==
  ASSUME NEW x, NEW y \in Contexts, AgentInv(y.state), NEW ib,
         x.state.command_journal \subseteq y.state.command_journal
  PROVE  Good(x, Fatal(y), ib) /\ Good(x, Reconnect(y), ib)
  <1>1. LET z == Fatal(y) IN z \in Contexts /\ z.state = y.state /\ z.control = "Fatal"
    BY ControlFields DEF Fatal
  <1>2. LET z == Reconnect(y) IN
        z \in Contexts /\ z.state = y.state /\ z.control = "Reconnect"
    BY ControlFields DEF Reconnect
  <1> QED BY <1>1, <1>2 DEF Good

\* A packet of a connected session is not its CONNACK, and one of a session
\* that is not connected is.
LEMMA FirstPacket ==
  ASSUME NEW x, NEW ib, CtxInv(x, ib), ib # << >>
  PROVE  ib[1].packet = "connack" <=> ~x.driver.connected
  <1>1. 1 \in DOMAIN ib
    <2>1. ib \in Seq(Incoming) BY DEF CtxInv
    <2> QED BY <2>1
  <1> QED BY <1>1 DEF CtxInv, ConnectInv

\* SUBACK.
LEMMA SubscribedGood ==
  ASSUME NEW x, NEW ib, CtxInv(x, ib), ib # << >>, x.driver.connected
  PROVE  /\ Good(x, on_subscribed(x), Tail(ib))
         /\ on_subscribed(x).driver.connected
  <1>1. x \in Contexts /\ x.driver \in Drivers
    BY DEF CtxInv, Contexts
  <1>2. PICK d : d = [x.driver EXCEPT !.subscription = "Active"]
    OBVIOUS
  <1>3. /\ d \in Drivers /\ d.identity = x.driver.identity
        /\ d.connected = x.driver.connected /\ d.publish = x.driver.publish
        /\ d.held = x.driver.held
    BY <1>1, <1>2 DEF Drivers
  <1>4. PICK y : y = [x EXCEPT !.driver = d]
    OBVIOUS
  <1>5. /\ y \in Contexts /\ y.state = x.state /\ y.driver = d
        /\ y.requests = x.requests /\ y.control = x.control
    BY <1>1, <1>3, <1>4, DriverFields
  <1>6. on_subscribed(x) = y
    BY <1>2, <1>4 DEF on_subscribed
  <1>7. Quiet(x, y)
    BY <1>3, <1>5 DEF Quiet, SameSession
  <1> QED BY <1>3, <1>5, <1>6, <1>7, PolledKeeps, QuietEnd

\* CONNACK.
LEMMA ConnectedGood ==
  ASSUME NEW x, NEW ib, CtxInv(x, ib), ib # << >>, ~x.driver.connected,
         x.control = "Continue"
  PROVE  /\ Good(x, on_connected(x), Tail(ib))
         /\ on_connected(x).driver.connected
  <1>1. /\ x \in Contexts /\ x.driver \in Drivers /\ AgentInv(x.state)
        /\ x.requests = << >> /\ x.driver.held = << >>
        /\ x.driver.identity = x.state.credential_generation
        /\ ib \in Seq(Incoming) /\ ib[1].packet = "connack"
    BY FirstPacket DEF CtxInv, Contexts, ConnectInv
  <1>2. PICK d : d = [x.driver EXCEPT !.connected = TRUE, !.subscription = "Inactive"]
    OBVIOUS
  <1>3. /\ d \in Drivers /\ d.identity = x.driver.identity
        /\ d.connected /\ d.publish = x.driver.publish /\ d.held = x.driver.held
        /\ d.recovery = x.driver.recovery
        /\ d.recovery # None => d.recovery.topic \in Nat
    BY <1>1, <1>2 DEF Drivers
  <1>4. PICK y : y = [x EXCEPT !.driver = d]
    OBVIOUS
  <1>5. /\ y \in Contexts /\ y.state = x.state /\ y.driver = d
        /\ y.requests = << >> /\ y.control = "Continue"
    BY <1>1, <1>3, <1>4, DriverFields
  <1>6. PICK r : r = Tail(ib)
    OBVIOUS
  <1>7. CtxInv(y, r)
    <2>1. /\ r \in Seq(Incoming) /\ ToSet(r) \subseteq ToSet(ib)
          /\ \A name : Has(r, name) => Has(ib, name)
          /\ \A name : One(ib, name) => One(r, name)
          /\ \A i \in DOMAIN r : i + 1 \in DOMAIN ib /\ i + 1 # 1 /\ r[i] = ib[i + 1]
      BY <1>1, <1>6, TakePacket
    <2>2. PublishInv(y, r)
      BY <1>1, <1>3, <1>5, <2>1 DEF CtxInv, PublishInv
    <2>3. DeliveryInv(y, r)
      BY <1>1, <1>3, <1>5, <2>1 DEF CtxInv, DeliveryInv
    <2>4. ConnectInv(y, r)
      BY <1>1, <1>3, <1>5, <2>1 DEF CtxInv, ConnectInv
    <2> QED BY <1>1, <1>5, <2>1, <2>2, <2>3, <2>4 DEF CtxInv
  <1>8. PICK z : z = IF y.state.reconnect_revision = None THEN y
                     ELSE WithEffect(y, mark_current_credential_connected(y.state,
                             y.state.reconnect_revision))
    OBVIOUS
  <1>9. /\ CtxInv(z, r) /\ z.driver = d
        /\ x.state.command_journal \subseteq z.state.command_journal
    <2>1. CASE y.state.reconnect_revision = None
      BY <1>5, <1>7, <1>8, <2>1
    <2>2. CASE y.state.reconnect_revision # None
      <3>1. PICK e : e = mark_current_credential_connected(y.state,
                            y.state.reconnect_revision)
        OBVIOUS
      <3>2. Keeps(y.state, e.state)
            /\ e.state.credential_generation = y.state.credential_generation
        BY <1>1, <1>5, <2>2, <3>1, ReconnectKeeps
      <3>3. z = WithEffect(y, e) /\ e.state \in States
        BY <1>8, <2>2, <3>1, <3>2 DEF Keeps, AgentInv
      <3>4. /\ z \in Contexts /\ z.state = e.state /\ z.driver = y.driver
            /\ z.requests = y.requests
        BY <1>5, <3>3, EffectFields
      <3>5. CtxInv(z, r)
        BY <1>1, <1>3, <1>5, <1>7, <3>2, <3>4, StateKeeps DEF SameSession
      <3> QED BY <1>5, <3>2, <3>4, <3>5 DEF Keeps
    <2> QED BY <2>1, <2>2
  <1>10. on_connected(x) =
           IF z.control = "Fatal" THEN z
           ELSE IF z.driver.recovery # None
           THEN StartUnsubscribe(z, z.driver.recovery.topic)
           ELSE IF ~z.driver.shutdown /\ ~rotation_in_flight(z.state)
           THEN SubscribeIfOpen(z) ELSE z
    <2>1. y = [x EXCEPT !.driver.connected = TRUE, !.driver.subscription = "Inactive"]
      BY <1>1, <1>2, <1>4 DEF Contexts, Drivers
    <2> QED BY <1>8, <2>1 DEF on_connected
  <1>11. z \in Contexts /\ Quiet(z, z) /\ Quiet(z, SubscribeIfOpen(z))
    BY <1>9, SubscribeQuiet DEF CtxInv, Quiet, SameSession
  <1>12. z.driver.recovery # None =>
            Quiet(z, StartUnsubscribe(z, z.driver.recovery.topic))
    BY <1>3, <1>9, <1>11, UnsubscribeQuiet
  <1>13. Quiet(z, on_connected(x))
    BY <1>10, <1>11, <1>12
  <1>14. on_connected(x).driver.connected
    BY <1>3, <1>9, <1>13 DEF Quiet, SameSession
  <1> QED BY <1>3, <1>6, <1>9, <1>13, <1>14, QuietEnd

\* The one command outstanding is durable and waits for its PUBACK.
Answerable(x, ib) ==
  /\ ~Has(ib, "command") /\ ~Has(x.requests, "puback")
  /\ broker.inflight # << >> /\ Journalled(x.state, broker.inflight[1].id)

\* The PUBACK of a durable command is queued.
LEMMA AnswerKeeps ==
  ASSUME NEW x, NEW ib, CtxInv(x, ib), x.driver.connected, Answerable(x, ib),
         NEW token \in Tokens \union {None},
         NEW y \in Contexts, y.state = x.state, y.driver.held = << >>,
         y.driver.identity = x.driver.identity, y.driver.connected = x.driver.connected,
         y.driver.publish = x.driver.publish,
         y.requests = Append(x.requests, PubAck(token))
  PROVE  CtxInv(y, ib)
  <1>1. x.requests \in Seq(Outgoing)
    BY DEF CtxInv, Contexts
  <1>2. PubAck(token) \in Outgoing /\ PubAck(token).packet = "puback"
    BY PacketTypes
  <1>3. /\ ToSet(y.requests) = ToSet(x.requests) \union {PubAck(token)}
        /\ \A name : Has(y.requests, name) <=>
             Has(x.requests, name) \/ PubAck(token).packet = name
        /\ \A name : One(x.requests, name)
             /\ (PubAck(token).packet = name => ~Has(x.requests, name))
             => One(y.requests, name)
    BY <1>1, <1>2, AppendPacket
  <1>4. PublishInv(y, ib)
    BY <1>2, <1>3 DEF CtxInv, PublishInv
  <1>5. DeliveryInv(y, ib)
    BY <1>2, <1>3 DEF CtxInv, DeliveryInv, Answerable
  <1>6. ConnectInv(y, ib)
    BY DEF CtxInv, ConnectInv
  <1> QED BY <1>4, <1>5, <1>6 DEF CtxInv

\* The PUBACK of a durable command is held back.
LEMMA HoldKeeps ==
  ASSUME NEW x, NEW ib, CtxInv(x, ib), x.driver.connected, Answerable(x, ib),
         NEW y \in Contexts, y.state = x.state,
         y.driver.identity = x.driver.identity, y.driver.connected = x.driver.connected,
         y.driver.publish = x.driver.publish, y.requests = x.requests
  PROVE  CtxInv(y, ib)
  <1>1. PublishInv(y, ib)
    BY DEF CtxInv, PublishInv
  <1>2. DeliveryInv(y, ib)
    BY DEF CtxInv, DeliveryInv, Answerable
  <1>3. ConnectInv(y, ib)
    BY DEF CtxInv, ConnectInv
  <1> QED BY <1>1, <1>2, <1>3 DEF CtxInv

\* The token of a delivery.
LEMMA TokenType ==
  ASSUME NEW s \in States, NEW m \in Messages
  PROVE  pending_delivery_settlement_token(s, m.topic, m.id) \in Tokens \union {None}
  <1>1. m.topic \in Nat /\ m.id \in CommandIds
    BY MessageFacts
  <1>2. s.pending_inbound # None => s.pending_inbound.fingerprint \in Fingerprints
    BY DEF States, PendingInbound
  <1> QED BY <1>1, <1>2 DEF pending_delivery_settlement_token, SettlementToken, Tokens

\* A sequence of one element.
LEMMA OneElement ==
  ASSUME NEW S, NEW e \in S
  PROVE  <<e>> \in Seq(S)
  OBVIOUS

\* A command is delivered.
LEMMA CommandGood ==
  ASSUME NEW x, NEW ib, CtxInv(x, ib), ib # << >>, x.driver.connected,
         x.control = "Continue", ib[1].packet = "command",
         NEW m, m = ib[1].message
  PROVE  LET y == on_command(x, m) IN
         Good(x, y, Tail(ib)) /\ (y.control = "Continue" => y.driver.connected)
  <1>1. /\ x \in Contexts /\ x.driver \in Drivers /\ AgentInv(x.state)
        /\ ib \in Seq(Incoming) /\ x.driver.identity \in Nat
    BY DEF CtxInv, Contexts, Drivers
  <1>2. PICK r : r = Tail(ib)
    OBVIOUS
  <1>3. CtxInv(x, r) /\ ib[1] \in Incoming /\ ib[1] \in ToSet(ib) /\ Has(ib, "command")
    BY <1>1, <1>2, PolledKeeps, TakePacket
  <1>4. /\ broker.inflight = <<m>> /\ ~Has(x.requests, "puback")
        /\ x.driver.held = << >> /\ ~Has(r, "command")
    BY <1>1, <1>2, <1>3, TakePacket DEF CtxInv, DeliveryInv
  <1>5. m \in Messages
    BY <1>3 DEF Incoming, ConnAck, SubAck, UnsubAck
  <1>6. PICK e : e = Disposition(x.state, m)
    OBVIOUS
  <1>7. /\ Keeps(x.state, e.state) /\ e.state \in States
        /\ Blocked(x.state) => Blocked(e.state)
        /\ e.state.credential_generation # x.state.credential_generation =>
             Blocked(e.state)
        /\ e.result \notin AgentErrors => Journalled(e.state, m.id)
    BY <1>1, <1>5, <1>6, DispositionKeeps DEF Keeps, AgentInv
  <1>8. PICK d : d = [x.driver EXCEPT !.observed =
                        @ \/ (x.driver.recovery # None /\ x.driver.recovery.topic = m.topic)]
    OBVIOUS
  <1>9. /\ d \in Drivers /\ d.identity = x.driver.identity
        /\ d.connected = x.driver.connected /\ d.publish = x.driver.publish
        /\ d.held = x.driver.held
    BY <1>1, <1>8 DEF Drivers
  <1>10. PICK w : w = [x EXCEPT !.driver = d]
    OBVIOUS
  <1>11. /\ w \in Contexts /\ w.state = x.state /\ w.driver = d
         /\ w.requests = x.requests /\ w.control = "Continue"
    BY <1>1, <1>9, <1>10, DriverFields
  <1>12. PICK y : y = WithEffect(w, e)
    OBVIOUS
  <1>13. /\ y \in Contexts /\ y.state = e.state /\ y.driver = d
         /\ y.requests = x.requests
         /\ y.control = IF e.result \in AgentErrors THEN "Fatal" ELSE "Continue"
    BY <1>7, <1>11, <1>12, EffectFields
  <1>14. CtxInv(y, r)
    <2>1. y.driver.identity # y.state.credential_generation => Blocked(y.state)
      BY <1>3, <1>7, <1>9, <1>13 DEF CtxInv, ConnectInv
    <2> QED BY <1>3, <1>7, <1>9, <1>13, <2>1, StateKeeps DEF SameSession
  <1>15. PICK token \in Tokens \union {None} :
            token = pending_delivery_settlement_token(y.state, m.topic, m.id)
    BY <1>5, <1>7, <1>13, TokenType
  <1>16. PICK hold : hold = should_hold_command_ack(e.result = "Accepted",
                               command_intake_open(y.state, ClockNow), y.driver.shutdown)
    OBVIOUS
  <1>17. on_command(x, m) =
           IF ~InScope(x.driver, m) THEN Fatal(x)
           ELSE IF y.control = "Fatal" THEN y
           ELSE IF hold
           THEN [StartUnsubscribe(y, y.driver.identity) EXCEPT !.driver.held = <<token>>]
           ELSE Queue(y, PubAck(token))
    BY <1>6, <1>8, <1>10, <1>12, <1>15, <1>16 DEF on_command
  <1>18. x.state.command_journal \subseteq y.state.command_journal
    BY <1>7, <1>13 DEF Keeps
  <1>19. Good(x, Fatal(x), r) /\ Fatal(x).control = "Fatal"
    BY <1>1, SessionEnds, ControlFields DEF Fatal
  <1>20. y.control = "Fatal" => Good(x, y, r)
    BY <1>13, <1>14, <1>18 DEF Good, CtxInv
  <1>21. ASSUME y.control # "Fatal"
         PROVE  Answerable(y, r) /\ y.control = "Continue" /\ y.driver.held = << >>
    BY <1>4, <1>7, <1>9, <1>13, <1>21 DEF Answerable
  <1>22. ASSUME y.control # "Fatal", NEW z, z = Queue(y, PubAck(token))
         PROVE  Good(x, z, r) /\ z.driver.connected
    <2>1. PubAck(token) \in Outgoing BY PacketTypes
    <2>2. /\ z \in Contexts /\ z.state = y.state /\ z.driver = y.driver
          /\ z.requests = Append(y.requests, PubAck(token))
      BY <1>13, <1>22, <2>1, QueueFields
    <2>3. CtxInv(z, r)
      BY <1>9, <1>13, <1>14, <1>21, <1>22, <2>2, AnswerKeeps
    <2> QED BY <1>9, <1>13, <1>18, <2>2, <2>3 DEF Good, CtxInv
  <1>23. ASSUME y.control # "Fatal", NEW z,
                z = [StartUnsubscribe(y, y.driver.identity) EXCEPT !.driver.held = <<token>>]
         PROVE  Good(x, z, r) /\ z.driver.connected
    <2>1. PICK v : v = StartUnsubscribe(y, y.driver.identity)
      OBVIOUS
    <2>2. Quiet(y, v)
      BY <1>1, <1>9, <1>13, <2>1, UnsubscribeQuiet
    <2>3. CtxInv(v, r) /\ v.driver \in Drivers /\ v \in Contexts
      <3>1. y.driver.connected BY <1>9, <1>13
      <3>2. CtxInv(v, r) BY <1>14, <2>2, <3>1, QuietKeeps
      <3> QED BY <3>2 DEF CtxInv, Contexts
    <2>4. Answerable(v, r)
      <3>1. y.requests \in Seq(Outgoing) BY <1>13 DEF Contexts
      <3>2. ~Has(y.requests, "puback") BY <1>21, <1>23 DEF Answerable
      <3>3. ~Has(v.requests, "puback")
        <4>1. CASE v.requests = y.requests BY <3>2, <4>1
        <4>2. ASSUME NEW p \in Outgoing, p.packet \in {"subscribe", "unsubscribe"},
                     v.requests = Append(y.requests, p)
              PROVE  ~Has(v.requests, "puback")
          BY <3>1, <3>2, <4>2, AppendPacket
        <4> QED BY <2>2, <4>1, <4>2 DEF Quiet
      <3>4. v.state = y.state BY <2>2 DEF Quiet
      <3> QED BY <1>21, <1>23, <3>3, <3>4 DEF Answerable
    <2>5. PICK h : h = [v.driver EXCEPT !.held = <<token>>]
      OBVIOUS
    <2>6. /\ h \in Drivers /\ h.identity = v.driver.identity
          /\ h.connected = v.driver.connected /\ h.publish = v.driver.publish
      <3>1. PICK k \in Seq(Tokens \union {None}) : k = <<token>>
        BY OneElement
      <3>2. h = [v.driver EXCEPT !.held = k] BY <2>5, <3>1
      <3> QED BY <2>3, <3>1, <3>2 DEF Drivers
    <2>7. z = [v EXCEPT !.driver = h]
      BY <1>23, <2>1, <2>5
    <2>8. /\ z \in Contexts /\ z.state = v.state /\ z.driver = h /\ z.requests = v.requests
      BY <2>3, <2>6, <2>7, DriverFields
    <2>9. v.driver.connected /\ v.state = y.state
      BY <1>9, <1>13, <2>2 DEF Quiet, SameSession
    <2>10. CtxInv(z, r)
      BY <2>3, <2>4, <2>6, <2>8, <2>9, HoldKeeps
    <2> QED BY <1>18, <2>6, <2>8, <2>9, <2>10 DEF Good, CtxInv
  <1>24. LET z == on_command(x, m) IN
         Good(x, z, r) /\ (z.control = "Continue" => z.driver.connected)
    BY <1>17, <1>19, <1>20, <1>22, <1>23
  <1> QED BY <1>2, <1>24


\* The driver takes note of something the invariant is not about.
LEMMA NoteQuiet ==
  ASSUME NEW x \in Contexts, NEW d \in Drivers, d.identity = x.driver.identity,
         d.connected = x.driver.connected, d.publish = x.driver.publish,
         d.held = x.driver.held, NEW y, y = [x EXCEPT !.driver = d]
  PROVE  Quiet(x, y) /\ y.driver = d /\ y.requests = x.requests
  <1>1. /\ y \in Contexts /\ y.state = x.state /\ y.driver = d
        /\ y.requests = x.requests /\ y.control = x.control
    BY DriverFields
  <1> QED BY <1>1 DEF Quiet, SameSession

\* The fact outstanding has been taken.
LEMMA AckedKeeps ==
  ASSUME NEW x, NEW ib, CtxInv(x, ib), x.driver.connected,
         ~Has(x.requests, "publish"), ~Has(ib, "factack"),
         NEW y \in Contexts, y.requests = x.requests, AgentInv(y.state),
         y.state.command_journal = x.state.command_journal,
         y.state.credential_generation = x.state.credential_generation,
         Blocked(x.state) => Blocked(y.state),
         y.driver.identity = x.driver.identity,
         y.driver.connected = x.driver.connected, y.driver.held = x.driver.held
  PROVE  CtxInv(y, ib)
  <1>1. PublishInv(y, ib)
    BY DEF CtxInv, PublishInv, Has
  <1>2. DeliveryInv(y, ib)
    BY DEF CtxInv, DeliveryInv, Journalled
  <1>3. ConnectInv(y, ib)
    BY DEF CtxInv, ConnectInv
  <1> QED BY <1>1, <1>2, <1>3 DEF CtxInv

\* PUBACK of a fact.
LEMMA OutboundAckGood ==
  ASSUME NEW x, NEW ib, CtxInv(x, ib), ib # << >>, x.driver.connected,
         x.control = "Continue", ib[1].packet = "factack",
         NEW event, event = ib[1].event
  PROVE  LET y == on_outbound_acknowledged(x, event) IN
         Good(x, y, Tail(ib)) /\ (y.control = "Continue" => y.driver.connected)
  <1>1. /\ x \in Contexts /\ x.driver \in Drivers /\ AgentInv(x.state)
        /\ ib \in Seq(Incoming)
    BY DEF CtxInv, Contexts
  <1>2. PICK r : r = Tail(ib)
    OBVIOUS
  <1>3. /\ CtxInv(x, r) /\ ib[1] \in ToSet(ib) /\ Has(ib, "factack")
        /\ One(ib, "factack") => ~Has(r, "factack")
    BY <1>1, <1>2, PolledKeeps, TakePacket
  <1>4. event \in received /\ ~Has(x.requests, "publish") /\ ~Has(r, "factack")
    BY <1>3 DEF CtxInv, PublishInv
  <1>5. PICK d : d = [x.driver EXCEPT !.publish = "Idle"]
    OBVIOUS
  <1>6. /\ d \in Drivers /\ d.identity = x.driver.identity
        /\ d.connected = x.driver.connected /\ d.held = x.driver.held
    BY <1>1, <1>5 DEF Drivers
  <1>7. PICK w : w = [x EXCEPT !.driver = d]
    OBVIOUS
  <1>8. /\ w \in Contexts /\ w.state = x.state /\ w.driver = d
        /\ w.requests = x.requests /\ w.control = "Continue"
    BY <1>1, <1>6, <1>7, DriverFields
  <1>9. PICK e : e = ConfirmOutbound(x.state, event)
    OBVIOUS
  <1>10. /\ AgentInv(e.state) /\ e.state.command_journal = x.state.command_journal
         /\ Blocked(x.state) => Blocked(e.state)
         /\ e.state.credential_generation = x.state.credential_generation
    BY <1>1, <1>4, <1>9, ConfirmKeeps
  <1>11. PICK y : y = WithEffect(w, e)
    OBVIOUS
  <1>12. /\ y \in Contexts /\ y.state = e.state /\ y.driver = d
         /\ y.requests = x.requests
         /\ y.control = IF e.result \in AgentErrors THEN "Fatal" ELSE "Continue"
    <2>1. e.state \in States BY <1>10 DEF AgentInv
    <2> QED BY <1>8, <1>11, <2>1, EffectFields
  <1>13. CtxInv(y, r) /\ y.driver.connected /\ y.driver.identity \in Nat
    <2>1. CtxInv(y, r)
      BY <1>3, <1>4, <1>6, <1>10, <1>12, AckedKeeps
    <2> QED BY <1>6, <1>12, <2>1 DEF Drivers
  <1>14. PICK g : g = [y.driver EXCEPT !.reconnect = TRUE]
    OBVIOUS
  <1>15. /\ g \in Drivers /\ g.identity = y.driver.identity
         /\ g.connected = y.driver.connected /\ g.publish = y.driver.publish
         /\ g.held = y.driver.held
    BY <1>6, <1>12, <1>14 DEF Drivers
  <1>16. PICK z : z = [y EXCEPT !.driver = g]
    OBVIOUS
  <1>17. Quiet(y, z) /\ z.driver = g /\ z.requests = y.requests
    BY <1>12, <1>15, <1>16, NoteQuiet
  <1>18. on_outbound_acknowledged(x, event) =
           IF x.driver.publish # "Pending" THEN Fatal(x)
           ELSE IF y.control = "Fatal" THEN y
           ELSE IF y.state.reconnect_revision # None
           THEN IF ~unsubscribe_pending(y.driver) /\ pending_inbound_settled(y.state)
                THEN Reconnect(y)
                ELSE IF can_unsubscribe(z.driver)
                THEN StartUnsubscribe(z, z.driver.identity) ELSE z
           ELSE IF can_subscribe(y.driver) THEN SubscribeIfOpen(y) ELSE y
    BY <1>5, <1>7, <1>9, <1>11, <1>14, <1>16 DEF on_outbound_acknowledged
  <1>19. x.state.command_journal \subseteq y.state.command_journal
    BY <1>10, <1>12
  <1>20. Good(x, Fatal(x), r) /\ Fatal(x).control = "Fatal"
    BY <1>1, SessionEnds, ControlFields DEF Fatal
  <1>21. Good(x, Reconnect(y), r) /\ Reconnect(y).control = "Reconnect"
    BY <1>10, <1>12, <1>19, SessionEnds, ControlFields DEF Reconnect
  <1>22. CtxInv(z, r) /\ z.driver.connected /\ z \in Contexts
         /\ z.state = y.state /\ z.driver.identity \in Nat
    <2>1. CtxInv(z, r) BY <1>13, <1>17, QuietKeeps
    <2> QED BY <1>13, <1>15, <1>17, <2>1 DEF CtxInv, Quiet
  <1>23. \A v : Quiet(y, v) => Good(x, v, r) /\ v.driver.connected
    BY <1>13, <1>19, QuietEnd DEF Quiet, SameSession
  <1>24. \A v : Quiet(z, v) => Good(x, v, r) /\ v.driver.connected
    BY <1>19, <1>22, QuietEnd DEF Quiet, SameSession
  <1>25. /\ Quiet(y, y) /\ Quiet(y, SubscribeIfOpen(y))
         /\ Quiet(z, z) /\ Quiet(z, StartUnsubscribe(z, z.driver.identity))
    BY <1>12, <1>22, SubscribeQuiet, UnsubscribeQuiet DEF Quiet, SameSession
  <1>26. LET v == on_outbound_acknowledged(x, event) IN
         Good(x, v, r) /\ (v.control = "Continue" => v.driver.connected)
    BY <1>18, <1>20, <1>21, <1>23, <1>24, <1>25
  <1> QED BY <1>2, <1>26

\* The delivery is settled, or that fails.
LEMMA SettlementKeeps ==
  ASSUME NEW x, NEW ib, CtxInv(x, ib), NEW token,
         NEW y, y = WithEffect(x, persist_inbound_settlement(x.state, token))
  PROVE  /\ CtxInv(y, ib) /\ y.driver = x.driver
         /\ x.state.command_journal \subseteq y.state.command_journal
         /\ y.control \in {"Fatal", x.control}
  <1>1. x \in Contexts /\ AgentInv(x.state)
    BY DEF CtxInv
  <1>2. PICK e : e = persist_inbound_settlement(x.state, token)
    OBVIOUS
  <1>3. /\ Keeps(x.state, e.state) /\ e.state \in States
        /\ e.state.credential_generation = x.state.credential_generation
        /\ Blocked(x.state) => Blocked(e.state)
    BY <1>1, <1>2, SettleKeeps DEF Keeps, AgentInv
  <1>4. /\ y \in Contexts /\ y.state = e.state /\ y.driver = x.driver
        /\ y.requests = x.requests
        /\ (y.control = "Fatal" \/ y.control = x.control)
    BY <1>1, <1>2, <1>3, EffectFields
  <1>5. y.driver.identity # y.state.credential_generation => Blocked(y.state)
    BY <1>3, <1>4 DEF CtxInv, ConnectInv
  <1>6. CtxInv(y, ib)
    BY <1>3, <1>4, <1>5, StateKeeps DEF SameSession
  <1> QED BY <1>3, <1>4, <1>6 DEF Keeps

\* UNSUBACK.
LEMMA UnsubscribedGood ==
  ASSUME NEW x, NEW ib, CtxInv(x, ib), ib # << >>, x.driver.connected,
         x.control = "Continue"
  PROVE  LET y == on_unsubscribed(x) IN
         Good(x, y, Tail(ib)) /\ (y.control = "Continue" => y.driver.connected)
  <1>1. x \in Contexts /\ x.driver \in Drivers
    BY DEF CtxInv, Contexts
  <1>2. PICK r : r = Tail(ib)
    OBVIOUS
  <1>3. CtxInv(x, r)
    BY <1>2, PolledKeeps
  <1>4. PICK d : d = [x.driver EXCEPT !.subscription = "Inactive"]
    OBVIOUS
  <1>5. /\ d \in Drivers /\ d.identity = x.driver.identity
        /\ d.connected = x.driver.connected /\ d.publish = x.driver.publish
        /\ d.held = x.driver.held
    BY <1>1, <1>4 DEF Drivers
  <1>6. PICK y : y = [x EXCEPT !.driver = d]
    OBVIOUS
  <1>7. Quiet(x, y) /\ y.driver = d /\ y.requests = x.requests
    BY <1>1, <1>5, <1>6, NoteQuiet
  <1>8. /\ CtxInv(y, r) /\ y \in Contexts /\ y.state = x.state /\ y.control = "Continue"
        /\ y.driver.connected
    <2>1. CtxInv(y, r) BY <1>3, <1>7, QuietKeeps
    <2> QED BY <1>5, <1>7, <2>1 DEF Quiet
  <1>9. PICK z : z = IF /\ y.driver.recovery # None /\ ~y.driver.observed
                        /\ ~pending_inbound_settled(y.state)
                     THEN WithEffect(y, persist_inbound_settlement(y.state, None)) ELSE y
    OBVIOUS
  <1>10. /\ CtxInv(z, r) /\ z.driver = y.driver
         /\ x.state.command_journal \subseteq z.state.command_journal
         /\ (z.control = "Fatal" \/ z.control = "Continue")
    <2>1. z = y \/ z = WithEffect(y, persist_inbound_settlement(y.state, None))
      BY <1>9
    <2>2. CASE z = y
      BY <1>8, <2>2
    <2>3. CASE z = WithEffect(y, persist_inbound_settlement(y.state, None))
      <3>1. CtxInv(y, r) BY <1>8
      <3>2. PICK token : token = None OBVIOUS
      <3>3. z = WithEffect(y, persist_inbound_settlement(y.state, token))
        BY <2>3, <3>2
      <3>4. /\ CtxInv(z, r) /\ z.driver = y.driver
            /\ y.state.command_journal \subseteq z.state.command_journal
            /\ z.control \in {"Fatal", y.control}
        BY <3>1, <3>3, SettlementKeeps
      <3> QED BY <1>8, <3>4
    <2> QED BY <2>1, <2>2, <2>3
  <1>11. PICK v : v = [Queue(y, PubAck(y.driver.held[1])) EXCEPT !.driver.held = << >>]
    OBVIOUS
  <1>12. PICK completion : completion =
            unsubscribe_completion(z.driver.reconnect, pending_inbound_settled(z.state),
                                   rotation_in_flight(z.state))
    OBVIOUS
  <1>13. on_unsubscribed(x) =
           IF y.driver.held # << >> THEN v
           ELSE IF z.control = "Fatal" THEN z
           ELSE IF completion = "Exit" THEN Reconnect(z)
           ELSE IF completion = "Subscribe" /\ can_subscribe(z.driver)
           THEN SubscribeIfOpen(z) ELSE z
    BY <1>4, <1>6, <1>9, <1>11, <1>12 DEF on_unsubscribed
  <1>14. z \in Contexts /\ AgentInv(z.state) /\ z.driver.connected
    BY <1>8, <1>10 DEF CtxInv
  <1>15. Good(x, Reconnect(z), r) /\ Reconnect(z).control = "Reconnect"
    BY <1>10, <1>14, SessionEnds, ControlFields DEF Reconnect
  <1>16. /\ Quiet(z, z) /\ Quiet(z, SubscribeIfOpen(z))
    BY <1>14, SubscribeQuiet DEF Quiet, SameSession
  <1>17. \A u : Quiet(z, u) => Good(x, u, r) /\ u.driver.connected
    BY <1>10, <1>14, QuietEnd DEF Quiet, SameSession
  <1>18. ASSUME y.driver.held # << >>
         PROVE  Good(x, v, r) /\ v.driver.connected
    <2>1. Answerable(y, r)
      BY <1>8, <1>18 DEF CtxInv, DeliveryInv, Answerable
    <2>2. PICK token : token = y.driver.held[1]
      OBVIOUS
    <2>3. token \in Tokens \union {None}
      <3>1. PICK T : T = Tokens \union {None} OBVIOUS
      <3>2. y.driver.held \in Seq(T) BY <1>5, <1>7, <3>1 DEF Drivers
      <3> QED BY <1>18, <2>2, <3>1, <3>2, EmptySeq
    <2>4. PICK q : q = Queue(y, PubAck(token))
      OBVIOUS
    <2>5. PubAck(token) \in Outgoing BY <2>3, PacketTypes
    <2>6. /\ q \in Contexts /\ q.state = y.state /\ q.driver = y.driver
          /\ q.requests = Append(y.requests, PubAck(token))
      BY <1>8, <2>4, <2>5, QueueFields
    <2>7. PICK h : h = [y.driver EXCEPT !.held = << >>]
      OBVIOUS
    <2>8. /\ h \in Drivers /\ h.identity = y.driver.identity
          /\ h.connected = y.driver.connected /\ h.publish = y.driver.publish
          /\ h.held = << >>
      <3>1. PICK k \in Seq(Tokens \union {None}) : k = << >>
        BY EmptySeq
      <3>2. h = [y.driver EXCEPT !.held = k] /\ y.driver \in Drivers
        BY <1>5, <1>7, <2>7, <3>1
      <3> QED BY <3>1, <3>2 DEF Drivers
    <2>9. v = [q EXCEPT !.driver = h]
      BY <1>11, <2>2, <2>4, <2>6, <2>7
    <2>10. /\ v \in Contexts /\ v.state = q.state /\ v.driver = h /\ v.requests = q.requests
      BY <2>6, <2>8, <2>9, DriverFields
    <2>11. CtxInv(v, r)
      BY <1>8, <2>1, <2>3, <2>6, <2>8, <2>10, AnswerKeeps
    <2> QED BY <1>8, <2>6, <2>8, <2>10, <2>11 DEF Good, CtxInv
  <1>19. LET u == on_unsubscribed(x) IN
         Good(x, u, r) /\ (u.control = "Continue" => u.driver.connected)
    BY <1>13, <1>15, <1>16, <1>17, <1>18
  <1> QED BY <1>2, <1>19

\* The PUBACK of a delivery has been written.
LEMMA InboundAckGood ==
  ASSUME NEW x, NEW ib, CtxInv(x, ib), NEW token
  PROVE  LET y == on_inbound_acknowledged(x, token) IN
         Good(x, y, ib) /\ y.driver.connected = x.driver.connected
  <1>1. PICK y : y = WithEffect(x, persist_inbound_settlement(x.state, token))
    OBVIOUS
  <1>2. /\ CtxInv(y, ib) /\ y.driver = x.driver
        /\ x.state.command_journal \subseteq y.state.command_journal
    BY <1>1, SettlementKeeps
  <1>3. /\ x \in Contexts /\ AgentInv(x.state) /\ y \in Contexts /\ AgentInv(y.state)
    BY <1>2 DEF CtxInv
  <1>4. Good(x, Reconnect(y), ib) /\ Reconnect(y).driver = x.driver
    BY <1>2, <1>3, SessionEnds, ControlFields DEF Reconnect
  <1>5. Good(x, x, ib) /\ Good(x, y, ib)
    BY <1>2, <1>3 DEF Good
  <1>6. \/ on_inbound_acknowledged(x, token) = x
        \/ on_inbound_acknowledged(x, token) = y
        \/ on_inbound_acknowledged(x, token) = Reconnect(y)
    BY <1>1 DEF on_inbound_acknowledged
  <1> QED BY <1>2, <1>4, <1>5, <1>6

\* The shutdown begins.
LEMMA ShutdownGood ==
  ASSUME NEW x, NEW ib, CtxInv(x, ib)
  PROVE  LET y == start_shutdown(x) IN
         Good(x, y, ib) /\ y.driver.connected = x.driver.connected
  <1>1. x \in Contexts /\ x.driver \in Drivers
    BY DEF CtxInv, Contexts
  <1>2. PICK d : d = [x.driver EXCEPT !.shutdown = TRUE]
    OBVIOUS
  <1>3. /\ d \in Drivers /\ d.identity = x.driver.identity
        /\ d.connected = x.driver.connected /\ d.publish = x.driver.publish
        /\ d.held = x.driver.held /\ d.identity \in Nat
    BY <1>1, <1>2 DEF Drivers
  <1>4. PICK y : y = [x EXCEPT !.driver = d]
    OBVIOUS
  <1>5. Quiet(x, y) /\ y.driver = d /\ y.requests = x.requests
    BY <1>1, <1>3, <1>4, NoteQuiet
  <1>6. /\ CtxInv(y, ib) /\ y \in Contexts /\ AgentInv(y.state) /\ y.state = x.state
    <2>1. CtxInv(y, ib) BY <1>5, QuietKeeps
    <2> QED BY <1>5, <2>1 DEF Quiet, CtxInv
  <1>7. start_shutdown(x) = IF can_unsubscribe(y.driver)
                            THEN StartUnsubscribe(y, y.driver.identity) ELSE y
    BY <1>2, <1>4 DEF start_shutdown
  <1>8. PICK z : z = StartUnsubscribe(y, y.driver.identity)
    OBVIOUS
  <1>9. Quiet(y, z)
    BY <1>3, <1>5, <1>6, <1>8, UnsubscribeQuiet
  <1>10. can_unsubscribe(y.driver) => Good(x, z, ib)
    BY <1>6, <1>9, QuietEnd DEF can_unsubscribe
  <1>11. Good(x, y, ib)
    BY <1>6 DEF Good
  <1>12. z.driver.connected = x.driver.connected
    BY <1>3, <1>5, <1>9 DEF Quiet, SameSession
  <1> QED BY <1>3, <1>5, <1>7, <1>8, <1>10, <1>11, <1>12

\* The next fact is handed to the transport.
LEMMA PublishedKeeps ==
  ASSUME NEW x, NEW ib, CtxInv(x, ib), x.driver.connected, x.driver.publish = "Idle",
         NEW k, k \in DOMAIN x.state.outbox, Publishable(x.state, x.state.outbox[k]),
         NEW y \in Contexts, y.state = x.state,
         y.driver.identity = x.driver.identity, y.driver.connected = x.driver.connected,
         y.driver.held = x.driver.held, y.driver.publish = "Pending",
         y.requests = Append(x.requests, PublishFact(x.state.outbox[k].event))
  PROVE  CtxInv(y, ib)
  <1>1. /\ x.requests \in Seq(Outgoing) /\ x.state \in States /\ verify(x.state)
    BY DEF CtxInv, Contexts, AgentInv
  <1>2. PICK entry : entry = x.state.outbox[k]
    OBVIOUS
  <1>3. entry \in Facts
    <2>1. x.state.outbox \in Seq(Facts) BY <1>1 DEF States, Facts
    <2> QED BY <1>2, <2>1
  <1>4. PICK event \in Events : event = entry.event
    BY <1>3 DEF Facts, Acks, Reports
  <1>5. Queued(x.state, event)
    <2>1. IsAck(entry) => event.kind # "report"
      <3>1. EntrySemanticValid(entry)
        BY <1>1, <1>2 DEF verify, OutboxEntriesValid
      <3>2. AckEvent(entry.command_id).kind = "ack" BY DEF AckEvent
      <3> QED BY <1>4, <3>1, <3>2 DEF EntrySemanticValid
    <2>2. IsAck(entry) \/ (entry.kind = "ReportReady" /\ InboundSettled(x.state))
      BY <1>2 DEF Publishable
    <2> QED BY <1>2, <1>4, <2>1, <2>2 DEF Queued
  <1>6. PICK p \in Outgoing : p = PublishFact(event) /\ p.packet = "publish" /\ p.event = event
    BY PacketTypes
  <1>7. /\ ToSet(y.requests) = ToSet(x.requests) \union {p}
        /\ \A name : Has(y.requests, name) <=> Has(x.requests, name) \/ p.packet = name
        /\ \A name : One(x.requests, name) /\ (p.packet = name => ~Has(x.requests, name))
             => One(y.requests, name)
    BY <1>1, <1>2, <1>4, <1>6, AppendPacket
  <1>8. ~Has(x.requests, "publish") /\ ~Has(ib, "factack")
    BY DEF CtxInv, PublishInv
  <1>9. PublishInv(y, ib)
    BY <1>5, <1>6, <1>7, <1>8 DEF CtxInv, PublishInv
  <1>10. DeliveryInv(y, ib)
    BY <1>6, <1>7 DEF CtxInv, DeliveryInv
  <1>11. ConnectInv(y, ib)
    BY DEF CtxInv, ConnectInv
  <1> QED BY <1>9, <1>10, <1>11 DEF CtxInv

\* The top of the loop.
LEMMA LoopTopGood ==
  ASSUME NEW x, NEW y, NEW ib, Good(x, y, ib)
  PROVE  LET z == LoopTop(y) IN
         /\ Good(x, z, ib)
         /\ z.control = "Continue" =>
              y.control = "Continue" /\ z.driver.connected = y.driver.connected
  <1>1. /\ y \in Contexts /\ y.driver \in Drivers /\ y.state \in States
        /\ AgentInv(y.state)
        /\ x.state.command_journal \subseteq y.state.command_journal
    BY DEF Good, Contexts, AgentInv
  <1>2. PICK i : i = next_outbound(y.state)
    OBVIOUS
  <1>3. PICK q : q = Queue(y, PublishFact(y.state.outbox[i].event))
    OBVIOUS
  <1>4. PICK p : p = [q EXCEPT !.driver.publish = "Pending"]
    OBVIOUS
  <1>5. ASSUME y.control = "Continue", can_publish(y.driver), i # 0
        PROVE  /\ CtxInv(p, ib) /\ p.control = "Continue" /\ p.state = y.state
               /\ p.driver.connected = y.driver.connected
    <2>1. CtxInv(y, ib) BY <1>5 DEF Good
    <2>2. i \in DOMAIN y.state.outbox /\ Publishable(y.state, y.state.outbox[i])
      BY <1>1, <1>2, <1>5, NextOutboundQueued
    <2>3. y.driver.connected /\ y.driver.publish = "Idle"
      BY <1>5 DEF can_publish
    <2>4. PublishFact(y.state.outbox[i].event) \in Outgoing
      <3>1. y.state.outbox \in Seq(Facts) BY <1>1 DEF States, Facts
      <3>2. y.state.outbox[i] \in Facts BY <2>2, <3>1
      <3>3. y.state.outbox[i].event \in Events BY <3>2 DEF Facts, Acks, Reports
      <3> QED BY <3>3, PacketTypes
    <2>5. /\ q \in Contexts /\ q.state = y.state /\ q.driver = y.driver
          /\ q.requests = Append(y.requests, PublishFact(y.state.outbox[i].event))
          /\ q.control = y.control
      BY <1>1, <1>3, <2>4, QueueFields
    <2>6. PICK d : d = [y.driver EXCEPT !.publish = "Pending"]
      OBVIOUS
    <2>7. /\ d \in Drivers /\ d.identity = y.driver.identity
          /\ d.connected = y.driver.connected /\ d.publish = "Pending"
          /\ d.held = y.driver.held
      BY <1>1, <2>6 DEF Drivers
    <2>8. p = [q EXCEPT !.driver = d]
      BY <1>4, <2>5, <2>6
    <2>9. /\ p \in Contexts /\ p.state = q.state /\ p.driver = d
          /\ p.requests = q.requests /\ p.control = q.control
      BY <2>5, <2>7, <2>8, DriverFields
    <2>10. CtxInv(p, ib)
      BY <2>1, <2>2, <2>3, <2>5, <2>7, <2>9, PublishedKeeps
    <2> QED BY <1>5, <2>5, <2>7, <2>9, <2>10
  <1>6. PICK w : w = publish_next(y)
    OBVIOUS
  <1>7. w = IF can_publish(y.driver) /\ i # 0 THEN p ELSE y
    BY <1>2, <1>3, <1>4, <1>6 DEF publish_next
  <1>8. ASSUME y.control = "Continue"
        PROVE  /\ CtxInv(w, ib) /\ w.control = "Continue" /\ w.state = y.state
               /\ w.driver.connected = y.driver.connected /\ w \in Contexts
    BY <1>5, <1>7, <1>8 DEF Good, CtxInv
  <1>9. PICK z : z = LoopTop(y)
    OBVIOUS
  <1>10. CASE y.control # "Continue"
    <2>1. z = y BY <1>9, <1>10 DEF LoopTop
    <2> QED BY <1>9, <1>10, <2>1
  <1>11. CASE y.control = "Continue"
    <2>1. PICK v : v = [w EXCEPT !.control = "Shutdown"]
      OBVIOUS
    <2>2. z = v \/ z = w
      BY <1>6, <1>9, <1>11, <2>1 DEF LoopTop
    <2>3. v \in Contexts /\ v.state = w.state /\ v.control = "Shutdown"
      BY <1>8, <1>11, <2>1, ControlFields
    <2>4. Good(x, v, ib) /\ Good(x, w, ib)
      BY <1>1, <1>8, <1>11, <2>3 DEF Good
    <2> QED BY <1>8, <1>9, <1>11, <2>2, <2>3, <2>4
  <1> QED BY <1>10, <1>11

-----------------------------------------------------------------------------
(* The steps. *)

\* A session is over, or there is none.
LEMMA NoSession ==
  ASSUME IInv, process' \in {"up", "retrying", "down", "failed"},
         driver' = None, link' = "none", requests' = << >>, inbox' = << >>,
         AgentInv(state'), state.command_journal \subseteq state'.command_journal,
         UNCHANGED environment
  PROVE  IInv'
  <1>1. AgentInv(state)'
    BY DEF AgentInv, AckTaken, environment
  <1>2. BrokerInv'
    BY DEF IInv, BrokerInv, environment
  <1>3. SettledIsDurable'
    BY DEF IInv, SettledIsDurable, Held, environment
  <1> QED BY <1>1, <1>2, <1>3 DEF IInv, environment

\* A handler comes back to the top of the loop.
LEMMA HandledKeeps ==
  ASSUME IInv, driver # None, NEW y, NEW ib, NEW left, Good(Here, y, ib),
         y.control = "Continue" =>
            y.driver.connected \/ (ib = inbox /\ y.driver.connected = driver.connected),
         Handled(y, ib, left)
  PROVE  IInv'
  <1>1. /\ state' = y.state /\ AgentInv(state') /\ UNCHANGED environment
        /\ state.command_journal \subseteq state'.command_journal
    BY DEF Handled, Good, Here, Context
  <1>2. CASE y.control # "Continue"
    <2>1. /\ driver' = None /\ link' = "none" /\ requests' = << >> /\ inbox' = << >>
          /\ process' = CASE y.control = "Reconnect" -> "up"
                          [] y.control = "Shutdown" -> "down"
                          [] y.control = "Fatal" -> "failed"
      BY <1>2 DEF Handled, EndSession
    <2>2. y.control \in {"Reconnect", "Shutdown", "Fatal"}
      BY <1>2 DEF Good, Contexts
    <2>3. process' \in {"up", "retrying", "down", "failed"}
      BY <2>1, <2>2
    <2> QED BY <1>1, <2>1, <2>3, NoSession
  <1>3. CASE y.control = "Continue"
    <2>1. /\ driver' = y.driver /\ requests' = y.requests /\ inbox' = ib
          /\ UNCHANGED <<link, process>>
      BY <1>3 DEF Handled
    <2>2. CtxInv(y, ib) /\ y \in Contexts /\ y.driver \in Drivers
      BY <1>3 DEF Good, CtxInv, Contexts
    <2>3. Here' = y
      BY <1>1, <1>3, <2>1, <2>2 DEF Here, Context, Contexts
    <2>4. broker' = broker /\ received' = received /\ position' = position
      BY <1>1 DEF environment
    <2>5. CtxInv(Here, inbox)'
      BY <2>1, <2>2, <2>3, <2>4
      DEF CtxInv, PublishInv, DeliveryInv, ConnectInv, AgentInv, AckTaken
    <2>6. driver' # None
      BY <2>1, <2>2, ScriptAssumption, Zenon
    <2>7. AgentInv(state)'
      BY <1>1, <2>4 DEF AgentInv, AckTaken
    <2>8. BrokerInv'
      BY <2>4 DEF IInv, BrokerInv
    <2>9. SettledIsDurable'
      BY <1>1, <2>4 DEF IInv, SettledIsDurable, Held
    <2>10. link' = "up" /\ ~driver'.connected => inbox' # << >>
      BY <1>3, <2>1 DEF IInv
    <2> QED BY <2>1, <2>4, <2>5, <2>6, <2>7, <2>8, <2>9, <2>10 DEF IInv
  <1> QED BY <1>2, <1>3

\* The context of the running session.
LEMMA HereFacts ==
  ASSUME IInv, driver # None
  PROVE  /\ CtxInv(Here, inbox) /\ Here.state = state /\ Here.driver = driver
         /\ Here.requests = requests /\ Here.control = "Continue"
         /\ requests \in Seq(Outgoing) /\ inbox \in Seq(Incoming)
         /\ driver \in Drivers
  <1>1. /\ CtxInv(Here, inbox) /\ Here.state = state /\ Here.driver = driver
        /\ Here.requests = requests /\ Here.control = "Continue"
    BY DEF IInv, Here, Context
  <1> QED BY <1>1 DEF CtxInv, Contexts

\* handle_event for a packet of the broker.
LEMMA HandlePacketGood ==
  ASSUME NEW x, NEW ib, CtxInv(x, ib), ib # << >>, x.control = "Continue"
  PROVE  LET y == HandlePacket(x, ib[1]) IN
         Good(x, y, Tail(ib)) /\ (y.control = "Continue" => y.driver.connected)
  <1>1. PICK p : p = ib[1]
    OBVIOUS
  <1>2. p \in Incoming
    BY <1>1, TakePacket DEF CtxInv
  <1>3. p.packet \in {"connack", "suback", "unsuback", "command", "factack"}
    BY <1>2 DEF Incoming, ConnAck, SubAck, UnsubAck
  <1>4. p.packet = "connack" <=> ~x.driver.connected
    BY <1>1, FirstPacket
  <1>5. PICK y : y = HandlePacket(x, p)
    OBVIOUS
  <1>6. CASE p.packet = "connack"
    <2>1. y = on_connected(x) BY <1>5, <1>6 DEF HandlePacket
    <2> QED BY <1>1, <1>4, <1>5, <1>6, <2>1, ConnectedGood
  <1>7. CASE p.packet = "suback"
    <2>1. y = on_subscribed(x) BY <1>5, <1>7 DEF HandlePacket
    <2> QED BY <1>1, <1>4, <1>5, <1>7, <2>1, SubscribedGood
  <1>8. CASE p.packet = "unsuback"
    <2>1. y = on_unsubscribed(x) BY <1>5, <1>8 DEF HandlePacket
    <2> QED BY <1>1, <1>4, <1>5, <1>8, <2>1, UnsubscribedGood
  <1>9. CASE p.packet = "command"
    <2>1. PICK m : m = p.message OBVIOUS
    <2>2. y = on_command(x, m) BY <1>5, <1>9, <2>1 DEF HandlePacket
    <2> QED BY <1>1, <1>4, <1>5, <1>9, <2>1, <2>2, CommandGood
  <1>10. CASE p.packet = "factack"
    <2>1. PICK event : event = p.event OBVIOUS
    <2>2. y = on_outbound_acknowledged(x, event) BY <1>5, <1>10, <2>1 DEF HandlePacket
    <2> QED BY <1>1, <1>4, <1>5, <1>10, <2>1, <2>2, OutboundAckGood
  <1> QED BY <1>3, <1>6, <1>7, <1>8, <1>9, <1>10

\* It is polled, and the driver comes to the top of its loop.
LEMMA PollPacketKeeps ==
  ASSUME IInv, PollPacket
  PROVE  IInv'
  <1>1. driver # None /\ inbox # << >>
    BY DEF PollPacket
  <1>2. PICK x : x = Here
    OBVIOUS
  <1>3. CtxInv(x, inbox) /\ x.control = "Continue"
    BY <1>1, <1>2, HereFacts
  <1>4. PICK y : y = HandlePacket(x, inbox[1])
    OBVIOUS
  <1>5. Good(x, y, Tail(inbox)) /\ (y.control = "Continue" => y.driver.connected)
    BY <1>1, <1>3, <1>4, HandlePacketGood
  <1>6. PICK z : z = LoopTop(y)
    OBVIOUS
  <1>7. Good(x, z, Tail(inbox)) /\ (z.control = "Continue" => z.driver.connected)
    BY <1>5, <1>6, LoopTopGood
  <1>8. Handled(z, Tail(inbox), sent)
    BY <1>2, <1>4, <1>6 DEF PollPacket
  <1> QED BY <1>1, <1>2, <1>7, <1>8, HandledKeeps

\* handle_event for the outgoing PUBACK, and the shutdown arm.
LEMMA PollSentKeeps ==
  ASSUME IInv, PollSent \/ StartShutdown
  PROVE  IInv'
  <1>1. driver # None
    BY DEF PollSent, StartShutdown
  <1>2. PICK x : x = Here
    OBVIOUS
  <1>3. CtxInv(x, inbox) /\ x.driver = driver
    BY <1>1, <1>2, HereFacts
  <1>4. PICK y, left :
          /\ Good(x, y, inbox) /\ y.driver.connected = driver.connected
          /\ Handled(LoopTop(y), inbox, left)
    <2>1. CASE PollSent
      <3>1. PICK y : y = on_inbound_acknowledged(x, sent[1]) OBVIOUS
      <3>2. Handled(LoopTop(y), inbox, Tail(sent))
        BY <1>2, <2>1, <3>1 DEF PollSent
      <3>3. Good(x, y, inbox) /\ y.driver.connected = driver.connected
        BY <1>3, <3>1, InboundAckGood
      <3> QED BY <3>2, <3>3
    <2>2. CASE StartShutdown
      <3>1. PICK y : y = start_shutdown(x) OBVIOUS
      <3>2. Handled(LoopTop(y), inbox, sent)
        BY <1>2, <2>2, <3>1 DEF StartShutdown
      <3>3. Good(x, y, inbox) /\ y.driver.connected = driver.connected
        BY <1>3, <3>1, ShutdownGood
      <3> QED BY <3>2, <3>3
    <2> QED BY <2>1, <2>2
  <1>5. PICK z : z = LoopTop(y)
    OBVIOUS
  <1>6. /\ Good(x, z, inbox)
        /\ z.control = "Continue" => z.driver.connected = driver.connected
    BY <1>4, <1>5, LoopTopGood
  <1> QED BY <1>1, <1>2, <1>4, <1>5, <1>6, HandledKeeps

\* What a step shows that leaves the state, the process, the driver and the
\* link alone.
LEMMA SessionGoesOn ==
  ASSUME IInv, driver # None, link' \in {link, "broken"}, UNCHANGED <<process, driver, state>>,
         received \subseteq received', BrokerInv', UNCHANGED position,
         requests' \in Seq(Outgoing), inbox' \in Seq(Incoming),
         PublishInv(Here, inbox)', DeliveryInv(Here, inbox)', ConnectInv(Here, inbox)',
         link' = "up" /\ ~driver.connected => inbox' # << >>,
         SettledIsDurable'
  PROVE  IInv'
  <1>1. AgentInv(state)'
    BY DEF IInv, AgentInv, AckTaken
  <1>2. Here' \in Contexts /\ Here'.state = state'
    <2>1. state \in States /\ driver \in Drivers
      BY HereFacts DEF IInv, AgentInv
    <2> QED BY <2>1 DEF Here, Context, Contexts
  <1>3. CtxInv(Here, inbox)'
    BY <1>1, <1>2 DEF CtxInv, AgentInv, AckTaken
  <1>4. link' \in {"none", "up", "broken"} /\ link # "none" /\ link' # "none"
    BY DEF IInv
  <1> QED BY <1>1, <1>3, <1>4 DEF IInv

\* The packets of the broker.
LEMMA IncomingTypes ==
  /\ SubAck \in Incoming /\ SubAck.packet = "suback"
  /\ UnsubAck \in Incoming /\ UnsubAck.packet = "unsuback"
  /\ ConnAck \in Incoming /\ ConnAck.packet = "connack"
  /\ \A event \in Events : /\ FactAck(event) \in Incoming
                           /\ FactAck(event).packet = "factack"
                           /\ FactAck(event).event = event
  /\ \A m \in Messages : /\ Command(m) \in Incoming
                         /\ Command(m).packet = "command"
                         /\ Command(m).message = m
  BY DEF SubAck, UnsubAck, ConnAck, FactAck, Command, Incoming

\* The client writes a packet.
LEMMA SendKeeps ==
  ASSUME IInv, Send
  PROVE  IInv'
  <1>1. /\ driver # None /\ driver.connected /\ requests # << >>
        /\ requests' = Tail(requests)
        /\ UNCHANGED <<state, process, driver, link, position>>
    BY DEF Send
  <1>2. PICK x : x = Here
    OBVIOUS
  <1>3. /\ CtxInv(x, inbox) /\ x.state = state /\ x.driver = driver /\ x.requests = requests
        /\ requests \in Seq(Outgoing) /\ inbox \in Seq(Incoming)
    BY <1>1, <1>2, HereFacts
  <1>4. PublishInv(x, inbox) /\ DeliveryInv(x, inbox) /\ ConnectInv(x, inbox)
    BY <1>3 DEF CtxInv
  <1>5. PICK r : r = Tail(requests)
    OBVIOUS
  <1>6. PICK p : p = requests[1]
    OBVIOUS
  <1>7. /\ r \in Seq(Outgoing) /\ p \in Outgoing /\ p \in ToSet(requests)
        /\ ToSet(r) \subseteq ToSet(requests)
        /\ \A name : Has(r, name) => Has(requests, name)
        /\ \A name : p.packet = name => Has(requests, name)
        /\ \A name : One(requests, name) =>
             One(r, name) /\ (p.packet = name => ~Has(r, name))
    BY <1>1, <1>3, <1>5, <1>6, TakePacket
  <1>8. PICK n : n = Context(state, driver, r)
    OBVIOUS
  <1>9. /\ Here' = n /\ n.state = state /\ n.driver = driver /\ n.requests = r
        /\ requests' = r
    BY <1>1, <1>5, <1>8 DEF Here, Context
  <1>10. BrokerInv /\ SettledIsDurable
    BY DEF IInv
  <1>11. p.packet \in {"subscribe", "unsubscribe", "publish", "puback"}
    BY <1>7 DEF Outgoing
  <1>12. ASSUME UNCHANGED <<broker, inbox, received>>
         PROVE  IInv'
    <2>1. BrokerInv' /\ SettledIsDurable'
      BY <1>1, <1>10, <1>12 DEF BrokerInv, SettledIsDurable, Held
    <2>2. PublishInv(Here, inbox)'
      BY <1>3, <1>4, <1>7, <1>9, <1>12 DEF PublishInv
    <2>3. DeliveryInv(Here, inbox)'
      BY <1>3, <1>4, <1>7, <1>9, <1>12 DEF DeliveryInv
    <2>4. ConnectInv(Here, inbox)'
      BY <1>1, <1>3, <1>4, <1>9, <1>12 DEF ConnectInv
    <2> QED BY <1>1, <1>3, <1>7, <1>9, <1>12, <2>1, <2>2, <2>3, <2>4, SessionGoesOn
  <1>13. ASSUME p.packet \in {"subscribe", "unsubscribe"}, BrokerTakes(p)
         PROVE  IInv'
    <2>1. p.topic \in Nat
      BY <1>7, <1>13 DEF Outgoing
    <2>2. PICK q \in Incoming :
             /\ q.packet \in {"suback", "unsuback"} /\ inbox' = Append(inbox, q)
             /\ received' = received
             /\ \E S \in SUBSET Nat : broker' = [broker EXCEPT !.subscriptions = S]
      <3>1. /\ broker.subscriptions \union {p.topic} \in SUBSET Nat
            /\ broker.subscriptions \ {p.topic} \in SUBSET Nat
        BY <1>10, <2>1 DEF BrokerInv
      <3>2. CASE p.packet = "subscribe"
        <4>1. /\ broker' = [broker EXCEPT !.subscriptions = broker.subscriptions \union {p.topic}]
              /\ inbox' = Append(inbox, SubAck) /\ received' = received
          BY <1>13, <3>2 DEF BrokerTakes
        <4> QED BY <3>1, <4>1, IncomingTypes
      <3>3. CASE p.packet = "unsubscribe"
        <4>1. /\ broker' = [broker EXCEPT !.subscriptions = broker.subscriptions \ {p.topic}]
              /\ inbox' = Append(inbox, UnsubAck) /\ received' = received
          BY <1>13, <3>3 DEF BrokerTakes
        <4> QED BY <3>1, <4>1, IncomingTypes
      <3> QED BY <1>13, <3>2, <3>3
    <2>3. /\ broker' \in [subscriptions : SUBSET Nat, queue : Seq(Messages),
                          inflight : Seq(Messages)]
          /\ broker'.queue = broker.queue /\ broker'.inflight = broker.inflight
      BY <1>10, <2>2 DEF BrokerInv
    <2>4. PICK ib : ib = Append(inbox, q)
      OBVIOUS
    <2>5. /\ ib \in Seq(Incoming) /\ ib # << >> /\ ToSet(ib) = ToSet(inbox) \union {q}
          /\ \A name : Has(ib, name) <=> Has(inbox, name) \/ q.packet = name
          /\ \A name : One(inbox, name) /\ (q.packet = name => ~Has(inbox, name))
               => One(ib, name)
          /\ \A i \in DOMAIN ib : (i \in DOMAIN inbox /\ ib[i] = inbox[i]) \/ ib[i] = q
      BY <1>3, <2>4, AppendPacket
    <2>6. inbox' = ib
      BY <2>2, <2>4
    <2>7. BrokerInv' /\ SettledIsDurable'
      BY <1>1, <1>10, <2>3 DEF BrokerInv, SettledIsDurable, Held
    <2>8. PublishInv(Here, inbox)'
      BY <1>3, <1>4, <1>7, <1>9, <2>2, <2>5, <2>6 DEF PublishInv
    <2>9. DeliveryInv(Here, inbox)'
      BY <1>3, <1>4, <1>7, <1>9, <2>2, <2>3, <2>5, <2>6 DEF DeliveryInv
    <2>10. ConnectInv(Here, inbox)'
      <3>1. q.packet # "connack" BY <2>2
      <3> QED BY <1>1, <1>3, <1>4, <1>9, <2>5, <2>6, <3>1 DEF ConnectInv
    <2> QED BY <1>1, <1>7, <1>9, <2>2, <2>5, <2>6, <2>7, <2>8, <2>9, <2>10, SessionGoesOn
  <1>14. ASSUME p.packet = "publish", BrokerTakes(p)
         PROVE  IInv'
    <2>1. p.event \in Events
      BY <1>7, <1>14 DEF Outgoing
    <2>2. PICK q \in Incoming :
             /\ q.packet = "factack" /\ q.event = p.event /\ inbox' = Append(inbox, q)
             /\ received' = received \union {p.event} /\ broker' = broker
      BY <1>14, <2>1, IncomingTypes DEF BrokerTakes
    <2>3. /\ ~Has(r, "publish") /\ ~Has(inbox, "factack") /\ driver.publish = "Pending"
      BY <1>3, <1>4, <1>7, <1>14 DEF PublishInv
    <2>31. Queued(state, q.event)
      BY <1>3, <1>4, <1>7, <1>14, <2>2 DEF PublishInv
    <2>4. PICK ib : ib = Append(inbox, q)
      OBVIOUS
    <2>5. /\ ib \in Seq(Incoming) /\ ib # << >> /\ ToSet(ib) = ToSet(inbox) \union {q}
          /\ \A name : Has(ib, name) <=> Has(inbox, name) \/ q.packet = name
          /\ \A name : One(inbox, name) /\ (q.packet = name => ~Has(inbox, name))
               => One(ib, name)
          /\ \A i \in DOMAIN ib : (i \in DOMAIN inbox /\ ib[i] = inbox[i]) \/ ib[i] = q
      BY <1>3, <2>4, AppendPacket
    <2>6. inbox' = ib
      BY <2>2, <2>4
    <2>7. BrokerInv' /\ SettledIsDurable'
      BY <1>1, <1>10, <2>2 DEF BrokerInv, SettledIsDurable, Held
    <2>8. PublishInv(Here, inbox)'
      BY <1>1, <1>3, <1>4, <1>7, <1>9, <2>2, <2>3, <2>31, <2>5, <2>6 DEF PublishInv
    <2>9. DeliveryInv(Here, inbox)'
      BY <1>3, <1>4, <1>7, <1>9, <2>2, <2>5, <2>6 DEF DeliveryInv
    <2>10. ConnectInv(Here, inbox)'
      BY <1>1, <1>3, <1>4, <1>9, <2>2, <2>5, <2>6 DEF ConnectInv
    <2> QED BY <1>1, <1>7, <1>9, <2>2, <2>5, <2>6, <2>7, <2>8, <2>9, <2>10, SessionGoesOn
  <1>15. ASSUME p.packet = "puback", BrokerTakes(p)
         PROVE  IInv'
    <2>1. /\ broker' = [broker EXCEPT !.inflight = << >>] /\ inbox' = inbox
          /\ received' = received
      BY <1>15 DEF BrokerTakes
    <2>2. /\ ~Has(r, "puback") /\ ~Has(inbox, "command") /\ driver.held = << >>
          /\ broker.inflight # << >> /\ Journalled(state, broker.inflight[1].id)
      BY <1>3, <1>4, <1>7, <1>15 DEF DeliveryInv
    <2>3. /\ broker' \in [subscriptions : SUBSET Nat, queue : Seq(Messages),
                          inflight : Seq(Messages)]
          /\ broker'.queue = broker.queue /\ broker'.inflight = << >>
      <3>1. PICK E \in Seq(Messages) : E = << >>
        BY EmptySeq
      <3> QED BY <1>10, <2>1, <3>1 DEF BrokerInv
    <2>4. BrokerInv'
      BY <2>3, EmptySeq DEF BrokerInv
    <2>5. SettledIsDurable'
      <3> SUFFICES ASSUME NEW i \in 1 .. position, Script[i] \notin Held'
                   PROVE  \E c \in state.command_journal : c.command_id = Script[i].id
        BY <1>1 DEF SettledIsDurable
      <3>1. CASE Script[i] \notin Held
        BY <1>10, <3>1 DEF SettledIsDurable
      <3>2. CASE Script[i] \in Held
        <4>1. PICK k \in DOMAIN broker.inflight : Script[i] = broker.inflight[k]
          BY <2>3, <3>2 DEF Held
        <4>2. k = 1
          <5>1. broker.inflight \in Seq(Messages) /\ Len(broker.inflight) <= 1
            BY <1>10 DEF BrokerInv
          <5> QED BY <4>1, <5>1
        <4> QED BY <2>2, <4>1, <4>2 DEF Journalled
      <3> QED BY <3>1, <3>2
    <2>6. PublishInv(Here, inbox)'
      BY <1>3, <1>4, <1>7, <1>9, <2>1 DEF PublishInv
    <2>7. DeliveryInv(Here, inbox)'
      <3>1. \A p1 \in ToSet(inbox) : p1.packet # "command" BY <2>2 DEF Has
      <3> QED BY <1>3, <1>4, <1>7, <1>9, <2>1, <2>2, <3>1 DEF DeliveryInv
    <2>8. ConnectInv(Here, inbox)'
      BY <1>1, <1>3, <1>4, <1>9, <2>1 DEF ConnectInv
    <2> QED BY <1>1, <1>3, <1>7, <1>9, <2>1, <2>4, <2>5, <2>6, <2>7, <2>8, SessionGoesOn
  <1>16. BrokerTakes(p) \/ UNCHANGED <<broker, inbox, received>>
    BY <1>6 DEF Send
  <1> QED BY <1>11, <1>12, <1>13, <1>14, <1>15, <1>16

\* The broker delivers the next command.
LEMMA DeliverKeeps ==
  ASSUME IInv, Deliver
  PROVE  IInv'
  <1>1. /\ link = "up" /\ broker.inflight = << >> /\ broker.queue # << >>
        /\ broker' = [broker EXCEPT !.inflight = <<broker.queue[1]>>, !.queue = Tail(@)]
        /\ inbox' = Append(inbox, Command(broker.queue[1]))
        /\ UNCHANGED <<state, process, driver, requests, link, received, position>>
    BY DEF Deliver
  <1>2. driver # None
    BY <1>1 DEF IInv
  <1>3. PICK x : x = Here
    OBVIOUS
  <1>4. /\ CtxInv(x, inbox) /\ x.state = state /\ x.driver = driver /\ x.requests = requests
        /\ requests \in Seq(Outgoing) /\ inbox \in Seq(Incoming) /\ Here' = x
    BY <1>1, <1>2, <1>3, HereFacts DEF Here
  <1>5. PublishInv(x, inbox) /\ DeliveryInv(x, inbox) /\ ConnectInv(x, inbox)
    BY <1>4 DEF CtxInv
  <1>6. BrokerInv /\ SettledIsDurable
    BY DEF IInv
  <1>7. PICK m : m = broker.queue[1]
    OBVIOUS
  <1>8. PICK u : u = Tail(broker.queue)
    OBVIOUS
  <1>9. /\ broker.queue \in Seq(Messages) /\ m \in Messages /\ u \in Seq(Messages)
        /\ \A i \in DOMAIN broker.queue :
              broker.queue[i] = m \/ (\E j \in DOMAIN u : u[j] = broker.queue[i])
    <2>1. broker.queue \in Seq(Messages) BY <1>6 DEF BrokerInv
    <2>2. /\ m \in Messages /\ u \in Seq(Messages) /\ DOMAIN u = 1 .. Len(broker.queue) - 1
          /\ \A i \in 1 .. Len(broker.queue) - 1 : u[i] = broker.queue[i + 1]
      BY <1>1, <1>7, <1>8, <2>1, HeadTailProperties, EmptySeq
    <2>3. ASSUME NEW i \in DOMAIN broker.queue, i # 1
          PROVE  \E j \in DOMAIN u : u[j] = broker.queue[i]
      <3>1. i - 1 \in DOMAIN u /\ u[i - 1] = broker.queue[i]
        BY <2>1, <2>2, <2>3
      <3> QED BY <3>1
    <2> QED BY <1>7, <2>1, <2>2, <2>3
  <1>10. PICK one : one = <<m>>
    OBVIOUS
  <1>11. one \in Seq(Messages) /\ Len(one) = 1 /\ DOMAIN one = {1} /\ one[1] = m
    <2>1. one \in Seq(Messages) BY <1>9, <1>10, OneElement
    <2>2. Len(one) = 1 /\ DOMAIN one = {1} /\ one[1] = m BY <1>10
    <2> QED BY <2>1, <2>2
  <1>12. /\ broker' \in [subscriptions : SUBSET Nat, queue : Seq(Messages),
                         inflight : Seq(Messages)]
         /\ broker'.queue = u /\ broker'.inflight = one
    BY <1>1, <1>6, <1>7, <1>8, <1>9, <1>10, <1>11 DEF BrokerInv
  <1>13. BrokerInv'
    <2>1. Len(one) <= 1 BY <1>11
    <2>2. broker'.inflight = one BY <1>12
    <2>3. Len(broker'.inflight) <= 1 BY <2>1, <2>2, Zenon
    <2> QED BY <1>12, <2>3 DEF BrokerInv
  <1>14. SettledIsDurable'
    <2>1. Held \subseteq Held'
      <3>1. ASSUME NEW i \in DOMAIN broker.queue PROVE broker.queue[i] \in Held'
        BY <1>9, <1>11, <1>12 DEF Held
      <3>2. DOMAIN broker.inflight = {} BY <1>1, EmptySeq
      <3> QED BY <3>1, <3>2 DEF Held
    <2> QED BY <1>1, <1>6, <2>1 DEF SettledIsDurable
  <1>15. PICK q \in Incoming : q = Command(m) /\ q.packet = "command" /\ q.message = m
    BY <1>9, IncomingTypes
  <1>16. PICK ib : ib = Append(inbox, q)
    OBVIOUS
  <1>17. /\ ib \in Seq(Incoming) /\ ib # << >> /\ ToSet(ib) = ToSet(inbox) \union {q}
         /\ \A name : Has(ib, name) <=> Has(inbox, name) \/ q.packet = name
         /\ \A name : One(inbox, name) /\ (q.packet = name => ~Has(inbox, name))
              => One(ib, name)
         /\ inbox # << >> => ib[1] = inbox[1]
         /\ \A i \in DOMAIN ib : (i \in DOMAIN inbox /\ ib[i] = inbox[i]) \/ ib[i] = q
    BY <1>4, <1>16, AppendPacket
  <1>18. inbox' = ib
    BY <1>1, <1>7, <1>15, <1>16
  <1>19. /\ ~Has(inbox, "command") /\ ~Has(requests, "puback") /\ driver.held = << >>
    <2>1. \A p \in ToSet(inbox) : p.packet # "command"
      BY <1>1, <1>5 DEF DeliveryInv
    <2> QED BY <1>1, <1>4, <1>5, <2>1 DEF DeliveryInv, Has
  <1>20. PublishInv(Here, inbox)'
    BY <1>1, <1>4, <1>5, <1>15, <1>17, <1>18 DEF PublishInv
  <1>21. DeliveryInv(Here, inbox)'
    <2>1. \A p \in ToSet(ib) : p.packet = "command" => p = q
      BY <1>17, <1>19 DEF Has
    <2> QED BY <1>4, <1>5, <1>10, <1>12, <1>15, <1>17, <1>18, <1>19, <2>1 DEF DeliveryInv
  <1>22. ~driver.connected => inbox # << >>
    BY <1>1, <1>2 DEF IInv
  <1>23. ConnectInv(Here, inbox)'
    BY <1>4, <1>5, <1>15, <1>17, <1>18, <1>22 DEF ConnectInv
  <1> QED BY <1>1, <1>2, <1>4, <1>13, <1>14, <1>17, <1>18, <1>20, <1>21, <1>23, SessionGoesOn

\* The server sends the next message.
LEMMA ServerSendsKeeps ==
  ASSUME IInv, ServerSends
  PROVE  IInv'
  <1>1. /\ position < Len(Script) /\ position' = position + 1
        /\ broker' = [broker EXCEPT !.queue = Append(broker.queue, Script[position + 1])]
        /\ UNCHANGED <<state, process, device, received>>
    BY DEF ServerSends
  <1>2. UNCHANGED <<driver, requests, link, inbox>>
    BY <1>1 DEF device
  <1>3. BrokerInv /\ SettledIsDurable /\ position \in Nat
    BY DEF IInv
  <1>4. PICK m : m = Script[position + 1]
    OBVIOUS
  <1>5. m \in Messages /\ Len(Script) \in Nat
    <2>1. PICK M : M = [topic : Nat, id : CommandIds, content : Commands \union Malformed]
      OBVIOUS
    <2>2. Script \in Seq(M) BY <2>1, ScriptAssumption, Zenon
    <2>3. position + 1 \in DOMAIN Script /\ Len(Script) \in Nat BY <1>1, <1>3, <2>2
    <2> QED BY <1>4, <2>3 DEF Messages, ToSet
  <1>6. PICK u : u = Append(broker.queue, m)
    OBVIOUS
  <1>7. /\ broker.queue \in Seq(Messages) /\ u \in Seq(Messages)
        /\ DOMAIN u = DOMAIN broker.queue \union {Len(broker.queue) + 1}
        /\ \A i \in DOMAIN broker.queue : u[i] = broker.queue[i]
        /\ u[Len(broker.queue) + 1] = m
    <2>1. broker.queue \in Seq(Messages) BY <1>3 DEF BrokerInv
    <2> QED BY <1>5, <1>6, <2>1, OneMore
  <1>8. /\ broker' \in [subscriptions : SUBSET Nat, queue : Seq(Messages),
                        inflight : Seq(Messages)]
        /\ broker'.queue = u /\ broker'.inflight = broker.inflight
    BY <1>1, <1>3, <1>4, <1>6, <1>7 DEF BrokerInv
  <1>9. BrokerInv'
    BY <1>3, <1>8 DEF BrokerInv
  <1>10. SettledIsDurable'
    <2>1. Held \subseteq Held' /\ m \in Held'
      BY <1>7, <1>8 DEF Held
    <2>2. \A i \in 1 .. position' : i \in 1 .. position \/ i = position + 1
      BY <1>1, <1>3
    <2> QED BY <1>1, <1>3, <1>4, <2>1, <2>2 DEF SettledIsDurable
  <1>11. position' \in Nat /\ position' <= Len(Script)
    BY <1>1, <1>3, <1>5
  <1>12. AgentInv(state)'
    BY <1>1 DEF IInv, AgentInv, AckTaken
  <1>13. driver # None => CtxInv(Here, inbox)'
    <2> SUFFICES ASSUME driver # None PROVE CtxInv(Here, inbox)'
      OBVIOUS
    <2>1. PICK x : x = Here OBVIOUS
    <2>2. CtxInv(x, inbox) /\ Here' = x
      BY <1>1, <1>2, <2>1, HereFacts DEF Here
    <2> QED BY <1>1, <1>2, <1>8, <2>2
            DEF CtxInv, PublishInv, DeliveryInv, ConnectInv, AgentInv, AckTaken
  <1> QED BY <1>1, <1>2, <1>9, <1>10, <1>11, <1>12, <1>13 DEF IInv

\* The connection breaks.
LEMMA BreakLinkKeeps ==
  ASSUME IInv, BreakLink
  PROVE  IInv'
  <1>1. /\ link = "up" /\ link' = "broken"
        /\ UNCHANGED <<state, process, driver, requests, environment>>
    BY DEF BreakLink
  <1>2. driver # None
    BY <1>1 DEF IInv
  <1>3. PICK n \in 0 .. Len(inbox) : inbox' = SubSeq(inbox, 1, n)
    BY DEF BreakLink
  <1>4. PICK x : x = Here
    OBVIOUS
  <1>5. /\ CtxInv(x, inbox) /\ x.state = state /\ x.driver = driver /\ x.requests = requests
        /\ requests \in Seq(Outgoing) /\ inbox \in Seq(Incoming) /\ Here' = x
    BY <1>1, <1>2, <1>4, HereFacts DEF Here
  <1>6. PICK ib : ib = SubSeq(inbox, 1, n)
    OBVIOUS
  <1>7. /\ ib \in Seq(Incoming) /\ ToSet(ib) \subseteq ToSet(inbox)
        /\ \A name : (Has(ib, name) => Has(inbox, name)) /\ (One(inbox, name) => One(ib, name))
        /\ ib # << >> => inbox # << >> /\ ib[1] = inbox[1]
        /\ \A i \in DOMAIN ib : i \in DOMAIN inbox /\ ib[i] = inbox[i]
    BY <1>3, <1>5, <1>6, PrefixPackets
  <1>8. inbox' = ib /\ broker' = broker /\ received' = received /\ position' = position
    BY <1>1, <1>3, <1>6 DEF environment
  <1>9. PublishInv(x, inbox) /\ DeliveryInv(x, inbox) /\ ConnectInv(x, inbox)
    BY <1>5 DEF CtxInv
  <1>10. PublishInv(Here, inbox)'
    BY <1>5, <1>7, <1>8, <1>9 DEF PublishInv
  <1>11. DeliveryInv(Here, inbox)'
    BY <1>5, <1>7, <1>8, <1>9 DEF DeliveryInv
  <1>12. ConnectInv(Here, inbox)'
    BY <1>5, <1>7, <1>8, <1>9 DEF ConnectInv
  <1>13. BrokerInv' /\ SettledIsDurable'
    BY <1>1, <1>8 DEF IInv, BrokerInv, SettledIsDurable, Held
  <1> QED BY <1>1, <1>2, <1>5, <1>7, <1>8, <1>10, <1>11, <1>12, <1>13, SessionGoesOn

\* run_session connects.
LEMMA StartSessionKeeps ==
  ASSUME IInv, StartSession
  PROVE  IInv'
  <1>1. /\ process' = "up" /\ driver' = NewDriver(state) /\ requests' = << >>
        /\ link' = "up"
        /\ inbox' = <<ConnAck>> \o (IF broker.inflight = << >> THEN << >>
                                    ELSE <<Command(broker.inflight[1])>>)
        /\ state' = state /\ broker' = broker /\ received' = received
        /\ position' = position
    BY DEF StartSession, environment
  <1>2. AgentInv(state) /\ BrokerInv /\ SettledIsDurable
    BY DEF IInv
  <1>3. PICK d : d = NewDriver(state)
    OBVIOUS
  <1>4. /\ d \in Drivers /\ d.identity = state.credential_generation
        /\ ~d.connected /\ d.publish = "Idle" /\ d.held = << >>
    <2>1. PICK recovery \in [topic : Nat, command_id : CommandIds] \union {None} :
             recovery = IF state.pending_inbound = None THEN None
                        ELSE [topic |-> state.pending_inbound.topic,
                              command_id |-> state.pending_inbound.command_id]
      <3>1. state.pending_inbound \in PendingInbound \union {None}
        BY <1>2 DEF AgentInv, States
      <3> QED BY <3>1 DEF PendingInbound
    <2>2. state.credential_generation \in Nat
      BY <1>2 DEF AgentInv, States
    <2>3. PICK empty \in Seq(Tokens \union {None}) : empty = << >>
      BY EmptySeq
    <2>4. d = [identity |-> state.credential_generation, recovery |-> recovery,
               connected |-> FALSE, publish |-> "Idle", subscription |-> "Inactive",
               held |-> empty, observed |-> FALSE, reconnect |-> FALSE,
               shutdown |-> FALSE]
      BY <1>3, <2>1, <2>3 DEF NewDriver
    <2> QED BY <2>1, <2>2, <2>3, <2>4 DEF Drivers
  <1>5. PICK ib \in Seq(Incoming) :
          /\ ib = inbox' /\ ib # << >> /\ ib[1] = ConnAck
          /\ \A i \in DOMAIN ib : i = 1 \/ ib[i].packet = "command"
          /\ \A p \in ToSet(ib) : p = ConnAck \/ (p.packet = "command"
                                                  /\ broker.inflight = <<p.message>>)
          /\ One(ib, "command")
    <2>1. ConnAck \in Incoming /\ ConnAck.packet = "connack"
      BY IncomingTypes
    <2>2. PICK one : one = <<ConnAck>>
      OBVIOUS
    <2>3. /\ one \in Seq(Incoming) /\ DOMAIN one = {1} /\ one[1] = ConnAck /\ Len(one) = 1
          /\ ToSet(one) = {ConnAck} /\ (\A name : One(one, name))
          /\ \A name : Has(one, name) <=> ConnAck.packet = name
      <3>1. one \in Seq(Incoming) BY <2>1, <2>2, OneElement
      <3>2. DOMAIN one = {1} /\ one[1] = ConnAck /\ Len(one) = 1 BY <2>2
      <3> QED BY <2>2, <3>1, <3>2, ShortQueues
    <2>4. CASE broker.inflight = << >>
      <3>1. inbox' = one
        BY <1>1, <2>2, <2>3, <2>4, ConcatEmptySeq
      <3>2. one # << >> BY <2>2
      <3> QED BY <2>3, <3>1, <3>2
    <2>5. CASE broker.inflight # << >>
      <3>1. PICK m : m = broker.inflight[1]
        OBVIOUS
      <3>2. m \in Messages /\ broker.inflight = <<m>>
        <4>1. broker.inflight \in Seq(Messages) /\ Len(broker.inflight) <= 1
          BY <1>2 DEF BrokerInv
        <4> QED BY <2>5, <3>1, <4>1
      <3>3. PICK q \in Incoming : q = Command(m) /\ q.packet = "command" /\ q.message = m
        BY <3>2, IncomingTypes
      <3>4. PICK two : two = Append(one, q)
        OBVIOUS
      <3>5. inbox' = two
        <4>1. one \o <<q>> = Append(one, q) BY <2>3, <3>3
        <4> QED BY <1>1, <2>2, <2>5, <3>1, <3>3, <3>4, <4>1
      <3>6. /\ two \in Seq(Incoming) /\ two # << >> /\ ToSet(two) = ToSet(one) \union {q}
            /\ \A name : One(one, name) /\ (q.packet = name => ~Has(one, name))
                 => One(two, name)
            /\ one # << >> => two[1] = one[1]
            /\ \A i \in DOMAIN two : (i \in DOMAIN one /\ two[i] = one[i]) \/ two[i] = q
        BY <2>3, <3>3, <3>4, AppendPacket
      <3>7. one # << >> BY <2>2
      <3> QED BY <2>1, <2>3, <3>2, <3>3, <3>5, <3>6, <3>7
    <2> QED BY <2>4, <2>5
  <1>6. PICK n : n = Context(state, d, << >>)
    OBVIOUS
  <1>7. /\ Here' = n /\ n.state = state /\ n.driver = d /\ n.requests = << >>
        /\ n \in Contexts
    <2>1. << >> \in Seq(Outgoing) BY EmptySeq
    <2>2. state \in States BY <1>2 DEF AgentInv
    <2> QED BY <1>1, <1>3, <1>4, <1>6, <2>1, <2>2 DEF Here, Context, Contexts
  <1>8. ConnAck.packet = "connack" /\ ~Has(ib, "factack")
    BY <1>5, IncomingTypes DEF Has
  <1>9. PublishInv(Here, inbox)'
    <2>1. One(ib, "factack") BY <1>5, <1>8 DEF One, Has, ToSet
    <2> QED BY <1>5, <1>7, <1>8, <2>1, ShortQueues DEF PublishInv, Has
  <1>10. DeliveryInv(Here, inbox)'
    BY <1>1, <1>4, <1>5, <1>7, <1>8, ShortQueues DEF DeliveryInv
  <1>11. ConnectInv(Here, inbox)'
    BY <1>4, <1>5, <1>7, <1>8 DEF ConnectInv
  <1>12. AgentInv(state)'
    BY <1>1, <1>2 DEF AgentInv, AckTaken
  <1>13. CtxInv(Here, inbox)'
    BY <1>1, <1>5, <1>7, <1>9, <1>10, <1>11, <1>12 DEF CtxInv, AgentInv, AckTaken
  <1>14. BrokerInv' /\ SettledIsDurable'
    BY <1>1, <1>2 DEF BrokerInv, SettledIsDurable, Held
  <1>15. driver' # None
    BY <1>1, <1>3, <1>4, ScriptAssumption, Zenon
  <1> QED BY <1>1, <1>5, <1>12, <1>13, <1>14, <1>15 DEF IInv

\* The steps that end a session, or take place without one.
LEMMA OtherKeeps ==
  ASSUME IInv,
         \/ ShutdownDeadline \/ ConnectionError \/ StopRetrying \/ Crash
         \/ ShutdownSignal \/ Restart \/ UNCHANGED vars
  PROVE  IInv'
  <1>1. AgentInv(state)
    BY DEF IInv
  <1>2. CASE ShutdownDeadline
    BY <1>1, <1>2, NoSession DEF ShutdownDeadline, EndSession
  <1>3. CASE ConnectionError
    BY <1>1, <1>3, NoSession DEF ConnectionError, EndSession
  <1>4. CASE Crash
    BY <1>1, <1>4, NoSession DEF Crash, EndSession
  <1>5. ASSUME UNCHANGED <<state, device, environment>>, process' = process
        PROVE  IInv'
    <2>1. /\ state' = state /\ driver' = driver /\ requests' = requests /\ inbox' = inbox
          /\ link' = link /\ broker' = broker /\ received' = received
          /\ position' = position
      BY <1>5 DEF device, environment
    <2>2. Here' = Here BY <2>1 DEF Here
    <2> QED BY <1>5, <2>1, <2>2
        DEF IInv, CtxInv, PublishInv, DeliveryInv, ConnectInv, AgentInv, AckTaken,
            BrokerInv, SettledIsDurable, Held
  <1>6. CASE StopRetrying \/ Restart
    <2>1. driver = None /\ link = "none" /\ requests = << >> /\ inbox = << >>
      BY <1>6 DEF StopRetrying, Restart, IInv
    <2> QED BY <1>1, <1>6, <2>1, NoSession DEF StopRetrying, Restart, device
  <1>7. CASE ShutdownSignal
    BY <1>5, <1>7 DEF ShutdownSignal
  <1>8. CASE UNCHANGED vars
    BY <1>5, <1>8 DEF vars
  <1> QED BY <1>2, <1>3, <1>4, <1>6, <1>7, <1>8

-----------------------------------------------------------------------------
(* The invariant of the session. *)

\* The agent starts with the state it was provisioned with.
LEMMA InitIInv ==
  ASSUME Init
  PROVE  IInv
  <1> DEFINE s == Initial(InitialCredentialGeneration, InitialPosition)
  <1>1. InitialPosition \in Positions /\ InitialCredentialGeneration \in Nat
    BY ScriptAssumption, Zenon
  <1>2. /\ s.command_journal = {} /\ s.outbox = << >> /\ s.reconnect_revision = None
        /\ s.pending_inbound = None
    BY DEF Initial
  <1>3. s \in States
    BY <1>1 DEF Initial, States
  <1> HIDE DEF s
  <1>4. DOMAIN s.outbox = {} /\ Len(s.outbox) = 0 /\ Cardinality(s.command_journal) = 0
    BY <1>2, FS_EmptySet
  <1>5. verify(s)
    BY <1>2, <1>4, LimitsAssumption
    DEF verify, WithinLimits, OutboxEntriesValid, OutboxEntriesDistinct, JournalValid,
        PendingJournalled, AtMostOneReport, PendingIffReport, ActivationMatched,
        BlockedReportAwaits, ReadyReportConnected, ReconnectMatchesCurrent,
        rotation_in_flight
  <1>6. Consistent(s)
    BY <1>2, <1>4, FS_EmptySet
    DEF Consistent, JournalSound, ActivationsFirst, AckAgrees, NumbersUnique
  <1>7. AgentInv(s)
    BY <1>3, <1>4, <1>5, <1>6 DEF AgentInv, AckTaken
  <1>8. BrokerInv
    <2>1. PICK empty \in Seq(Messages) : empty = << >> /\ Len(empty) = 0
      BY EmptySeq
    <2> QED BY <2>1 DEF Init, BrokerInv
  <1>9. SettledIsDurable
    BY DEF Init, SettledIsDurable
  <1>10. Len(Script) \in Nat
    <2>1. PICK M : M = [topic : Nat, id : CommandIds, content : Commands \union Malformed]
      OBVIOUS
    <2>2. Script \in Seq(M) BY <2>1, ScriptAssumption, Zenon
    <2> QED BY <2>2
  <1>11. state = s BY DEF Init, s
  <1> QED BY <1>7, <1>8, <1>9, <1>10, <1>11 DEF Init, IInv

\* Each step keeps it.
LEMMA NextIInv ==
  ASSUME IInv, [Next]_vars
  PROVE  IInv'
  <1>1. CASE StartSession BY <1>1, StartSessionKeeps
  <1>2. CASE PollPacket BY <1>2, PollPacketKeeps
  <1>3. CASE PollSent \/ StartShutdown BY <1>3, PollSentKeeps
  <1>4. CASE Send BY <1>4, SendKeeps
  <1>5. CASE Deliver BY <1>5, DeliverKeeps
  <1>6. CASE ServerSends BY <1>6, ServerSendsKeeps
  <1>7. CASE BreakLink BY <1>7, BreakLinkKeeps
  <1>8. CASE \/ ShutdownDeadline \/ ConnectionError \/ StopRetrying \/ Crash
             \/ ShutdownSignal \/ Restart \/ UNCHANGED vars
    BY <1>8, OtherKeeps
  <1> QED BY <1>1, <1>2, <1>3, <1>4, <1>5, <1>6, <1>7, <1>8 DEF Next

\* One fact and one command are outstanding at a time, what is outstanding is
\* durable or still at the broker, a session begins with its CONNACK and keeps
\* the credential it began with: the invariant of run_session (main.rs) holds of
\* every behaviour of the session.
THEOREM SessionInvariant == Spec => []IInv
  <1>1. Init => IInv BY InitIInv
  <1>2. IInv /\ [Next]_vars => IInv' BY NextIInv
  <1> QED BY <1>1, <1>2, PTL DEF Spec

\* The driver and its transport keep to their types: a driver exists only while
\* the process is up and connected, one fact is outstanding at most, and the
\* broker has one command in flight at most (main.rs SessionState, mqtt.rs).
THEOREM SessionTyped == Spec => []TypeOK
  <1>1. ASSUME IInv PROVE TypeOK
    <2>1. driver \in Drivers \union {None}
      BY <1>1, HereFacts
    <2>2. Cardinality(Packets("publish")) <= 1
      <3>1. \A i, j \in Packets("publish") : i = j
        <4>1. CASE driver = None
          BY <1>1, <4>1, EmptySeq DEF IInv, Packets
        <4>2. CASE driver # None
          <5>1. One(requests, "publish")
            BY <1>1, <4>2, HereFacts DEF CtxInv, PublishInv
          <5> QED BY <5>1 DEF One, Packets
        <4> QED BY <4>1, <4>2
      <3>2. CASE Packets("publish") = {}
        BY <3>2, FS_EmptySet
      <3>3. CASE Packets("publish") # {}
        <4>1. PICK i \in Packets("publish") : TRUE BY <3>3
        <4>2. Packets("publish") = {i} BY <3>1, <4>1
        <4>3. Cardinality({i}) = 1 BY FS_Singleton
        <4> QED BY <4>2, <4>3
      <3> QED BY <3>2, <3>3
    <2>3. Len(broker.inflight) <= 1
      BY <1>1 DEF IInv, BrokerInv
    <2> QED BY <1>1, <2>1, <2>2, <2>3 DEF IInv, TypeOK
  <1> QED BY <1>1, SessionInvariant, PTL

\* A report is handed to the transport only by a connected session that
\* authenticated with the credential the report is about, and only after the
\* broker has taken the ACK (main.rs run_session, on_outbound_acknowledged).
THEOREM ReportedByNewCredential == Spec => []ReportByNewCredential
  <1>1. ASSUME IInv PROVE ReportByNewCredential
    <2> SUFFICES ASSUME driver # None, NEW i \in Packets("publish"),
                        requests[i].event.kind = "report"
                 PROVE  /\ driver.connected
                        /\ driver.identity = state.credential_generation
                        /\ AckEvent(requests[i].event.cause) \in received
      BY DEF ReportByNewCredential
    <2>1. PICK x : x = Here
      OBVIOUS
    <2>2. /\ CtxInv(x, inbox) /\ x.state = state /\ x.driver = driver
          /\ x.requests = requests
      BY <1>1, <2>1, HereFacts
    <2>3. i \in DOMAIN requests /\ requests[i].packet = "publish"
      BY DEF Packets
    <2>4. PICK p : p = requests[i] /\ p \in ToSet(requests)
      BY <2>3 DEF ToSet
    <2>5. PICK k \in DOMAIN state.outbox :
             state.outbox[k].event = p.event /\ state.outbox[k].kind = "ReportReady"
      BY <2>2, <2>3, <2>4 DEF CtxInv, PublishInv, Queued
    <2>6. state \in States /\ verify(state) /\ AckTaken(state)
      BY <1>1 DEF IInv, AgentInv
    <2>7. p.event = ReportEvent(state.outbox[k].command_id)
      BY <2>5, <2>6 DEF verify, OutboxEntriesValid, EntrySemanticValid, IsAck
    <2>8. AckEvent(p.event.cause) \in received
      <3>1. p.event.cause = state.outbox[k].command_id BY <2>7 DEF ReportEvent
      <3> QED BY <2>5, <2>6, <3>1 DEF AckTaken, IsReport
    <2>9. driver.connected
      <3>1. requests # << >> BY <2>3, EmptySeq
      <3> QED BY <2>2, <3>1 DEF CtxInv, ConnectInv
    <2>10. driver.identity = state.credential_generation
      <3>1. ~Blocked(state)
        BY <2>5, <2>6 DEF Blocked, verify, AtMostOneReport, IsReport
      <3> QED BY <2>2, <3>1 DEF CtxInv, ConnectInv
    <2> QED BY <2>4, <2>8, <2>9, <2>10
  <1> QED BY <1>1, SessionInvariant, PTL

\* Whatever breaks or is lost, the broker lets go of a command only when the
\* journal holds it (main.rs on_command queues the PUBACK after the persist).
THEOREM AcknowledgedIsDurable == Spec => []SettledIsDurable
  <1>1. IInv => SettledIsDurable BY DEF IInv
  <1> QED BY <1>1, SessionInvariant, PTL

=============================================================================
