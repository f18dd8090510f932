---------------------------- MODULE SessionDriver ----------------------------
(***************************************************************************)
(* The session driver of apps/reference-device-agent/src/main.rs and the   *)
(* MQTT client it drives (mqtt.rs), as functions from the context of one   *)
(* session to the context after one event.  A context holds the agent's    *)
(* state, the driver's SessionState, the requests queued to the transport  *)
(* and the control decision: "Continue", "Reconnect", "Shutdown", or       *)
(* "Fatal" for an error main does not retry.                               *)
(*                                                                         *)
(* The clock stands still (ClockNow): expiry is DeviceAgent's subject.  A  *)
(* broker assertion always verifies.                                       *)
(***************************************************************************)
EXTENDS AgentHandlers

ClockNow == 0

\* Errors of the agent that the driver passes on with the ? operator.
AgentErrors ==
  {"InvalidState", "OutboxFull", "CommandJournalFull", "RotationInFlight",
   "UnexpectedDelivery", "UnknownOutbound", "UnexpectedReconnect"}

\* Packets the client queues.
Subscribe(topic) == [packet |-> "subscribe", topic |-> topic]
Unsubscribe(topic) == [packet |-> "unsubscribe", topic |-> topic]
PublishFact(event) == [packet |-> "publish", event |-> event]
PubAck(token) == [packet |-> "puback", token |-> token]

\* A mutation of NewDriver: the durable pending delivery is not consulted.
NewDriverWithoutRecovery(s) ==
  [identity |-> s.credential_generation, recovery |-> None, connected |-> FALSE,
   publish |-> "Idle", subscription |-> "Inactive", held |-> << >>,
   observed |-> FALSE, reconnect |-> FALSE, shutdown |-> FALSE]

\* SessionDriver::new: the identity and the recovery scope are read once.
NewDriver(s) ==
  [identity |-> s.credential_generation,
   recovery |-> IF s.pending_inbound = None THEN None
                ELSE [topic |-> s.pending_inbound.topic,
                      command_id |-> s.pending_inbound.command_id],
   connected |-> FALSE,
   publish |-> "Idle",
   subscription |-> "Inactive",
   held |-> << >>,
   observed |-> FALSE,
   reconnect |-> FALSE,
   shutdown |-> FALSE]

\* SessionState, with the identity and the recovery scope of the session.
Tokens == Nat \X CommandIds \X Fingerprints

Drivers ==
  [identity : Nat,
   recovery : [topic : Nat, command_id : CommandIds] \union {None},
   connected : BOOLEAN,
   publish : {"Idle", "Pending"},
   subscription : {"Inactive", "Active", "Unsubscribing"},
   held : Seq(Tokens \union {None}),
   observed : BOOLEAN, reconnect : BOOLEAN, shutdown : BOOLEAN]

Context(s, d, requests) ==
  [state |-> s, driver |-> d, requests |-> requests, control |-> "Continue"]

\* A step of the agent inside a handler: its error ends the process.
WithEffect(x, effect) ==
  [x EXCEPT !.state = effect.state,
            !.control = IF effect.result \in AgentErrors THEN "Fatal" ELSE @]

Queue(x, packet) == [x EXCEPT !.requests = Append(@, packet)]
Fatal(x) == [x EXCEPT !.control = "Fatal"]
Reconnect(x) == [x EXCEPT !.control = "Reconnect"]

-----------------------------------------------------------------------------
(* SessionState. *)

unsubscribe_pending(d) == d.subscription = "Unsubscribing"
can_publish(d) ==
  d.connected /\ d.publish = "Idle" /\ ~d.reconnect /\ ~unsubscribe_pending(d)
can_unsubscribe(d) == d.connected /\ d.subscription = "Active"
can_subscribe(d) == d.subscription = "Inactive" /\ ~d.shutdown
transport_is_quiescent(d) ==
  /\ d.shutdown /\ d.connected /\ d.publish = "Idle"
  /\ d.held = << >> /\ ~unsubscribe_pending(d)
shutdown_is_quiescent(s, d) == transport_is_quiescent(d) /\ next_outbound(s) = 0

\* unsubscribe_command or unsubscribe_recovery, and the state that follows it.
StartUnsubscribe(x, topic) ==
  [Queue(x, Unsubscribe(topic)) EXCEPT !.driver.subscription = "Unsubscribing"]

\* subscribe: the state changes only when the SUBACK arrives.
SubscribeIfOpen(x) ==
  IF command_intake_open(x.state, ClockNow)
  THEN Queue(x, Subscribe(x.driver.identity)) ELSE x

-----------------------------------------------------------------------------
(* The events. *)

\* A mutation of on_connected: the old topic is not unsubscribed.
ConnectedWithoutRecovery(x) ==
  LET y == [x EXCEPT !.driver.connected = TRUE, !.driver.subscription = "Inactive"]
      z == IF y.state.reconnect_revision = None THEN y
           ELSE WithEffect(y, mark_current_credential_connected(y.state,
                                 y.state.reconnect_revision))
  IN IF ~z.driver.shutdown /\ ~rotation_in_flight(z.state)
     THEN SubscribeIfOpen(z) ELSE z

on_connected(x) ==
  LET y == [x EXCEPT !.driver.connected = TRUE, !.driver.subscription = "Inactive"]
      z == IF y.state.reconnect_revision = None THEN y
           ELSE WithEffect(y, mark_current_credential_connected(y.state,
                                 y.state.reconnect_revision))
  IN IF z.control = "Fatal" THEN z
     ELSE IF z.driver.recovery # None
     THEN StartUnsubscribe(z, z.driver.recovery.topic)
     ELSE IF ~z.driver.shutdown /\ ~rotation_in_flight(z.state)
     THEN SubscribeIfOpen(z) ELSE z

on_subscribed(x) == [x EXCEPT !.driver.subscription = "Active"]

\* command_delivery: the topic of the session, or the exact recovery scope.
InScope(d, m) ==
  \/ m.topic = d.identity
  \/ d.recovery = [topic |-> m.topic, command_id |-> m.id]

\* A mutation of Disposition: a malformed delivery leaves no durable trace.
DispositionForgetsMalformed(s, m) ==
  IF m.content \notin Commands THEN [state |-> s, result |-> "Rejected"]
  ELSE IF /\ Commits(s, m.topic, m.content, "Resolved", ClockNow)
          /\ CommitReserves(s, ClockNow)
  THEN Commit(s, m.content, ClockNow)
  ELSE ApplyWithoutCommit(s, m.topic, m.content, "Resolved", ClockNow)

\* The agent's answer to a delivery; the catalog resolves every command.
Disposition(s, m) ==
  IF m.content \notin Commands
  THEN reject_malformed_delivery(s, m.topic, m.id, m.content, ClockNow)
  ELSE IF /\ Commits(s, m.topic, m.content, "Resolved", ClockNow)
          /\ CommitReserves(s, ClockNow)
  THEN Commit(s, m.content, ClockNow)
  ELSE ApplyWithoutCommit(s, m.topic, m.content, "Resolved", ClockNow)

should_hold_command_ack(accepted, open, shuttingDown) ==
  accepted \/ ~open \/ shuttingDown

on_command(x, m) ==
  LET effect == Disposition(x.state, m)
      y == WithEffect([x EXCEPT !.driver.observed =
             @ \/ (x.driver.recovery # None /\ x.driver.recovery.topic = m.topic)],
             effect)
      token == pending_delivery_settlement_token(y.state, m.topic, m.id)
  IN IF ~InScope(x.driver, m) THEN Fatal(x)
     ELSE IF y.control = "Fatal" THEN y
     ELSE IF should_hold_command_ack(effect.result = "Accepted",
                command_intake_open(y.state, ClockNow), y.driver.shutdown)
     THEN [StartUnsubscribe(y, y.driver.identity) EXCEPT !.driver.held = <<token>>]
     ELSE Queue(y, PubAck(token))

\* Mutations of on_outbound_acknowledged: the session goes on with the old
\* credential; the publish slot is not freed; the intake is not reopened.
AckedWithoutReconnect(x, event) ==
  LET y == WithEffect([x EXCEPT !.driver.publish = "Idle"],
                      ConfirmOutbound(x.state, event))
  IN IF y.state.reconnect_revision # None
     THEN WithEffect(y, mark_current_credential_connected(y.state,
                           y.state.reconnect_revision))
     ELSE y

AckedStaysPending(x, event) ==
  LET y == WithEffect(x, ConfirmOutbound(x.state, event))
  IN IF y.state.reconnect_revision # None THEN Reconnect(y)
     ELSE IF can_subscribe(y.driver) THEN SubscribeIfOpen(y) ELSE y

AckedWithoutSubscribe(x, event) ==
  LET y == WithEffect([x EXCEPT !.driver.publish = "Idle"],
                      ConfirmOutbound(x.state, event))
      z == [y EXCEPT !.driver.reconnect = TRUE]
  IN IF y.state.reconnect_revision = None THEN y
     ELSE IF ~unsubscribe_pending(y.driver) /\ pending_inbound_settled(y.state)
     THEN Reconnect(y)
     ELSE IF can_unsubscribe(z.driver)
     THEN StartUnsubscribe(z, z.driver.identity) ELSE z

on_outbound_acknowledged(x, event) ==
  LET y == WithEffect([x EXCEPT !.driver.publish = "Idle"],
                      ConfirmOutbound(x.state, event))
      z == [y EXCEPT !.driver.reconnect = TRUE]
  IN IF x.driver.publish # "Pending" THEN Fatal(x)
     ELSE IF y.control = "Fatal" THEN y
     ELSE IF y.state.reconnect_revision # None
     THEN IF ~unsubscribe_pending(y.driver) /\ pending_inbound_settled(y.state)
          THEN Reconnect(y)
          ELSE IF can_unsubscribe(z.driver)
          THEN StartUnsubscribe(z, z.driver.identity) ELSE z
     ELSE IF can_subscribe(y.driver) THEN SubscribeIfOpen(y) ELSE y

unsubscribe_completion(reconnectReady, flushed, inFlight) ==
  IF reconnectReady /\ flushed THEN "Exit"
  ELSE IF ~inFlight THEN "Subscribe" ELSE "Wait"

on_unsubscribed(x) ==
  LET y == [x EXCEPT !.driver.subscription = "Inactive"]
      absent == /\ y.driver.recovery # None /\ ~y.driver.observed
                /\ ~pending_inbound_settled(y.state)
      z == IF absent
           THEN WithEffect(y, persist_inbound_settlement(y.state, None)) ELSE y
      completion == unsubscribe_completion(z.driver.reconnect,
                       pending_inbound_settled(z.state),
                       rotation_in_flight(z.state))
  IN IF y.driver.held # << >>
     THEN [Queue(y, PubAck(y.driver.held[1])) EXCEPT !.driver.held = << >>]
     ELSE IF z.control = "Fatal" THEN z
     ELSE IF completion = "Exit" THEN Reconnect(z)
     ELSE IF completion = "Subscribe" /\ can_subscribe(z.driver)
     THEN SubscribeIfOpen(z) ELSE z

\* A mutation of on_inbound_acknowledged: it leaves the exit to other events.
SentWithoutReconnect(x, token) ==
  IF token = None THEN x
  ELSE WithEffect(x, persist_inbound_settlement(x.state, token))

\* The PUBACK of a delivery has been written to the socket.
on_inbound_acknowledged(x, token) ==
  LET y == WithEffect(x, persist_inbound_settlement(x.state, token))
  IN IF token = None THEN x
     ELSE IF y.control = "Fatal" THEN y
     ELSE IF y.driver.reconnect /\ ~unsubscribe_pending(y.driver)
     THEN Reconnect(y) ELSE y

start_shutdown(x) ==
  LET y == [x EXCEPT !.driver.shutdown = TRUE]
  IN IF can_unsubscribe(y.driver) THEN StartUnsubscribe(y, y.driver.identity) ELSE y

-----------------------------------------------------------------------------
(* The top of the loop of run, which every event reaches again. *)

\* A mutation of publish_next: the outstanding fact is not remembered.
PublishWithoutPending(x) ==
  LET i == next_outbound(x.state)
  IN IF can_publish(x.driver) /\ i # 0
     THEN Queue(x, PublishFact(x.state.outbox[i].event)) ELSE x

publish_next(x) ==
  LET i == next_outbound(x.state)
  IN IF can_publish(x.driver) /\ i # 0
     THEN [Queue(x, PublishFact(x.state.outbox[i].event))
             EXCEPT !.driver.publish = "Pending"]
     ELSE x

LoopTop(x) ==
  LET y == publish_next(x)
  IN IF x.control # "Continue" THEN x
     ELSE IF shutdown_is_quiescent(y.state, y.driver)
     THEN [y EXCEPT !.control = "Shutdown"] ELSE y

=============================================================================
