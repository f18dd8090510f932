---------------------------- MODULE AgentSession -----------------------------
(***************************************************************************)
(* The agent process and its MQTT broker: main.rs runs one SessionDriver   *)
(* after another over a connection that may break; the process may die, be *)
(* told to shut down and be started again; the broker keeps one persistent *)
(* session for the device.                                                 *)
(*                                                                         *)
(* The broker, the network and the command server are external and are     *)
(* modelled from how mqtt.rs uses them: clean_start = false, QoS 1,        *)
(* receive maximum 1, manual PUBACK.  The broker answers a packet as it    *)
(* takes it, redelivers an unacknowledged command right after CONNACK, and *)
(* keeps what it has queued across an UNSUBSCRIBE.  A packet the device    *)
(* has sent is handled by the broker at once or is lost with the           *)
(* connection.  The server sends the messages of Script in order and       *)
(* awaits the report of a rotation before it goes on.                      *)
(***************************************************************************)
EXTENDS SessionDriver

CONSTANTS
  Script,           \* messages the server sends, in order
  InitialPosition,
  InitialCredentialGeneration,
  MaxFaults         \* bound of the model: link failures, crashes and signals

ASSUME ScriptAssumption ==
  /\ Script \in Seq([topic : Nat, id : CommandIds, content : Commands \union Malformed])
  /\ \A i \in DOMAIN Script : Script[i].content \in Commands =>
        CommandData[Script[i].content].id = Script[i].id
  /\ InitialPosition \in Positions
  /\ InitialCredentialGeneration \in Nat
  /\ MaxFaults \in Nat
  /\ None \notin Drivers
  /\ None \notin [topic : Nat, command_id : CommandIds]

VARIABLES
  state,     \* the agent's durable state
  process,   \* "up", "retrying" (waiting to reconnect), "down", "failed"
  driver,    \* the SessionDriver of the running session, or None
  requests,  \* packets queued by the client and not yet sent
  sent,      \* the outgoing-PUBACK event the driver polls next, if any
  link,      \* "none", "up" or "broken"
  inbox,     \* packets of the broker the driver has yet to poll
  broker,    \* the persistent session: subscriptions, queue, inflight
  received,  \* events of the facts the broker has taken
  position,  \* messages of Script sent so far
  cancelled, \* the shutdown signal has been given
  faults     \* failures so far

device == <<driver, requests, sent, link, inbox>>
environment == <<broker, received, position>>
vars == <<state, process, device, environment, cancelled, faults>>

ConnAck == [packet |-> "connack"]
SubAck == [packet |-> "suback"]
UnsubAck == [packet |-> "unsuback"]
Command(m) == [packet |-> "command", message |-> m]
FactAck(event) == [packet |-> "factack", event |-> event]

Init ==
  /\ state = Initial(InitialCredentialGeneration, InitialPosition)
  /\ process = "up"
  /\ driver = None
  /\ requests = << >> /\ sent = << >> /\ inbox = << >>
  /\ link = "none"
  /\ broker = [subscriptions |-> {}, queue |-> << >>, inflight |-> << >>]
  /\ received = {}
  /\ position = 0
  /\ cancelled = FALSE
  /\ faults = 0

-----------------------------------------------------------------------------
(* Sessions. *)

\* The session is over: whatever was not sent or polled is gone.
EndSession ==
  /\ driver' = None
  /\ requests' = << >> /\ sent' = << >> /\ inbox' = << >>
  /\ link' = "none"

\* run_session; the broker takes the CONNECT and resumes the session.
StartSession ==
  /\ process \in {"up", "retrying"} /\ driver = None
  /\ process' = "up"
  /\ driver' = NewDriver(state)
  /\ requests' = << >> /\ sent' = << >>
  /\ link' = "up"
  /\ inbox' = <<ConnAck>> \o
       (IF broker.inflight = << >> THEN << >> ELSE <<Command(broker.inflight[1])>>)
  /\ UNCHANGED <<state, environment, cancelled, faults>>

\* The driver has handled an event and come to the top of its loop with y.
Handled(y, inboxLeft, sentLeft) ==
  /\ state' = y.state
  /\ IF y.control = "Continue"
     THEN /\ driver' = y.driver /\ requests' = y.requests
          /\ inbox' = inboxLeft /\ sent' = sentLeft
          /\ UNCHANGED <<link, process, cancelled>>
     ELSE /\ EndSession
          /\ process' = CASE y.control = "Reconnect" -> "up"
                          [] y.control = "Shutdown" -> "down"
                          [] y.control = "Fatal" -> "failed"
          /\ cancelled' = (cancelled /\ y.control = "Reconnect")
  /\ UNCHANGED <<environment, faults>>

\* handle_event for a packet of the broker.
HandlePacket(x, p) ==
  CASE p.packet = "connack" -> on_connected(x)
    [] p.packet = "suback" -> on_subscribed(x)
    [] p.packet = "unsuback" -> on_unsubscribed(x)
    [] p.packet = "command" -> on_command(x, p.message)
    [] p.packet = "factack" -> on_outbound_acknowledged(x, p.event)

Here == Context(state, driver, requests)

PollPacket ==
  /\ driver # None /\ inbox # << >> /\ sent = << >>
  /\ \E y \in {LoopTop(HandlePacket(Here, inbox[1]))} :
        Handled(y, Tail(inbox), sent)

\* handle_event for the client's own outgoing PUBACK.
PollSent ==
  /\ driver # None /\ sent # << >>
  /\ \E y \in {LoopTop(on_inbound_acknowledged(Here, sent[1]))} :
        Handled(y, inbox, Tail(sent))

StartShutdown ==
  /\ driver # None /\ cancelled /\ ~driver.shutdown
  /\ \E y \in {LoopTop(start_shutdown(Here))} : Handled(y, inbox, sent)

\* SHUTDOWN_DRAIN_TIMEOUT passes.
ShutdownDeadline ==
  /\ driver # None /\ driver.shutdown
  /\ EndSession
  /\ process' = "down"
  /\ cancelled' = FALSE
  /\ UNCHANGED <<state, environment, faults>>

-----------------------------------------------------------------------------
(* The client's event loop writes the next request; the broker takes it    *)
(* unless the connection is broken.  The loop reads and writes only when   *)
(* it has no event left to hand out, so the outgoing PUBACK is polled next.*)

BrokerTakes(p) ==
  CASE p.packet = "subscribe" ->
         /\ broker' = [broker EXCEPT !.subscriptions = @ \union {p.topic}]
         /\ inbox' = Append(inbox, SubAck)
         /\ UNCHANGED received
    [] p.packet = "unsubscribe" ->
         /\ broker' = [broker EXCEPT !.subscriptions = @ \ {p.topic}]
         /\ inbox' = Append(inbox, UnsubAck)
         /\ UNCHANGED received
    [] p.packet = "publish" ->
         /\ received' = received \union {p.event}
         /\ inbox' = Append(inbox, FactAck(p.event))
         /\ UNCHANGED broker
    [] p.packet = "puback" ->
         /\ broker' = [broker EXCEPT !.inflight = << >>]
         /\ UNCHANGED <<inbox, received>>

Send ==
  /\ driver # None /\ driver.connected /\ requests # << >> /\ sent = << >>
  /\ requests' = Tail(requests)
  /\ sent' = IF requests[1].packet = "puback"
             THEN Append(sent, requests[1].token) ELSE sent
  /\ IF link = "up" THEN BrokerTakes(requests[1])
     ELSE UNCHANGED <<broker, inbox, received>>
  /\ UNCHANGED <<state, process, driver, link, position, cancelled, faults>>

-----------------------------------------------------------------------------
(* The broker and the server. *)

Deliver ==
  /\ link = "up" /\ broker.inflight = << >> /\ broker.queue # << >>
  /\ broker' = [broker EXCEPT !.inflight = <<broker.queue[1]>>, !.queue = Tail(@)]
  /\ inbox' = Append(inbox, Command(broker.queue[1]))
  /\ UNCHANGED <<state, process, driver, requests, sent, link, received, position,
                 cancelled, faults>>

\* The server awaits the report of a rotation; it may send other messages, and
\* the rotation after them, before their ACKs.
Answered(m) == m.content \in Commands => ReportEvent(m.id) \in received

\* A message for a topic without subscription would be dropped.
ServerSends ==
  /\ position < Len(Script)
  /\ \A i \in 1 .. position : Answered(Script[i])
  /\ Script[position + 1].topic \in broker.subscriptions
  /\ position' = position + 1
  /\ broker' = [broker EXCEPT !.queue = Append(@, Script[position + 1])]
  /\ UNCHANGED <<state, process, device, received, cancelled, faults>>

-----------------------------------------------------------------------------
(* Failures. *)

\* The connection breaks; packets on their way are lost from some point on.
BreakLink ==
  /\ link = "up" /\ faults < MaxFaults
  /\ link' = "broken"
  /\ \E n \in 0 .. Len(inbox) : inbox' = SubSeq(inbox, 1, n)
  /\ faults' = faults + 1
  /\ UNCHANGED <<state, process, driver, requests, sent, environment, cancelled>>

\* poll returns a retryable error; main retries, or stops if it is shut down.
ConnectionError ==
  /\ driver # None /\ link = "broken"
  /\ EndSession
  /\ process' = IF cancelled THEN "down" ELSE "retrying"
  /\ cancelled' = FALSE
  /\ UNCHANGED <<state, environment, faults>>

\* The shutdown signal ends the wait for the next attempt.
StopRetrying ==
  /\ process = "retrying" /\ cancelled
  /\ process' = "down"
  /\ cancelled' = FALSE
  /\ UNCHANGED <<state, device, environment, faults>>

Crash ==
  /\ process \in {"up", "retrying"} /\ faults < MaxFaults
  /\ EndSession
  /\ process' = "down"
  /\ cancelled' = FALSE
  /\ faults' = faults + 1
  /\ UNCHANGED <<state, environment>>

ShutdownSignal ==
  /\ process \in {"up", "retrying"} /\ ~cancelled /\ faults < MaxFaults
  /\ cancelled' = TRUE
  /\ faults' = faults + 1
  /\ UNCHANGED <<state, process, device, environment>>

\* The supervisor starts the process again; DeviceAgent shows open succeeds.
Restart ==
  /\ process = "down"
  /\ process' = "up"
  /\ UNCHANGED <<state, device, environment, cancelled, faults>>

Next ==
  \/ StartSession \/ PollPacket \/ PollSent \/ StartShutdown \/ ShutdownDeadline
  \/ Send \/ Deliver \/ ServerSends
  \/ BreakLink \/ ConnectionError \/ StopRetrying \/ Crash \/ ShutdownSignal \/ Restart

\* The event loop keeps polling and writing, the broker keeps delivering, a
\* stopped process is started again; nothing forces a failure or the server.
\* The three polls are weakly fair too, with ENABLED written out as the guard:
\* whenever it holds, LoopTop has a value for them.
Fairness ==
  /\ WF_vars(StartSession) /\ WF_vars(ShutdownDeadline) /\ WF_vars(Send)
  /\ WF_vars(Deliver) /\ WF_vars(ConnectionError) /\ WF_vars(Restart)
  /\ []<>~(driver # None /\ inbox # << >> /\ sent = << >>)
       \/ []<><<PollPacket>>_vars
  /\ []<>~(driver # None /\ sent # << >>)
       \/ []<><<PollSent>>_vars
  /\ []<>~(driver # None /\ cancelled /\ ~driver.shutdown)
       \/ []<><<StartShutdown>>_vars

Spec == Init /\ [][Next]_vars
FairSpec == Spec /\ Fairness

-----------------------------------------------------------------------------
(* Properties. *)

Packets(name) == {i \in DOMAIN requests : requests[i].packet = name}

\* The session has a state machine of its own: the driver exists only while
\* the process is up, has one fact outstanding at most, and the broker at most
\* one command in flight.
TypeOK ==
  /\ process \in {"up", "retrying", "down", "failed"}
  /\ link \in {"none", "up", "broken"}
  /\ driver # None <=> link # "none"
  /\ driver # None => process = "up"
  /\ driver \in Drivers \union {None}
  /\ Cardinality(Packets("publish")) <= 1
  /\ Len(broker.inflight) <= 1

\* Errors that stop the process (main.rs main, handle_event; mqtt.rs
\* command_delivery): with a server that awaits the report of a rotation before
\* the next message, no order of PUBACK, SUBACK, UNSUBACK, redelivery, loss,
\* crash and shutdown leads to one, except for a command of the session's own
\* topic.  It is a new one and meets the rotation before it (RotationInFlight), or
\* it finds the intake closed: backpressure gives the subscription up, but what
\* the broker has queued by then still arrives (on_command,
\* should_hold_command_ack).  Any answer fails where the sequence counter has no
\* two numbers left.
FatalOnlyAtIntake ==
  process = "failed" =>
     /\ broker.inflight # << >>
     /\ \/ state.device_sequence + 2 > SequenceMax
        \/ /\ broker.inflight[1].topic = state.credential_generation
           /\ \/ ~command_intake_open(state, ClockNow)
              \/ /\ rotation_in_flight(state)
                 /\ \A c \in state.command_journal :
                       c.command_id # broker.inflight[1].id

\* A report is handed to the transport only by a session that authenticated
\* with the credential the report is about, after the broker has taken the ACK
\* (main.rs run_session, on_outbound_acknowledged; state.rs next_outbound).
ReportByNewCredential ==
  driver # None =>
     \A i \in Packets("publish") : requests[i].event.kind = "report" =>
        /\ driver.connected
        /\ driver.identity = state.credential_generation
        /\ AckEvent(requests[i].event.cause) \in received

\* A command leaves the broker only once its disposition is durable: what the
\* broker no longer holds is in the journal (main.rs on_command queues the
\* PUBACK after the agent's persist).
Held == {broker.queue[i] : i \in DOMAIN broker.queue}
          \union {broker.inflight[i] : i \in DOMAIN broker.inflight}
SettledIsDurable ==
  \A i \in 1 .. position : Script[i] \notin Held =>
     \E c \in state.command_journal : c.command_id = Script[i].id

\* When the report is confirmed, nothing of the old topic is left behind: the
\* broker holds no delivery for it and no subscription to it, so no later
\* session meets a command that it would have to refuse (main.rs on_connected,
\* on_unsubscribed, on_inbound_acknowledged).
NothingLeftBehind ==
  ~rotation_in_flight(state) =>
     /\ \A m \in Held : m.topic = state.credential_generation
     /\ broker.subscriptions \subseteq {state.credential_generation}

\* A rotation in flight is reported in the end, whatever failed on the way.
RotationReported == rotation_in_flight(state) ~> ~rotation_in_flight(state)

\* Every command the broker took for the device is answered by an ACK.
CommandsAnswered ==
  \A i \in DOMAIN Script :
     position >= i ~> AckEvent(Script[i].id) \in received

\* In the end the device listens on the topic of its current credential.
ListensAgain == <>[](state.credential_generation \in broker.subscriptions)

-----------------------------------------------------------------------------
\* "credential rotation is in flight; command intake is backpressured"
\* (agent.rs:62), "remain blocked; report PUBACK then subscribes in its arm"
\* (main.rs:512): a rotation holds the next command back at the broker, so that
\* the command cannot stop the process.
NeverFatal == process # "failed"

\* "it never restores the old revision or reopens the old subscription"
\* (docs/secure-device-credential-rotation.md:83): while a rotation is in
\* flight, no subscription to the old topic is requested.
OldSubscriptionNeverReopened ==
  [][rotation_in_flight(state) =>
       \A i \in DOMAIN requests' :
          requests'[i].packet = "subscribe"
            /\ requests'[i].topic # state.credential_generation
          => requests'[i] \in {requests[j] : j \in DOMAIN requests}]_vars

=============================================================================
