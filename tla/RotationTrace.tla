---------------------------- MODULE RotationTrace ----------------------------
(***************************************************************************)
(* Secure device rotation end to end, as its external observer sees it     *)
(* (journeys/secure-device-rotation/src/lib.rs): the agent's facts go      *)
(* through the wire adapter, a broker that duplicates and reorders, and    *)
(* the mappings of the device security client; the observer checks a trace *)
(* it puts together from any copies it has seen.                           *)
(*                                                                         *)
(* The RSS service is external: it is modelled by the contract the journey *)
(* and the mappings use.  The agent is the one of AgentHandlers, without   *)
(* time and without undecodable commands; observed_at is always 0.         *)
(***************************************************************************)
EXTENDS AgentHandlers, WireAdapter

CONSTANTS
  Device,
  Receipts,         \* the authorization receipt of each generation
  Revoked,          \* commands whose artifact the catalog marks revoked
  InitialPosition, InitialCredentialGeneration,
  MaxGeneration, MaxFence, MaxStatuses   \* bounds of the model

\* Receipts and the ids of decodable commands are references the product accepts:
\* decode_command builds a CommandRef of the id (wire.rs), where a delivery alone
\* asks for a CommandId, which may be blank.  The device counts its facts in the
\* u64 of the contract.
ASSUME TraceAssumption ==
  /\ CommandIds \subseteq Texts \ (BlankTexts \union ControlTexts)
  /\ Revoked \subseteq Commands
  /\ MaxGeneration \in Nat /\ MaxFence \in Nat /\ MaxStatuses \in Nat
  /\ Receipts \in [1 .. MaxGeneration -> Texts \ (BlankTexts \union ControlTexts)]
  /\ InitialPosition \in
       [generation : 1 .. MaxGeneration, fence : Nat \ {0}, revision : Nat,
        digest : Digests]
  /\ InitialCredentialGeneration \in Nat
  /\ SequenceMax = U64Max
  /\ None \notin {"queued", "published", "received"}
  /\ None \notin [fence : Nat, state : {"queued", "published", "received"}]

VARIABLES
  state,     \* the agent's durable state
  service,   \* what the service knows of the device
  downlink,  \* commands in the broker
  uplink,    \* events in the broker
  accepted,  \* policy requests the service accepted, as the client maps them
  receipts,  \* application receipts, as the client maps them
  statuses   \* status replies, as the client decodes them

vars == <<state, service, downlink, uplink, accepted, receipts, statuses>>

\* One context for everything the observer maps.
context == [coordinates |-> "rotation", device |-> Device]

-----------------------------------------------------------------------------
(* The facts of the agent. *)

\* An ACK echoes the command it answers: a conflicting one by its own
\* fingerprint, any other by the journal.
CommandOf(s, e) ==
  IF e.event.kind = "rejected" THEN e.event.cause[2]
  ELSE (CHOOSE j \in s.command_journal : j.command_id = e.command_id).fingerprint

AckFact(s, e) ==
  [command_id |-> e.command_id, generation |-> CommandData[CommandOf(s, e)].generation,
   fence |-> CommandData[CommandOf(s, e)].fence, sequence |-> e.sequence,
   observed_at |-> 0, received |-> e.rejection = None, rejection |-> e.rejection]

ReportFact(e) ==
  [generation |-> e.position.generation, fence |-> e.position.fence,
   digest |-> e.position.digest, sequence |-> e.sequence, observed_at |-> 0]

encode_outbound(s, e) ==
  IF IsAck(e) THEN encode_ack(Device, AckFact(s, e))
  ELSE encode_report(Device, ReportFact(e))

Message(e, payload) ==
  [kind |-> IF IsAck(e) THEN "ack" ELSE "report", event |-> e.event,
   payload |-> payload]

-----------------------------------------------------------------------------
(* The journey. *)

has_ready_true(status) ==
  \E c \in status.conditions : c.type = "Ready" /\ c.status = "True"

has_matching_ready(status) ==
  \E c \in status.conditions :
     /\ c.type = "Ready" /\ c.status = "True" /\ c.reason = "StateMatches"
     /\ c.observed_generation = status.observed_generation

\* Mutant: the generation of the ACK is not compared.
CorrelatedAnyAck(a, ack, after, report, receipt) ==
  /\ {ack.coordinates, report.coordinates, receipt.coordinates} = {a.coordinates}
  /\ report.generation = a.generation
  /\ report.fence = ack.fence /\ report.sequence > ack.sequence
  /\ after.desired_generation = a.generation
  /\ after.active_command.state = "received"
  /\ after.active_command.fence = ack.fence
  /\ after.receipt = a.receipt

\* The checks of verify_positive_trace that relate ACK, report and the status
\* between them to the accepted request.
Correlated(a, ack, after, report, receipt) ==
  /\ {ack.coordinates, report.coordinates, receipt.coordinates} = {a.coordinates}
  /\ ack.generation = a.generation /\ report.generation = a.generation
  /\ report.fence = ack.fence /\ report.sequence > ack.sequence
  /\ after.desired_generation = a.generation
  /\ after.active_command.state = "received"
  /\ after.active_command.fence = ack.fence
  /\ after.receipt = a.receipt

Settled(a, receipt, final) ==
  /\ receipt.lineage = <<a.receipt, a.generation>>
  /\ final.desired_generation = a.generation
  /\ final.observed_generation = a.generation
  /\ final.receipt = a.receipt

verify_positive_trace(a, ack, after, report, receipt, final) ==
  IF ack.outcome # "Received" THEN Err("ExpectedReceivedAck")
  ELSE IF has_ready_true(after) THEN Err("ReadyBeforeReceipt")
  ELSE IF \/ after.active_command = None
          \/ ~Correlated(a, ack, after, report, receipt)
  THEN Err("LineageMismatch")
  ELSE IF receipt.outcome # "Committed" THEN Err("ExpectedCommittedReceipt")
  ELSE IF ~Settled(a, receipt, final) THEN Err("LineageMismatch")
  ELSE IF Cardinality({ack.event, report.event, receipt.event}) # 3
  THEN Err("EventIdentityCollision")
  ELSE IF ~has_matching_ready(final) THEN Err("MissingReadyObservation")
  ELSE Ok(a)

verify_revoked_no_advance(ack, status) ==
  IF ack.outcome # "PolicyRejected" THEN Err("ExpectedRevokedRejection")
  ELSE IF has_ready_true(status) THEN Err("ReadyAfterRevocation")
  ELSE IF \/ status.desired_generation # ack.generation
          \/ status.observed_generation >= ack.generation
  THEN Err("LineageMismatch")
  ELSE Ok(status)

-----------------------------------------------------------------------------
Init ==
  /\ state = Initial(InitialCredentialGeneration, InitialPosition)
  /\ service = [desired |-> InitialPosition.generation, fence |-> 1,
                active |-> None, observed |-> InitialPosition.generation,
                committed |-> {}]
  /\ downlink = {} /\ uplink = {} /\ accepted = {} /\ receipts = {}
  /\ statuses = {}

-----------------------------------------------------------------------------
(* The service. *)

\* A policy request is accepted: a new generation is desired.
AcceptPolicy ==
  /\ service.desired < MaxGeneration
  /\ LET next == service.desired + 1
         reply == [shape |-> "accepted",
                   data |-> [receipt |-> Receipts[next], generation |-> next,
                             condition |-> "PendingDevice"]]
         mapped == map_policy_success(context, decode_policy_response(200, reply).value)
     IN /\ service' = [service EXCEPT !.desired = next, !.active = "queued"]
        /\ accepted' = accepted \union {mapped.value}
  /\ UNCHANGED <<state, downlink, uplink, receipts, statuses>>

\* The command of the desired generation goes out, on the topic of the
\* credential the device uses.
SendCommand(c) ==
  /\ service.active = "queued"
  /\ CommandData[c].generation = service.desired /\ CommandData[c].fence = service.fence
  /\ downlink' = downlink \union {[command |-> c, topic |-> state.credential_generation]}
  /\ service' = [service EXCEPT !.active = "published"]
  /\ UNCHANGED <<state, uplink, accepted, receipts, statuses>>

\* A command that is not answered is issued again under a higher fence.
Reissue ==
  /\ service.active = "published" /\ service.fence < MaxFence
  /\ service' = [service EXCEPT !.fence = @ + 1, !.active = "queued"]
  /\ UNCHANGED <<state, downlink, uplink, accepted, receipts, statuses>>

\* Events are consumed in any order and more than once.
TakeAck(m) ==
  /\ m \in uplink /\ m.kind = "ack" /\ service.active = "published"
  /\ m.payload.generation = service.desired /\ m.payload.fence = service.fence
  /\ service' = [service EXCEPT
       !.active = IF m.payload.result = "received" THEN "received" ELSE None]
  /\ UNCHANGED <<state, downlink, uplink, accepted, receipts, statuses>>

TakeReport(m) ==
  /\ m \in uplink /\ m.kind = "report"
  /\ LET outcome == IF m.event \in service.committed THEN "Duplicate"
                    ELSE IF m.payload.generation # service.desired THEN "Stale"
                    ELSE "Committed"
         mapped == map_receipt(context, [kind |-> "receipt", cause |-> <<m.event, outcome>>],
                     [device |-> Device, ingress |-> m.event.cause,
                      outcome |-> outcome, receipt |-> Receipts[m.payload.generation],
                      generation |-> m.payload.generation])
     IN /\ receipts' = receipts \union {mapped.value}
        /\ service' = IF outcome = "Committed"
                      THEN [service EXCEPT !.observed = m.payload.generation,
                              !.active = None, !.committed = @ \union {m.event}]
                      ELSE service
  /\ UNCHANGED <<state, downlink, uplink, accepted, statuses>>

\* The observer asks for the status.
PollStatus ==
  /\ Cardinality(statuses) < MaxStatuses
  /\ LET matches == service.observed = service.desired
         reply == [shape |-> "status",
           data |-> [desired_generation |-> service.desired,
             receipt |-> Receipts[service.desired],
             observed_generation |-> service.observed,
             active_command |-> IF service.active = None THEN None
                                ELSE [fence |-> service.fence, state |-> service.active],
             conditions |-> {[type |-> "Ready",
               status |-> IF matches THEN "True" ELSE "False",
               reason |-> IF matches THEN "StateMatches" ELSE "AwaitingDevice",
               observed_generation |-> service.observed]}]]
     IN statuses' = statuses \union {decode_status_response(200, reply).value}
  /\ UNCHANGED <<state, service, downlink, uplink, accepted, receipts>>

-----------------------------------------------------------------------------
(* The agent. *)

\* Any command the broker has sent, again and again; the client passes on what
\* is on the current topic or is the pending delivery.
DeliverCommand(m) ==
  /\ m \in downlink
  /\ LET c == m.command
         answer == IF c \in Revoked THEN "Revoked" ELSE "Resolved"
     IN /\ \/ m.topic = state.credential_generation
           \/ /\ IsPendingCommand(state, CommandData[c].id)
              /\ state.pending_inbound.topic = m.topic
        /\ state' =
             IF Commits(state, m.topic, c, answer, 0) /\ CommitReserves(state, 0)
             THEN Commit(state, c, 0).state
             ELSE ApplyWithoutCommit(state, m.topic, c, answer, 0).state
  /\ UNCHANGED <<service, downlink, uplink, accepted, receipts, statuses>>

Publish ==
  /\ next_outbound(state) # 0
  /\ LET e == state.outbox[next_outbound(state)]
     IN /\ encode_outbound(state, e).ok
        /\ uplink' = uplink \union {Message(e, encode_outbound(state, e).value)}
  /\ UNCHANGED <<state, service, downlink, accepted, receipts, statuses>>

Confirm(m) ==
  /\ m \in uplink
  /\ state' = ConfirmOutbound(state, m.event).state
  /\ UNCHANGED <<service, downlink, uplink, accepted, receipts, statuses>>

Reconnect ==
  /\ state' = mark_current_credential_connected(state, state.current.revision).state
  /\ UNCHANGED <<service, downlink, uplink, accepted, receipts, statuses>>

Settle ==
  /\ state' = persist_inbound_settlement(state, None).state
  /\ UNCHANGED <<service, downlink, uplink, accepted, receipts, statuses>>

Next ==
  \/ AcceptPolicy \/ (\E c \in Commands : SendCommand(c)) \/ Reissue
  \/ (\E m \in uplink : TakeAck(m)) \/ (\E m \in uplink : TakeReport(m))
  \/ PollStatus
  \/ (\E m \in downlink : DeliverCommand(m))
  \/ Publish \/ (\E m \in uplink : Confirm(m)) \/ Reconnect \/ Settle

Spec == Init /\ [][Next]_vars

-----------------------------------------------------------------------------
(* Properties. *)

Mapped(m) ==
  IF m.kind = "ack" THEN map_acknowledgement(context, m.event, m.payload)
  ELSE map_report(context, m.event, m.payload)

SeenAcks == {Mapped(m).value : m \in {m \in uplink : m.kind = "ack"}}
SeenReports == {Mapped(m).value : m \in {m \in uplink : m.kind = "report"}}

\* What the agent puts on the wire in answer to a command it can decode the client
\* maps: an event is not lost between the u64 of the device, the i64 of the
\* contract and the u64 of the product (wire.rs encode_ack, encode_report; client
\* map_acknowledgement, map_report).
TypeOK ==
  /\ verify(state)
  /\ \A m \in uplink : Mapped(m).ok

\* Nothing stays unsaid: the ACK of every journalled command, and the report if
\* it was accepted, is queued or has been put on the wire; the queued rejection
\* of a conflicting command under the same id, which has_command_ack counts too,
\* never stands in for it (state.rs has_command_ack, confirm_outbound).
NothingUnsaid ==
  LET said == {m.event : m \in uplink}
                \union {state.outbox[i].event : i \in DOMAIN state.outbox}
  IN \A j \in state.command_journal :
        /\ AckEvent(j.command_id) \in said
        /\ j.acknowledgement.rejection = None => ReportEvent(j.command_id) \in said

\* A trace that verifies is the trace of one rotation: whatever copies, of
\* whatever rotations, the observer picks, ACK and report come from one command,
\* which the agent accepted, for the generation of the policy request, and the
\* report names its artifact (verify_positive_trace).
VerifiedIsOneRotation ==
  \A a \in accepted, ack \in SeenAcks, after \in statuses, report \in SeenReports,
     receipt \in receipts, final \in statuses :
        verify_positive_trace(a, ack, after, report, receipt, final).ok =>
           \E c \in Commands :
              /\ CommandData[c].generation = a.generation
              /\ ack.command_id = CommandData[c].id
              /\ report.event = ReportEvent(CommandData[c].id)
              /\ report.digest = CommandData[c].digest
              /\ receipt.event.cause[1] = report.event

\* The trace of one rotation verifies, whichever copy of its ACK, first or
\* replayed, and of its report and receipt the observer has, and whenever between
\* the events it asked for the status (state.rs accept, replay_command;
\* verify_positive_trace).
EveryCopyVerifies ==
  \A a \in accepted, ack \in SeenAcks, after \in statuses, report \in SeenReports,
     receipt \in receipts, final \in statuses :
        /\ ack.outcome = "Received" /\ receipt.outcome = "Committed"
        /\ {ack.generation, report.generation, receipt.lineage[2],
            after.desired_generation, final.desired_generation} = {a.generation}
        /\ after.active_command = [fence |-> ack.fence, state |-> "received"]
        /\ has_ready_true(final)
        => verify_positive_trace(a, ack, after, report, receipt, final).ok

\* A generation is withdrawn: each of its commands is revoked, addresses the
\* device and has an id of its own.  (A reissue under the id of a rejected
\* command is a conflict, a command for another device malformed, before the
\* catalog is asked.)
Withdrawn(generation) ==
  \A c \in Commands : CommandData[c].generation = generation =>
     /\ c \in Revoked /\ CommandData[c].addressed
     /\ \A d \in Commands : CommandData[d].id = CommandData[c].id => d = c

\* A withdrawn generation does not advance: every ACK the observer sees for it,
\* with every status of that generation, passes verify_revoked_no_advance.
RevokedNoAdvance ==
  \A ack \in SeenAcks, status \in statuses :
     /\ Withdrawn(ack.generation)
     /\ status.desired_generation = ack.generation
     => verify_revoked_no_advance(ack, status).ok

=============================================================================
