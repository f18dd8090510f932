--------------------------- MODULE CommandChannel ---------------------------
(***************************************************************************)
(* The path of a command from a publisher to the agent: the assertion      *)
(* plugin of the broker (deploy/mosquitto/plugin.c), the checks of the     *)
(* MQTT client (mqtt.rs command_delivery), the verifier of the assertion   *)
(* (assertion.rs), the decoder (wire.rs) and the identities and topics of  *)
(* types.rs they agree on.  The device rotates its credential while frames *)
(* wait in the broker.                                                     *)
(*                                                                         *)
(* The tenant is fixed.  A topic is a record; canonical says that UUIDs    *)
(* and generation are spelled the one canonical way.  Signatures are       *)
(* ideal: a signature is the record of the bytes it covers, which the      *)
(* length prefixes of append_field make unambiguous.  A frame is a record  *)
(* whose properties are the sequence of its user properties.               *)
(***************************************************************************)
EXTENDS DeviceSecurityClient

CONSTANTS
  None,
  EmptyTexts, LongTexts, NonUtf8Texts,  \* command ids by their defect
  Device, Devices,
  Payloads,       \* "garbage", or the device a command names
  Published,      \* frames that publishers offer to the broker
  MaxPublished,   \* bound of the model: frames routed
  MaxGeneration   \* bound of the model: credential rotations

ASSUME ChannelAssumption ==
  /\ EmptyTexts \union LongTexts \union NonUtf8Texts \subseteq Texts
  /\ Device \in Devices
  /\ MaxPublished \in Nat /\ MaxGeneration \in Nat \ {0}

TopicShape ==
  [device : Devices, generation : Nat, leg : STRING, contract : STRING,
   canonical : BOOLEAN]

ASSUME PublishedAssumption ==
  Published \subseteq
    [publisher : STRING, topic : TopicShape, correlation : Seq(Texts),
     payload : Payloads, qos : 0 .. 2, retain : BOOLEAN,
     properties : Seq([key : STRING, value : STRING])]

VARIABLES
  session,   \* identity and recovery scope of the running session
  held,      \* frames the broker holds for the device
  minted,    \* frames the plugin has let through, as they left it
  accepted   \* CommandDelivery events the client has produced

vars == <<session, held, minted, accepted>>

-----------------------------------------------------------------------------
(* types.rs. *)

Identity(device, generation) == [device |-> device, generation |-> generation]
principal_urn(identity) == identity

Topic(device, generation, leg, contract, canonical) ==
  [device |-> device, generation |-> generation, leg |-> leg,
   contract |-> contract, canonical |-> canonical]

\* TopicSet::command.
CommandTopic(identity) ==
  Topic(identity.device, identity.generation, "downlink", "apply", TRUE)

CommandId(text) == text \notin EmptyTexts \union LongTexts \union ControlTexts

\* A mutation of RecoveryCommandScope: it takes the identity after the rotation.
RecoveryScopeOfNext(identity, id) ==
  [identity |-> Identity(identity.device, identity.generation + 1),
   topic |-> CommandTopic(identity), command_id |-> id]

RecoveryCommandScope(identity, id) ==
  [identity |-> identity, topic |-> CommandTopic(identity), command_id |-> id]

-----------------------------------------------------------------------------
(* The plugin. *)

Property(key, value) == [key |-> key, value |-> value]
Reserved(p) == p.key # "app"

has_reserved_property(properties) ==
  \E i \in DOMAIN properties : Reserved(properties[i])

\* The principal of a canonical command topic, None for any other topic.
command_principal(topic) ==
  IF topic.leg = "downlink" /\ topic.contract = "apply" /\ topic.canonical
  THEN Identity(topic.device, topic.generation) ELSE None

canonical_command_id(text) ==
  text \notin EmptyTexts \union NonUtf8Texts \union LongTexts \union ControlTexts

exact_correlation_data(correlation) ==
  Len(correlation) = 1 /\ canonical_command_id(correlation[1])

\* A mutation of SignedFields: the payload is not covered.
SignedWithoutPayload(principal, f) ==
  [domain |-> "rss.mqtt.authn.v1", version |-> "1", principal |-> principal,
   topic |-> f.topic, correlation |-> f.correlation, qos |-> f.qos,
   retain |-> f.retain]

\* The canonical bytes, of sign_message and of canonical_bytes.
SignedFields(principal, f) ==
  [domain |-> "rss.mqtt.authn.v1", version |-> "1", principal |-> principal,
   topic |-> f.topic, correlation |-> f.correlation, payload |-> f.payload,
   qos |-> f.qos, retain |-> f.retain]

sign_message(principal, f) ==
  [f EXCEPT !.properties = @ \o
     <<Property("version", "1"), Property("principal", principal),
       Property("signature", SignedFields(principal, f))>>]

\* Ok(frame to route) or an error; allocates: the allocations succeed.
on_message(f, allocates) ==
  IF has_reserved_property(f.properties) THEN Err("denied")
  ELSE IF f.topic.leg # "downlink" THEN Ok(f)
  ELSE IF \/ f.publisher # "service" \/ f.qos # 1 \/ f.retain
          \/ command_principal(f.topic) = None
          \/ ~exact_correlation_data(f.correlation)
  THEN Err("denied")
  ELSE IF ~allocates THEN Err("no_memory")
  ELSE Ok(sign_message(command_principal(f.topic), f))

-----------------------------------------------------------------------------
(* The agent. *)

Values(properties, key) ==
  {i \in DOMAIN properties : properties[i].key = key}

\* Each reserved property exactly once and no other, version 1.
assertion_properties(properties) ==
  /\ \A i \in DOMAIN properties :
        properties[i].key \in {"app", "version", "principal", "signature"}
  /\ \A key \in {"version", "principal", "signature"} :
        Cardinality(Values(properties, key)) = 1
  /\ \A i \in Values(properties, "version") : properties[i].value = "1"

\* BrokerAssertionVerifier::verify.
verify_command(identity, f) ==
  /\ f.qos = 1 /\ ~f.retain
  /\ assertion_properties(f.properties)
  /\ \A i \in Values(f.properties, "principal") :
        f.properties[i].value = principal_urn(identity)
  /\ \A i \in Values(f.properties, "signature") :
        f.properties[i].value = SignedFields(principal_urn(identity), f)

InRecovery(s, f) ==
  /\ s.recovery # None
  /\ s.recovery.topic = f.topic /\ <<s.recovery.command_id>> = f.correlation

Delivery(identity, f) ==
  [identity |-> identity, topic |-> f.topic, command_id |-> f.correlation[1],
   payload |-> f.payload]

\* A mutation of command_delivery: a redelivery on the old topic is verified for
\* the identity of the session.
DeliverAsCurrent(s, f) ==
  IF \/ f.qos # 1 \/ Len(f.correlation) # 1
     \/ f.correlation[1] \in NonUtf8Texts \/ ~CommandId(f.correlation[1])
     \/ ~(f.topic = CommandTopic(s.identity) \/ InRecovery(s, f))
  THEN Err("InvalidCommandFrame")
  ELSE IF verify_command(s.identity, f) THEN Ok(Delivery(s.identity, f))
  ELSE Err("AssertionRejected")

\* MqttSession::command_delivery.
command_delivery(s, f) ==
  IF \/ f.qos # 1 \/ Len(f.correlation) # 1
     \/ f.correlation[1] \in NonUtf8Texts \/ ~CommandId(f.correlation[1])
     \/ ~(f.topic = CommandTopic(s.identity) \/ InRecovery(s, f))
  THEN Err("InvalidCommandFrame")
  ELSE LET identity == IF f.topic = CommandTopic(s.identity) THEN s.identity
                       ELSE s.recovery.identity
       IN IF verify_command(identity, f) THEN Ok(Delivery(identity, f))
          ELSE Err("AssertionRejected")

\* The command a delivery carries; an error is answered as malformed.
decode_command(d) ==
  Then(IF d.payload = "garbage" THEN Err("WireError") ELSE Ok(d),
  Then(validate_reference(d.command_id),
  Then(correlate_command([device |-> d.identity.device], [device |-> d.payload]),
    Ok([command_id |-> d.command_id, device |-> d.payload]))))

-----------------------------------------------------------------------------
Init ==
  /\ session = [identity |-> Identity(Device, 1), recovery |-> None]
  /\ held = {} /\ minted = {} /\ accepted = {}

\* A publisher offers a frame; the broker keeps what the plugin lets through if
\* the device subscribes to its topic.
Publish(f, allocates) ==
  /\ Cardinality(minted) < MaxPublished
  /\ \E r \in {on_message(f, allocates)} :
        IF r.ok
        THEN /\ minted' = minted \union {r.value}
             /\ held' = IF f.topic = CommandTopic(session.identity)
                        THEN held \union {r.value} ELSE held
        ELSE UNCHANGED <<minted, held>>
  /\ UNCHANGED <<session, accepted>>

\* A frame for the device that has not passed the plugin: a bridge, a listener
\* without the plugin, or a store written before it.  It carries the assertion
\* of a frame that has, or none.
Unvetted(f, m) ==
  /\ f.topic.device = Device /\ f.topic.leg = "downlink"
  /\ held' = held \union {[f EXCEPT !.properties = m.properties]}
  /\ Cardinality(held) < MaxPublished
  /\ UNCHANGED <<session, minted, accepted>>

\* The client polls a frame; the broker may deliver it again.
Poll(f) ==
  /\ f \in held
  /\ accepted' = IF command_delivery(session, f).ok
                 THEN accepted \union {command_delivery(session, f).value}
                 ELSE accepted
  /\ UNCHANGED <<session, held, minted>>

\* A delivered command rotates the credential to a later generation; the next
\* session recovers it.
Rotate(d) ==
  /\ decode_command(d).ok /\ d.identity = session.identity
  /\ \E g \in session.identity.generation + 1 .. MaxGeneration :
        session' = [identity |-> Identity(Device, g),
                    recovery |-> RecoveryCommandScope(session.identity, d.command_id)]
  /\ UNCHANGED <<held, minted, accepted>>

\* The redelivery is settled and the rotation reported: the next session needs
\* no recovery.
Settle ==
  /\ session.recovery # None
  /\ session' = [session EXCEPT !.recovery = None]
  /\ UNCHANGED <<held, minted, accepted>>

Next ==
  \/ \E f \in Published, allocates \in BOOLEAN : Publish(f, allocates)
  \/ \E f \in Published, m \in minted : Unvetted(f, m)
  \/ \E f \in held : Poll(f)
  \/ \E d \in accepted : Rotate(d)
  \/ Settle

Spec == Init /\ [][Next]_vars

-----------------------------------------------------------------------------
(* Properties. *)

\* The session speaks for this device, its recovery scope for an earlier
\* credential, and every delivery names the identity of its own topic.
TypeOK ==
  /\ session.identity \in [device : {Device}, generation : 1 .. MaxGeneration]
  /\ session.recovery # None =>
       session.recovery.identity.generation \in 1 .. session.identity.generation - 1
  /\ \A d \in accepted : d.topic = CommandTopic(d.identity)

\* What the client hands to the driver is, field for field, a command that the
\* service published and the plugin signed for this device: neither another
\* client's frame, nor an assertion moved to another topic, command id, payload
\* or credential generation gets through (plugin.c on_message, sign_message;
\* assertion.rs verify; mqtt.rs command_delivery).
AcceptedWasMinted ==
  \A d \in accepted :
     \E m \in minted :
        /\ m.publisher = "service"
        /\ m.topic = d.topic /\ m.topic.device = Device
        /\ m.correlation = <<d.command_id>> /\ m.payload = d.payload

\* No poison: a frame the plugin lets through for the session's topic, or for
\* its recovery scope after a rotation, never makes the client return an error,
\* which would stop the process at every redelivery.  So the two languages agree
\* on every check (plugin.c canonical_command_id, canonical_generation against
\* types.rs CommandId, DeviceIdentity).
MintedIsDeliverable ==
  \A m \in minted :
     m.topic = CommandTopic(session.identity) \/ InRecovery(session, m) =>
        command_delivery(session, m).ok

=============================================================================
