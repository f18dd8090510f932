------------------------ MODULE CommandChannelProofs ------------------------
(***************************************************************************)
(* Proofs about CommandChannel, for every set of publishers' frames, every *)
(* number of them and every number of rotations.                           *)
(*                                                                         *)
(* The inductive invariant says where frames come from: one that left the  *)
(* plugin is what on_message makes of a published frame, and one the       *)
(* broker holds has the properties of a frame that left the plugin.  The   *)
(* rest is what a check of the agent says about a check of the plugin.     *)
(***************************************************************************)
EXTENDS CommandChannel, FiniteSetTheorems, SequenceTheorems, TLAPS

\* A frame that left the plugin is the plugin's answer to a published one.
MintedByPlugin ==
  \A m \in minted : \E f \in Published, a \in BOOLEAN : on_message(f, a) = Ok(m)

\* A frame in the broker is a published one with the properties of a minted one.
HeldFromMinted ==
  \A h \in held : \E f \in Published, m \in minted :
     h = [f EXCEPT !.properties = m.properties]

SessionOK ==
  /\ session = [identity |-> session.identity, recovery |-> session.recovery]
  /\ session.identity \in [device : {Device}, generation : 1 .. MaxGeneration]
  /\ session.recovery # None =>
       /\ session.recovery.identity.generation \in 1 .. session.identity.generation - 1
       /\ session.recovery =
            RecoveryCommandScope(Identity(Device, session.recovery.identity.generation),
                                 session.recovery.command_id)

DeliveriesOnOwnTopic == \A d \in accepted : d.topic = CommandTopic(d.identity)

IInv ==
  /\ SessionOK /\ MintedByPlugin /\ HeldFromMinted
  /\ DeliveriesOnOwnTopic /\ AcceptedWasMinted

Frames ==
  [publisher : STRING, topic : TopicShape, correlation : Seq(Texts),
   payload : Payloads, qos : 0 .. 2, retain : BOOLEAN,
   properties : Seq([key : STRING, value : STRING])]

-----------------------------------------------------------------------------
\* What sign_message adds: the three reserved properties, at the end, and nothing
\* else of the frame changes.
LEMMA SignedShape ==
  ASSUME NEW f \in Frames, NEW p
  PROVE  LET s == sign_message(p, f)
             n == Len(f.properties)
         IN /\ s.publisher = f.publisher /\ s.topic = f.topic
            /\ s.correlation = f.correlation /\ s.payload = f.payload
            /\ s.qos = f.qos /\ s.retain = f.retain
            /\ n \in Nat /\ DOMAIN f.properties = 1 .. n
            /\ DOMAIN s.properties = 1 .. n + 3
            /\ \A i \in 1 .. n : s.properties[i] = f.properties[i]
            /\ s.properties[n + 1] = Property("version", "1")
            /\ s.properties[n + 2] = Property("principal", p)
            /\ s.properties[n + 3] = Property("signature", SignedFields(p, f))
            /\ SignedFields(p, s) = SignedFields(p, f)
<1> DEFINE added == <<Property("version", "1"), Property("principal", p),
                      Property("signature", SignedFields(p, f))>>
           s == sign_message(p, f)
           n == Len(f.properties)
<1>1. f.properties \in Seq([key : STRING, value : STRING])
  BY DEF Frames
<1>2. n \in Nat /\ DOMAIN f.properties = 1 .. n
  BY <1>1
<1>3. s = [f EXCEPT !.properties = f.properties \o added]
  BY DEF sign_message
<1>4. /\ s.publisher = f.publisher /\ s.topic = f.topic
      /\ s.correlation = f.correlation /\ s.payload = f.payload
      /\ s.qos = f.qos /\ s.retain = f.retain
      /\ s.properties = f.properties \o added
  BY <1>3 DEF Frames
<1>5. SignedFields(p, s) = SignedFields(p, f)
  BY <1>4 DEF SignedFields
<1> DEFINE R == [key : STRING, value : STRING]
           P1 == Property("version", "1")
           P2 == Property("principal", p)
           P3 == Property("signature", SignedFields(p, f))
<1>6. ASSUME NEW T, R \subseteq T, NEW q1 \in T, NEW q2 \in T, NEW q3 \in T,
             NEW t \in Seq(T)
      PROVE  LET u == t \o <<q1, q2, q3>>
             IN /\ DOMAIN u = 1 .. Len(t) + 3
                /\ \A i \in 1 .. Len(t) : u[i] = t[i]
                /\ u[Len(t) + 1] = q1 /\ u[Len(t) + 2] = q2 /\ u[Len(t) + 3] = q3
  OBVIOUS
<1>7. /\ DOMAIN s.properties = 1 .. n + 3
      /\ \A i \in 1 .. n : s.properties[i] = f.properties[i]
      /\ s.properties[n + 1] = P1 /\ s.properties[n + 2] = P2
      /\ s.properties[n + 3] = P3
  <2> DEFINE T == R \union {P1, P2, P3}
  <2>1. P1 \in T /\ P2 \in T /\ P3 \in T /\ R \subseteq T
    OBVIOUS
  <2>2. f.properties \in Seq(T)
    BY <1>1, <2>1, SeqMonotonic
  <2> HIDE DEF T, P1, P2, P3
  <2>3. LET u == f.properties \o <<P1, P2, P3>>
        IN /\ DOMAIN u = 1 .. Len(f.properties) + 3
           /\ \A i \in 1 .. Len(f.properties) : u[i] = f.properties[i]
           /\ u[Len(f.properties) + 1] = P1 /\ u[Len(f.properties) + 2] = P2
           /\ u[Len(f.properties) + 3] = P3
    BY <2>1, <2>2, <1>6
  <2>4. s.properties = f.properties \o <<P1, P2, P3>>
    BY <1>4 DEF P1, P2, P3
  <2> QED
    BY <2>3, <2>4
<1> QED
  BY <1>2, <1>4, <1>5, <1>7

\* Every published frame has the shape the plugin reads.
LEMMA PublishedAreFrames == Published \subseteq Frames
BY PublishedAssumption DEF Frames

\* What on_message lets through: an unmarked frame for another leg unchanged, or
\* a command of the service, signed.
LEMMA OnMessageCases ==
  ASSUME NEW f \in Published, NEW a \in BOOLEAN, NEW m, on_message(f, a) = Ok(m)
  PROVE  /\ \A i \in DOMAIN f.properties : f.properties[i].key = "app"
         /\ \/ m = f /\ f.topic.leg # "downlink"
            \/ /\ m = sign_message(command_principal(f.topic), f)
               /\ f.publisher = "service" /\ f.qos = 1 /\ f.retain = FALSE
               /\ command_principal(f.topic) # None
               /\ exact_correlation_data(f.correlation)
<1>1. ~has_reserved_property(f.properties)
  BY DEF on_message, Ok, Err
<1>2. \A i \in DOMAIN f.properties : f.properties[i].key = "app"
  BY <1>1 DEF has_reserved_property, Reserved
<1>3. CASE f.topic.leg # "downlink"
  <2>1. Ok(m) = Ok(f)
    BY <1>1, <1>3 DEF on_message
  <2> QED
    BY <2>1, <1>2, <1>3 DEF Ok
<1>4. CASE f.topic.leg = "downlink"
  <2>1. ~(\/ f.publisher # "service" \/ f.qos # 1 \/ f.retain
          \/ command_principal(f.topic) = None
          \/ ~exact_correlation_data(f.correlation))
    BY <1>1, <1>4 DEF on_message, Ok, Err
  <2>2. a
    BY <1>1, <1>4, <2>1 DEF on_message, Ok, Err
  <2>3. Ok(m) = Ok(sign_message(command_principal(f.topic), f))
    BY <1>1, <1>4, <2>1, <2>2 DEF on_message
  <2>4. f.retain \in BOOLEAN
    BY PublishedAreFrames DEF Frames
  <2> QED
    BY <2>1, <2>3, <2>4, <1>2 DEF Ok
<1> QED
  BY <1>3, <1>4

\* A signature in a frame that left the plugin covers that very frame.
LEMMA SignatureCoversFrame ==
  ASSUME NEW f \in Published, NEW a \in BOOLEAN, NEW m, on_message(f, a) = Ok(m),
         NEW i \in DOMAIN m.properties, m.properties[i].key = "signature"
  PROVE  /\ m.publisher = "service"
         /\ m.properties[i].value = SignedFields(command_principal(m.topic), m)
<1> DEFINE p == command_principal(f.topic)
           n == Len(f.properties)
<1>1. f \in Frames
  BY PublishedAreFrames
<1>2. /\ m = sign_message(p, f) /\ f.publisher = "service"
      /\ \A j \in DOMAIN f.properties : f.properties[j].key = "app"
  BY OnMessageCases
<1>3. /\ m.publisher = f.publisher /\ m.topic = f.topic
      /\ n \in Nat /\ DOMAIN f.properties = 1 .. n
      /\ DOMAIN m.properties = 1 .. n + 3
      /\ \A j \in 1 .. n : m.properties[j] = f.properties[j]
      /\ m.properties[n + 1] = Property("version", "1")
      /\ m.properties[n + 2] = Property("principal", p)
      /\ m.properties[n + 3] = Property("signature", SignedFields(p, f))
      /\ SignedFields(p, m) = SignedFields(p, f)
  BY <1>1, <1>2, SignedShape
<1>4. i \in 1 .. n + 3
  BY <1>3
<1>5. i \notin 1 .. n
  BY <1>2, <1>3
<1>6. i \in {n + 1, n + 2, n + 3}
  BY <1>3, <1>4, <1>5
<1>7. i = n + 3
  BY <1>3, <1>6 DEF Property
<1> QED
  BY <1>2, <1>3, <1>7 DEF Property

\* Published and routed frames keep their fields when the properties change.
LEMMA HeldFields ==
  ASSUME NEW f \in Published, NEW q, NEW h, h = [f EXCEPT !.properties = q]
  PROVE  h.properties = q /\ h.correlation \in Seq(Texts)
BY PublishedAreFrames DEF Frames

\* An assertion that verifies for a held frame was minted for an equal one.
LEMMA VerifiedWasMinted ==
  ASSUME MintedByPlugin, HeldFromMinted, NEW h \in held, NEW identity,
         verify_command(identity, h)
  PROVE  \E m \in minted :
            /\ m.publisher = "service" /\ m.topic = h.topic
            /\ m.correlation = h.correlation /\ m.payload = h.payload
<1>1. PICK f \in Published, m \in minted : h = [f EXCEPT !.properties = m.properties]
  BY DEF HeldFromMinted
<1>2. h.properties = m.properties
  BY <1>1, HeldFields
<1>3. PICK g \in Published, a \in BOOLEAN : on_message(g, a) = Ok(m)
  BY DEF MintedByPlugin
<1>4. PICK i \in DOMAIN h.properties : h.properties[i].key = "signature"
  <2>1. Cardinality(Values(h.properties, "signature")) = 1
    BY DEF verify_command, assertion_properties
  <2>2. Values(h.properties, "signature") # {}
    BY <2>1, FS_EmptySet
  <2> QED
    BY <2>2 DEF Values
<1>5. h.properties[i].value = SignedFields(principal_urn(identity), h)
  BY <1>4 DEF verify_command, Values
<1>6. /\ m.publisher = "service"
      /\ m.properties[i].value = SignedFields(command_principal(m.topic), m)
  BY <1>2, <1>3, <1>4, SignatureCoversFrame
<1>7. SignedFields(principal_urn(identity), h) = SignedFields(command_principal(m.topic), m)
  BY <1>2, <1>5, <1>6
<1> QED
  BY <1>6, <1>7 DEF SignedFields

\* The identity command_delivery verifies for is the one its topic belongs to.
LEMMA DeliveryScope ==
  ASSUME SessionOK, NEW f, command_delivery(session, f).ok
  PROVE  \E identity :
            /\ command_delivery(session, f) = Ok(Delivery(identity, f))
            /\ verify_command(identity, f)
            /\ f.topic = CommandTopic(identity) /\ identity.device = Device
            /\ Len(f.correlation) = 1
<1> DEFINE current == f.topic = CommandTopic(session.identity)
           identity == IF current THEN session.identity ELSE session.recovery.identity
<1>1. ~(\/ f.qos # 1 \/ Len(f.correlation) # 1
        \/ f.correlation[1] \in NonUtf8Texts \/ ~CommandId(f.correlation[1])
        \/ ~(current \/ InRecovery(session, f)))
  BY DEF command_delivery, Err
<1>2. verify_command(identity, f)
  BY <1>1 DEF command_delivery, Err
<1>3. command_delivery(session, f) = Ok(Delivery(identity, f))
  BY <1>1, <1>2 DEF command_delivery
<1>4. f.topic = CommandTopic(identity) /\ identity.device = Device
  <2>1. CASE current
    BY <2>1 DEF SessionOK
  <2>2. CASE ~current
    <3>1. session.recovery # None /\ session.recovery.topic = f.topic
      BY <1>1, <2>2 DEF InRecovery
    <3> QED
      BY <2>2, <3>1 DEF SessionOK, RecoveryCommandScope, Identity
  <2> QED
    BY <2>1, <2>2
<1> HIDE DEF identity
<1> QED
  BY <1>1, <1>2, <1>3, <1>4

-----------------------------------------------------------------------------
\* Before the first frame the invariant holds: nothing minted, held or accepted.
LEMMA InitIInv == Init => IInv
<1> SUFFICES ASSUME Init PROVE IInv
  OBVIOUS
<1>1. SessionOK
  BY ChannelAssumption DEF Init, SessionOK, Identity
<1> QED
  BY <1>1 DEF Init, IInv, MintedByPlugin, HeldFromMinted, DeliveriesOnOwnTopic,
              AcceptedWasMinted

\* on_message keeps it: what it routes is its own answer to a published frame,
\* and the broker holds that frame itself.
LEMMA PublishIInv ==
  ASSUME IInv, NEW f \in Published, NEW a \in BOOLEAN, Publish(f, a)
  PROVE  IInv'
<1>1. session' = session /\ accepted' = accepted
  BY DEF Publish
<1>2. minted \subseteq minted'
  BY DEF Publish
<1>3. CASE ~on_message(f, a).ok
  <2>1. minted' = minted /\ held' = held
    BY <1>3 DEF Publish
  <2> QED
    BY <1>1, <2>1 DEF IInv, SessionOK, MintedByPlugin, HeldFromMinted,
                      DeliveriesOnOwnTopic, AcceptedWasMinted
<1>4. CASE on_message(f, a).ok
  <2> DEFINE m == on_message(f, a).value
  <2>1. minted' = minted \union {m} /\ held' \subseteq held \union {m}
    BY <1>4 DEF Publish
  <2>2. on_message(f, a) = Ok(m)
    BY <1>4 DEF on_message, Ok, Err
  <2> HIDE DEF m
  <2>3. m = [f EXCEPT !.properties = m.properties]
    <3>1. f \in Frames
      BY PublishedAreFrames
    <3>2. CASE m = f
      BY <3>1, <3>2 DEF Frames
    <3>3. CASE m = sign_message(command_principal(f.topic), f)
      BY <3>1, <3>3 DEF Frames, sign_message
    <3> QED
      BY <2>2, <3>2, <3>3, OnMessageCases
  <2>4. MintedByPlugin'
    BY <2>1, <2>2 DEF IInv, MintedByPlugin
  <2>5. HeldFromMinted'
    BY <2>1, <2>3 DEF IInv, HeldFromMinted
  <2> QED
    BY <1>1, <1>2, <2>4, <2>5
    DEF IInv, SessionOK, DeliveriesOnOwnTopic, AcceptedWasMinted
<1> QED
  BY <1>3, <1>4

\* command_delivery keeps it: a delivery it returns names the topic of its own
\* identity and was minted for it (VerifiedWasMinted).
LEMMA PollIInv ==
  ASSUME IInv, NEW f \in held, Poll(f)
  PROVE  IInv'
<1>1. session' = session /\ held' = held /\ minted' = minted
  BY DEF Poll
<1>2. SessionOK' /\ MintedByPlugin' /\ HeldFromMinted'
  BY <1>1 DEF IInv, SessionOK, MintedByPlugin, HeldFromMinted
<1>3. CASE ~command_delivery(session, f).ok
  BY <1>1, <1>2, <1>3 DEF Poll, IInv, DeliveriesOnOwnTopic, AcceptedWasMinted
<1>4. CASE command_delivery(session, f).ok
  <2>1. PICK identity :
           /\ command_delivery(session, f) = Ok(Delivery(identity, f))
           /\ verify_command(identity, f)
           /\ f.topic = CommandTopic(identity) /\ identity.device = Device
           /\ Len(f.correlation) = 1
    BY <1>4, DeliveryScope DEF IInv
  <2> DEFINE d == Delivery(identity, f)
  <2>2. accepted' = accepted \union {d}
    BY <1>4, <2>1 DEF Poll, Ok
  <2>3. PICK m \in minted :
           /\ m.publisher = "service" /\ m.topic = f.topic
           /\ m.correlation = f.correlation /\ m.payload = f.payload
    BY <2>1, VerifiedWasMinted DEF IInv
  <2>4. f.correlation = <<f.correlation[1]>>
    <3>1. f.correlation \in Seq(Texts)
      BY HeldFields DEF IInv, HeldFromMinted
    <3> QED
      BY <2>1, <3>1
  <2>5. /\ d.identity = identity /\ d.topic = f.topic
        /\ d.command_id = f.correlation[1] /\ d.payload = f.payload
    BY DEF Delivery
  <2>6. f.topic.device = Device
    BY <2>1 DEF CommandTopic, Topic
  <2>7. DeliveriesOnOwnTopic'
    BY <2>1, <2>2, <2>5 DEF IInv, DeliveriesOnOwnTopic
  <2>8. /\ m.publisher = "service" /\ m.topic = d.topic /\ m.topic.device = Device
        /\ m.correlation = <<d.command_id>> /\ m.payload = d.payload
    BY <2>3, <2>4, <2>5, <2>6
  <2> HIDE DEF d
  <2>9. AcceptedWasMinted'
    BY <1>1, <2>2, <2>8 DEF IInv, AcceptedWasMinted
  <2> QED
    BY <1>2, <2>7, <2>9 DEF IInv
<1> QED
  BY <1>3, <1>4

\* Every step keeps it; an unvetted frame only borrows minted properties, and a
\* rotation makes the session's identity the one its recovery scope names.
LEMMA NextIInv == IInv /\ [Next]_vars => IInv'
<1> SUFFICES ASSUME IInv, [Next]_vars PROVE IInv'
  OBVIOUS
<1> USE DEF IInv
<1>1. CASE UNCHANGED vars
  BY <1>1 DEF vars, SessionOK, MintedByPlugin, HeldFromMinted,
              DeliveriesOnOwnTopic, AcceptedWasMinted
<1>2. ASSUME NEW f \in Published, NEW a \in BOOLEAN, Publish(f, a) PROVE IInv'
  BY <1>2, PublishIInv
<1>3. ASSUME NEW f \in Published, NEW m \in minted, Unvetted(f, m) PROVE IInv'
  <2>1. /\ session' = session /\ minted' = minted /\ accepted' = accepted
        /\ held' = held \union {[f EXCEPT !.properties = m.properties]}
    BY <1>3 DEF Unvetted
  <2>2. HeldFromMinted'
    BY <2>1 DEF HeldFromMinted
  <2> QED
    BY <2>1, <2>2 DEF SessionOK, MintedByPlugin, DeliveriesOnOwnTopic,
                      AcceptedWasMinted
<1>4. ASSUME NEW f \in held, Poll(f) PROVE IInv'
  BY <1>4, PollIInv
<1>5. ASSUME NEW d \in accepted, Rotate(d) PROVE IInv'
  <2> DEFINE g == session.identity.generation
  <2>1. session.identity = Identity(Device, g) /\ g \in 1 .. MaxGeneration
    BY <1>5 DEF SessionOK, Identity
  <2>2. PICK h \in g + 1 .. MaxGeneration :
           session' = [identity |-> Identity(Device, h),
                       recovery |-> RecoveryCommandScope(Identity(Device, g), d.command_id)]
    BY <1>5, <2>1 DEF Rotate
  <2> HIDE DEF g
  <2>3. SessionOK'
    BY <2>1, <2>2, ChannelAssumption DEF SessionOK, Identity, RecoveryCommandScope
  <2> QED
    BY <1>5, <2>3 DEF Rotate, MintedByPlugin, HeldFromMinted, DeliveriesOnOwnTopic,
                      AcceptedWasMinted
<1>6. CASE Settle
  <2>1. session' = [session EXCEPT !.recovery = None]
    BY <1>6 DEF Settle
  <2>2. SessionOK'
    BY <2>1 DEF SessionOK
  <2> QED
    BY <1>6, <2>2 DEF Settle, MintedByPlugin, HeldFromMinted, DeliveriesOnOwnTopic,
                      AcceptedWasMinted
<1> QED
  BY <1>1, <1>2, <1>3, <1>4, <1>5, <1>6 DEF Next

\* In every behaviour frames and deliveries come from where IInv says: the plugin's
\* on_message for minted ones, its properties for held ones.
THEOREM ChannelInvariant == Spec => []IInv
BY InitIInv, NextIInv, PTL DEF Spec

\* The session speaks for this device and its recovery scope for an earlier
\* credential, with any number of rotations and frames.
THEOREM ChannelTyped == Spec => []TypeOK
<1>1. IInv => TypeOK
  <2> SUFFICES ASSUME IInv PROVE TypeOK
    OBVIOUS
  <2>1. session.recovery # None =>
          session.recovery.identity.generation \in 1 .. session.identity.generation - 1
    BY DEF IInv, SessionOK, RecoveryCommandScope, Identity
  <2> QED
    BY <2>1 DEF IInv, SessionOK, DeliveriesOnOwnTopic, TypeOK
<1> QED
  BY <1>1, ChannelInvariant, PTL

\* Whatever publishers offer and the broker holds, the client hands on only
\* commands that the service published and the plugin signed for this device.
THEOREM OnlyMintedAccepted == Spec => []AcceptedWasMinted
<1>1. IInv => AcceptedWasMinted
  BY DEF IInv
<1> QED
  BY <1>1, ChannelInvariant, PTL

-----------------------------------------------------------------------------
\* The assertion of a signed frame passes every check of the verifier.
LEMMA SignedVerifies ==
  ASSUME NEW f \in Frames, NEW p, f.qos = 1, f.retain = FALSE,
         \A i \in DOMAIN f.properties : f.properties[i].key = "app"
  PROVE  verify_command(p, sign_message(p, f))
<1> DEFINE s == sign_message(p, f)
           n == Len(f.properties)
<1>1. /\ s.qos = f.qos /\ s.retain = f.retain
      /\ n \in Nat /\ DOMAIN f.properties = 1 .. n
      /\ DOMAIN s.properties = 1 .. n + 3
      /\ \A i \in 1 .. n : s.properties[i] = f.properties[i]
      /\ s.properties[n + 1] = Property("version", "1")
      /\ s.properties[n + 2] = Property("principal", p)
      /\ s.properties[n + 3] = Property("signature", SignedFields(p, f))
      /\ SignedFields(p, s) = SignedFields(p, f)
  BY SignedShape
<1> HIDE DEF s, n
<1>2. /\ s.properties[n + 1].key = "version" /\ s.properties[n + 1].value = "1"
      /\ s.properties[n + 2].key = "principal" /\ s.properties[n + 2].value = p
      /\ s.properties[n + 3].key = "signature"
      /\ s.properties[n + 3].value = SignedFields(p, s)
  BY <1>1 DEF Property
<1>3. \A i \in 1 .. n : s.properties[i].key = "app"
  BY <1>1
<1>4. \A i \in DOMAIN s.properties : i \in 1 .. n \/ i \in {n + 1, n + 2, n + 3}
  BY <1>1
<1>5. /\ Values(s.properties, "version") = {n + 1}
      /\ Values(s.properties, "principal") = {n + 2}
      /\ Values(s.properties, "signature") = {n + 3}
  BY <1>1, <1>2, <1>3, <1>4 DEF Values
<1>6. \A key \in {"version", "principal", "signature"} :
         Cardinality(Values(s.properties, key)) = 1
  BY <1>5, FS_Singleton
<1>7. \A i \in DOMAIN s.properties :
         s.properties[i].key \in {"app", "version", "principal", "signature"}
  BY <1>2, <1>3, <1>4
<1>8. assertion_properties(s.properties)
  BY <1>2, <1>5, <1>6, <1>7 DEF assertion_properties
<1> QED
  BY <1>1, <1>2, <1>5, <1>8 DEF verify_command, principal_urn, s

\* No poison: what the plugin lets through for the topic of the session, or for
\* its recovery scope, the client never refuses.
THEOREM MintedAlwaysDeliverable == Spec => []MintedIsDeliverable
<1>1. IInv => MintedIsDeliverable
  <2> SUFFICES ASSUME IInv, NEW m \in minted,
                      m.topic = CommandTopic(session.identity) \/ InRecovery(session, m)
               PROVE  command_delivery(session, m).ok
    BY DEF MintedIsDeliverable
  <2> DEFINE current == m.topic = CommandTopic(session.identity)
             identity == IF current THEN session.identity ELSE session.recovery.identity
  <2>1. identity = Identity(Device, identity.generation) /\ m.topic = CommandTopic(identity)
    <3>1. CASE current
      BY <3>1 DEF IInv, SessionOK, Identity
    <3>2. CASE ~current
      <4>1. session.recovery # None /\ session.recovery.topic = m.topic
        BY <3>2 DEF InRecovery
      <4> QED
        BY <3>2, <4>1 DEF IInv, SessionOK, RecoveryCommandScope, Identity
    <3> QED
      BY <3>1, <3>2
  <2> HIDE DEF identity
  <2>2. PICK f \in Published, a \in BOOLEAN : on_message(f, a) = Ok(m)
    BY DEF IInv, MintedByPlugin
  <2>3. f \in Frames
    BY PublishedAreFrames
  <2>4. m.topic.leg = "downlink"
    BY <2>1 DEF CommandTopic, Topic
  <2> DEFINE p == command_principal(f.topic)
  <2>5. /\ m = sign_message(p, f) /\ f.qos = 1 /\ f.retain = FALSE
        /\ exact_correlation_data(f.correlation)
        /\ \A i \in DOMAIN f.properties : f.properties[i].key = "app"
    BY <2>2, <2>4, OnMessageCases
  <2>6. m.topic = f.topic /\ m.correlation = f.correlation /\ m.qos = 1
    BY <2>3, <2>5, SignedShape
  <2>7. p = identity
    BY <2>1, <2>6 DEF command_principal, CommandTopic, Topic, Identity
  <2>8. verify_command(identity, m)
    BY <2>3, <2>5, <2>7, SignedVerifies
  <2>9. /\ Len(m.correlation) = 1 /\ m.correlation[1] \notin NonUtf8Texts
        /\ CommandId(m.correlation[1])
    BY <2>5, <2>6 DEF exact_correlation_data, canonical_command_id, CommandId
  <2> QED
    BY <2>6, <2>8, <2>9 DEF command_delivery, identity, Ok
<1> QED
  BY <1>1, ChannelInvariant, PTL

=============================================================================
