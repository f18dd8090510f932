-------------------------- MODULE MCCommandChannel --------------------------
(* Instances of CommandChannel for TLC. *)
EXTENDS CommandChannel

CONSTANTS id1, id2, blank, empty, long, control, bytes, other

Frame(topic, ids, payload) ==
  [publisher |-> "service", topic |-> topic, correlation |-> ids,
   payload |-> payload, qos |-> 1, retain |-> FALSE, properties |-> << >>]

Base(generation) == Frame(CommandTopic(Identity(Device, generation)), <<id1>>, Device)

\* A correct frame for two generations, and frames that differ from it in one
\* respect: one for each check on the way.
MCPublished ==
  {Base(1), Base(2)} \union
  {[Base(1) EXCEPT !.correlation = c] :
     c \in {<< >>, <<id1, id2>>, <<id2>>, <<blank>>, <<empty>>, <<long>>,
            <<control>>, <<bytes>>}} \union
  {[Base(1) EXCEPT !.payload = p] : p \in Payloads} \union
  {[Base(1) EXCEPT !.qos = 0], [Base(1) EXCEPT !.retain = TRUE],
   [Base(1) EXCEPT !.publisher = "device"]} \union
  {[Base(1) EXCEPT !.topic.contract = "other"], [Base(1) EXCEPT !.topic.canonical = FALSE],
   [Base(1) EXCEPT !.topic.leg = "uplink"], [Base(1) EXCEPT !.topic.device = other]} \union
  {[Base(1) EXCEPT !.properties = <<Property(key, "1")>>] :
     key \in {"app", "version", "tenant"}}

=============================================================================
