---------------------------- MODULE MCDeviceAgent ----------------------------
(* Instances of DeviceAgent for TLC. *)
EXTENDS DeviceAgent

CONSTANTS c1, c1x, c2, idA, idB, d1, d2, d3

Cmd(id, deadline, generation, fence, digest, credentialGeneration) ==
  [id |-> id, addressed |-> TRUE, deadline |-> deadline,
   generation |-> generation, fence |-> fence, digest |-> digest,
   credential_generation |-> credentialGeneration]

\* c1 and c2 rotate the credential one after the other; c1x reuses the id of
\* c1 with other content, under a fence epoch that is already stale.
MCCommandData ==
  [c \in Commands |->
     CASE c = c1 -> Cmd(idA, 9, 2, 2, d2, 2)
       [] c = c1x -> Cmd(idA, 9, 2, 1, d3, 2)
       [] c = c2 -> Cmd(idB, 9, 3, 2, d3, 3)]

MCInitialPosition ==
  [generation |-> 1, fence |-> 2, revision |-> 1, digest |-> d1]

=============================================================================
