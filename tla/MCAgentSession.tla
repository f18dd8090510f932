---------------------------- MODULE MCAgentSession ---------------------------
(* Instances of AgentSession for TLC. *)
EXTENDS AgentSession

CONSTANTS c1, c2, m0, m1, id0, idX, idY, idA, idB, d1, d2, d3

Cmd(id, generation, digest) ==
  [id |-> id, addressed |-> TRUE, deadline |-> 9, generation |-> generation,
   fence |-> 1, digest |-> digest, credential_generation |-> generation]

MCCommandData ==
  [c \in Commands |-> CASE c = c1 -> Cmd(idA, 2, d2) [] c = c2 -> Cmd(idB, 3, d3)]

MCInitialPosition ==
  [generation |-> 1, fence |-> 1, revision |-> 1, digest |-> d1]

Message(topic, id, content) == [topic |-> topic, id |-> id, content |-> content]

\* A malformed command, a rotation, and a rotation on the new topic.
TwoRotations ==
  <<Message(1, id0, m0), Message(1, idA, c1), Message(2, idB, c2)>>

\* After that two more: the first fills the journal, the second is queued behind it.
Crowded == TwoRotations \o <<Message(3, idX, m1), Message(3, idY, m0)>>

\* Two malformed commands ahead of the rotation.
Pipelined ==
  <<Message(1, id0, m0), Message(1, idX, m1), Message(1, idA, c1)>>

=============================================================================
