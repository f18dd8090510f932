--------------------------- MODULE MCRotationTrace ---------------------------
(* Instances of RotationTrace for TLC. *)
EXTENDS RotationTrace

CONSTANTS c1, c2, c3, c4, c5, id1, id2, id3, id4, rc1, rc2, rc3, rc4

CommandOfGeneration(id, generation, fence) ==
  [id |-> id, addressed |-> TRUE, deadline |-> 1, generation |-> generation,
   fence |-> fence, digest |-> <<generation, fence>>,
   credential_generation |-> generation]

\* A command, its reissue under a new id and under the same id, the command of
\* the next generation, a revoked one.
MCCommandData ==
  (c1 :> CommandOfGeneration(id1, 2, 1)) @@ (c2 :> CommandOfGeneration(id2, 2, 2))
    @@ (c3 :> CommandOfGeneration(id3, 3, 1)) @@ (c4 :> CommandOfGeneration(id4, 4, 1))
    @@ (c5 :> CommandOfGeneration(id1, 2, 2))

MCDigests == {<<g, f>> : g \in 1 .. 4, f \in 1 .. 2}
MCInitialPosition ==
  [generation |-> 1, fence |-> 1, revision |-> 1, digest |-> <<1, 1>>]
MCReceipts == <<rc1, rc2, rc3, rc4>>

=============================================================================
