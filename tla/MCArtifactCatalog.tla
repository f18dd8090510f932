------------------------- MODULE MCArtifactCatalog -------------------------
(* Instances of ArtifactCatalog for TLC. *)
EXTENDS ArtifactCatalog

Release(roots, issuer, key, generation, current) ==
  [ca |-> [pem |-> TRUE, roots |-> roots],
   certificate |-> [pem |-> TRUE, issuer |-> issuer, key |-> key,
                    sans |-> {Identity(generation)}, current |-> current],
   private_key |-> [pem |-> TRUE, key |-> key]]

\* The bootstrap material, its successor, and a reissue of the successor under a
\* CA bundle that also trusts the first root.
First == Release({"r1"}, "r1", "k1", 1, TRUE)
Second == Release({"r1"}, "r1", "k2", 2, TRUE)
Reissue == Release({"r1", "r2"}, "r2", "k3", 2, TRUE)
Expired == Release({"r1"}, "r1", "k4", 2, FALSE)
MCReleases == {First, Second, Reissue, Expired}
MCGarbage == [pem |-> FALSE]

MCInitialFiles ==
  [sp \in Slots \X Parts |->
     [type |-> "file", private |-> TRUE,
      bytes |-> IF sp[1] = Bootstrap THEN First[sp[2]] ELSE Second[sp[2]]]]

Command(release) ==
  [artifact_id |-> "a", artifact_digest |-> compute_artifact_digest(release),
   position |-> 2]
MCCommands == {Command(Second), Command(Reissue), Command(Expired)}

Entry(release) ==
  [artifact_id |-> "a", artifact_digest |-> compute_artifact_digest(release),
   device |-> Device, credential_generation |-> 2, position |-> 2,
   slot |-> "slot", contained |-> TRUE, revoked |-> FALSE]

One(entry) == [schema_version |-> 1, artifacts |-> <<entry>>]

\* One catalog for each way a resolution can go.
MCCatalogs ==
  {None, [schema_version |-> 0, artifacts |-> << >>],
   One(Entry(Second)), One(Entry(Reissue)), One(Entry(Expired))} \union
  {One([Entry(Second) EXCEPT !.artifact_id = "b"]),
   One([Entry(Second) EXCEPT !.position = 3]),
   One([Entry(Second) EXCEPT !.revoked = TRUE]),
   One([Entry(Second) EXCEPT !.contained = FALSE]),
   One([Entry(Second) EXCEPT !.artifact_digest = None]),
   One([Entry(Second) EXCEPT !.credential_generation = 3]),
   One([Entry(Second) EXCEPT !.credential_generation = 0])}

=============================================================================
