------------------------ MODULE ArtifactCatalogProofs ------------------------
(***************************************************************************)
(* Proofs, for every value of the constants, about ArtifactCatalog: what   *)
(* is resolved is one release, what becomes the current credential can be  *)
(* used, and a published artifact that nobody touches is resolved.         *)
(***************************************************************************)
EXTENDS ArtifactCatalog, SequenceTheorems, TLAPS

Busy == {"validate", "digest", "resolve"}

Operation(task, step, read, command, entry, validated, sound, touched) ==
  [task |-> task, step |-> step, read |-> read, command |-> command,
   entry |-> entry, validated |-> validated, sound |-> sound, touched |-> touched]

\* The record of an operation under way has its eight fields.
Shaped ==
  agent.task \in Busy =>
    /\ agent = Operation(agent.task, agent.step, agent.read, agent.command,
                         agent.entry, agent.validated, agent.sound, agent.touched)
    /\ agent.step \in Parts \union {"check"}

\* Every slot has its three files.
FilesShape == files = [sp \in Slots \X Parts |-> files[sp]]

\* What is to be installed by a first start was validated, and a resolve is of
\* a command.
TaskInv ==
  /\ agent.task = "digest" =>
       validate_credential_bytes(agent.validated, Identity(BootstrapGeneration)).ok
  /\ agent.task = "resolve" => agent.command \in Commands

\* What has been read of a sound artifact nobody touched is the release's.
ReadSoFar(r) ==
  /\ agent.step = "ca" => agent.read = << >>
  /\ agent.step = "certificate" => agent.read = <<r.ca>>
  /\ agent.step = "private_key" => agent.read = <<r.ca, r.certificate>>
  /\ agent.step = "check" => agent.read = <<r.ca, r.certificate, r.private_key>>

Undisturbed ==
  agent.task = "resolve" /\ agent.sound /\ ~agent.touched =>
    \E r \in Releases : SoundRelease(r, agent.command, agent.entry) /\ ReadSoFar(r)

IInv ==
  /\ TypeOK /\ Shaped /\ FilesShape /\ TaskInv
  /\ ResolvedIsOneRelease /\ StoreUsable /\ Undisturbed

-----------------------------------------------------------------------------
(* The operation's record. *)

\* The fields of the record.
LEMMA OperationFields ==
  \A t, s, r, c, e, v, g, u :
    LET op == Operation(t, s, r, c, e, v, g, u) IN
    /\ op.task = t /\ op.step = s /\ op.read = r /\ op.command = c
    /\ op.entry = e /\ op.validated = v /\ op.sound = g /\ op.touched = u
  BY DEF Operation

\* One field assigned.
LEMMA OperationAssign ==
  \A t, s, r, c, e, v, g, u, x :
    LET op == Operation(t, s, r, c, e, v, g, u) IN
    /\ [op EXCEPT !.read = x] = Operation(t, s, x, c, e, v, g, u)
    /\ [op EXCEPT !.step = x] = Operation(t, x, r, c, e, v, g, u)
    /\ [op EXCEPT !.validated = x] = Operation(t, s, r, c, e, x, g, u)
    /\ [op EXCEPT !.touched = x] = Operation(t, s, r, c, e, v, g, x)
  BY DEF Operation

\* Two fields are assigned one after the other.
LEMMA TwoFields ==
  \A op, x, y :
    [op EXCEPT !.read = x, !.step = y] = [[op EXCEPT !.read = x] EXCEPT !.step = y]
  OBVIOUS

OneMore(op, v) == [op EXCEPT !.read = Append(@, v), !.step = NextPart(@)]

\* The record after one more file.
LEMMA ReadRecord ==
  ASSUME NEW t, NEW s, NEW r, NEW c, NEW e, NEW w, NEW g, NEW u, NEW op, NEW v,
         op = Operation(t, s, r, c, e, w, g, u)
  PROVE  OneMore(op, v) = Operation(t, NextPart(s), Append(r, v), c, e, w, g, u)
  <1>1. op.read = r /\ op.step = s
    BY OperationFields
  <1>2. PICK x : x = Append(r, v)
    OBVIOUS
  <1>3. PICK y : y = NextPart(s)
    OBVIOUS
  <1>4. OneMore(op, v) = [op EXCEPT !.read = x, !.step = y]
    BY <1>1, <1>2, <1>3 DEF OneMore
  <1>5. PICK p : p = [op EXCEPT !.read = x]
    OBVIOUS
  <1>6. p = Operation(t, s, x, c, e, w, g, u)
    BY <1>5, OperationAssign
  <1>7. [p EXCEPT !.step = y] = Operation(t, y, x, c, e, w, g, u)
    BY <1>6, OperationAssign
  <1>8. OneMore(op, v) = [p EXCEPT !.step = y]
    BY <1>4, <1>5, TwoFields
  <1> QED BY <1>2, <1>3, <1>7, <1>8

\* Validation that succeeds returns the material it was given, with the key of
\* the certificate, a certificate of the CA, and the identity (material.rs).
LEMMA Validated ==
  ASSUME NEW m, NEW identity, validate_credential_bytes(m, identity).ok
  PROVE  /\ validate_credential_bytes(m, identity).value = m
         /\ m.certificate.key = m.private_key.key
         /\ m.certificate.issuer \in m.ca.roots
         /\ identity \in m.certificate.sans
  BY DEF validate_credential_bytes, Ok, Err, verify_key_matches, verify_chain,
         verify_identity

\* Validation fails with one of three errors.
LEMMA ValidationErrors ==
  ASSUME NEW m, NEW identity
  PROVE  \/ validate_credential_bytes(m, identity).ok
         \/ validate_credential_bytes(m, identity).value \in CatalogErrors
  BY DEF validate_credential_bytes, Ok, Err, CatalogErrors

\* The last check of a resolve: an artifact that passes has the digest of the
\* command, names a generation and is valid for it; otherwise the error is one
\* the agent classifies (catalog.rs resolve).
LEMMA Checked ==
  ASSUME NEW command, NEW entry, NEW m
  PROVE  LET result == CheckArtifact(command, entry, m) IN
         /\ result.ok \/ result.value \in CatalogErrors
         /\ result.ok =>
              /\ result.value = m
              /\ compute_artifact_digest(m) = command.artifact_digest
              /\ entry.credential_generation # 0
              /\ validate_credential_bytes(m, Identity(entry.credential_generation)).ok
  <1> DEFINE identity == Identity(entry.credential_generation)
  <1>1. /\ \/ validate_credential_bytes(m, identity).ok
           \/ validate_credential_bytes(m, identity).value \in CatalogErrors
        /\ validate_credential_bytes(m, identity).ok =>
             validate_credential_bytes(m, identity).value = m
    BY Validated, ValidationErrors
  <1>2. ~Err("MalformedCatalog").ok /\ Err("MalformedCatalog").value \in CatalogErrors
    BY DEF Err, CatalogErrors
  <1>3. ~Err("DigestMismatch").ok /\ Err("DigestMismatch").value \in CatalogErrors
    BY DEF Err, CatalogErrors
  <1> QED BY <1>1, <1>2, <1>3 DEF CheckArtifact

\* A lookup fails with one of the errors the agent classifies.
LEMMA FindErrors ==
  ASSUME NEW c, NEW command, ~FindEntry(c, command).ok
  PROVE  FindEntry(c, command).value \in CatalogErrors
  <1> DEFINE i == SelectInSeq(c.artifacts,
                              LAMBDA e : e.artifact_id = command.artifact_id)
             entry == c.artifacts[i]
             binding == validate_binding(command, entry)
             revocation == IF entry.revoked THEN Err("Revoked") ELSE Ok(entry)
  <1>1. binding.ok \/ binding.value \in CatalogErrors
    BY DEF validate_binding, Ok, Err, CatalogErrors
  <1>2. revocation.ok \/ revocation.value \in CatalogErrors
    BY DEF Ok, Err, CatalogErrors
  <1>3. Then(binding, revocation).ok \/ Then(binding, revocation).value \in CatalogErrors
    <2> HIDE DEF binding, revocation
    <2> QED BY <1>1, <1>2 DEF Then
  <1>4. FindEntry(c, command) =
          IF c.schema_version # 1 THEN Err("MalformedCatalog")
          ELSE IF i = 0 THEN Err("NotFound") ELSE Then(binding, revocation)
    BY DEF FindEntry
  <1> HIDE DEF i, entry, binding, revocation
  <1> QED BY <1>3, <1>4 DEF Err, CatalogErrors

\* A file that cannot be read fails with one of the errors the agent classifies.
LEMMA ReadErrors ==
  ASSUME NEW entry, NEW part, NEW f, ~read_catalog_file(entry, part, f).ok
  PROVE  read_catalog_file(entry, part, f).value \in CatalogErrors
  BY DEF read_catalog_file, Ok, Err, CatalogErrors

-----------------------------------------------------------------------------
(* The actions. *)

\* The parts of the invariant that no agent's record enters.
Kept ==
  /\ FilesShape /\ ResolvedIsOneRelease /\ StoreUsable
  /\ resolved # None =>
       resolved.result.ok \/ resolved.result.value \in CatalogErrors

\* An operation that ends, or none that starts.
LEMMA IdleStep ==
  ASSUME Kept', agent' \in {Down, Up}, agent' = Up => store' # NoManifest
  PROVE  IInv'
  <1>1. agent'.task \in {"down", "up"} /\ (agent'.task = "up" => agent' = Up)
    BY DEF Down, Up
  <1>2. TypeOK'
    BY <1>1 DEF TypeOK, Kept
  <1>3. Shaped' /\ TaskInv' /\ Undisturbed'
    BY <1>1 DEF Shaped, TaskInv, Undisturbed, Busy
  <1> QED BY <1>2, <1>3 DEF IInv, Kept

\* Nothing but the agent's record changes.
LEMMA SameStore ==
  ASSUME IInv, UNCHANGED <<files, store, resolved>>
  PROVE  Kept'
  BY DEF IInv, TypeOK, Kept, FilesShape, ResolvedIsOneRelease, StoreUsable

\* What the step of a bootstrap leaves is all there is to know of it.
LEMMA BootstrapStep ==
  ASSUME Kept', NEW t \in {"validate", "digest"}, NEW s \in Parts \union {"check"},
         NEW r, NEW c, NEW e, NEW v, NEW g, NEW u,
         agent' = Operation(t, s, r, c, e, v, g, u),
         t = "digest" =>
            validate_credential_bytes(v, Identity(BootstrapGeneration)).ok
  PROVE  IInv'
  <1>1. /\ agent'.task = t /\ agent'.step = s /\ agent'.read = r
        /\ agent'.command = c /\ agent'.entry = e /\ agent'.validated = v
        /\ agent'.sound = g /\ agent'.touched = u
    BY OperationFields
  <1>2. TypeOK'
    BY <1>1 DEF TypeOK, Kept
  <1>3. Shaped'
    BY <1>1 DEF Shaped
  <1>4. TaskInv' /\ Undisturbed'
    BY <1>1 DEF TaskInv, Undisturbed
  <1> QED BY <1>2, <1>3, <1>4 DEF IInv, Kept

\* The initial states.
LEMMA InitIInv ==
  ASSUME Init
  PROVE  IInv
  <1>1. agent.task = "down"
    BY DEF Init, Down
  <1>2. FilesShape
    BY CatalogAssumption DEF Init, FilesShape
  <1>3. TypeOK /\ ResolvedIsOneRelease /\ StoreUsable
    BY <1>1 DEF Init, TypeOK, ResolvedIsOneRelease, StoreUsable
  <1>4. Shaped /\ TaskInv /\ Undisturbed
    BY <1>1 DEF Shaped, TaskInv, Undisturbed, Busy
  <1> QED BY <1>2, <1>3, <1>4 DEF IInv

\* ReferenceDeviceAgent::open on an empty state directory.
LEMMA OpenFreshStep ==
  ASSUME IInv, OpenFresh
  PROVE  IInv'
  <1>1. Kept'
    BY SameStore DEF OpenFresh
  <1>2. CASE agent' = Down
    BY <1>1, <1>2, IdleStep DEF Down, Up
  <1>3. CASE agent' = Reading("validate", None, None, FALSE)
    <2>1. agent' = Operation("validate", "ca", << >>, None, None, None, FALSE, FALSE)
      BY <1>3 DEF Reading, Operation
    <2>2. "ca" \in Parts \union {"check"}
      BY DEF Parts
    <2>3. PICK g : g = FALSE
      OBVIOUS
    <2>4. agent' = Operation("validate", "ca", << >>, None, None, None, g, g)
      BY <2>1, <2>3
    <2> QED BY <1>1, <2>2, <2>4, BootstrapStep
  <1> QED BY <1>2, <1>3 DEF OpenFresh

\* The part after a part is a part, or the check.
LEMMA NextPartType ==
  \A s \in Parts : NextPart(s) \in Parts \union {"check"}
  BY DEF NextPart, Parts

\* A bootstrap file is read, for the validation or for the digest.
LEMMA ReadBootstrapStep ==
  ASSUME IInv, ReadBootstrap
  PROVE  IInv'
  <1>1. Kept'
    BY SameStore DEF ReadBootstrap
  <1>2. PICK bytes : agent' = IF bytes.ok THEN OneMore(agent, bytes.value) ELSE Down
    BY DEF ReadBootstrap, OneMore
  <1>3. /\ agent.task \in {"validate", "digest"} /\ agent.step \in Parts
        /\ agent = Operation(agent.task, agent.step, agent.read, agent.command,
                             agent.entry, agent.validated, agent.sound, agent.touched)
    BY DEF ReadBootstrap, IInv, Shaped, Busy
  <1>4. CASE agent' = Down
    BY <1>1, <1>4, IdleStep DEF Down, Up
  <1>5. CASE agent' = OneMore(agent, bytes.value)
    <2>1. agent' = Operation(agent.task, NextPart(agent.step),
                             Append(agent.read, bytes.value), agent.command,
                             agent.entry, agent.validated, agent.sound, agent.touched)
      BY <1>3, <1>5, ReadRecord
    <2>2. NextPart(agent.step) \in Parts \union {"check"}
      BY <1>3, NextPartType
    <2>3. agent.task = "digest" =>
            validate_credential_bytes(agent.validated, Identity(BootstrapGeneration)).ok
      BY DEF IInv, TaskInv
    <2> QED BY <1>1, <1>3, <2>1, <2>2, <2>3, BootstrapStep
  <1> QED BY <1>2, <1>4, <1>5

\* The material of the bootstrap is validated.
LEMMA ValidateBootstrapStep ==
  ASSUME IInv, ValidateBootstrap
  PROVE  IInv'
  <1>1. Kept'
    BY SameStore DEF ValidateBootstrap
  <1>2. PICK m : m = Materialized(agent.read)
    OBVIOUS
  <1>3. CASE agent' = Down
    BY <1>1, <1>3, IdleStep DEF Down, Up
  <1>4. CASE /\ validate_credential_bytes(m, Identity(BootstrapGeneration)).ok
             /\ agent' = [Reading("digest", None, None, FALSE) EXCEPT !.validated = m]
    <2>1. PICK g : g = FALSE
      OBVIOUS
    <2>2. Reading("digest", None, None, FALSE) =
            Operation("digest", "ca", << >>, None, None, None, g, g)
      BY <2>1 DEF Reading, Operation
    <2>3. agent' = Operation("digest", "ca", << >>, None, None, m, g, g)
      <3>1. PICK op : op = Operation("digest", "ca", << >>, None, None, None, g, g)
        OBVIOUS
      <3>2. [op EXCEPT !.validated = m] =
              Operation("digest", "ca", << >>, None, None, m, g, g)
        BY <3>1, OperationAssign
      <3>3. agent' = [op EXCEPT !.validated = m]
        BY <1>4, <2>2, <3>1
      <3> QED BY <3>2, <3>3
    <2>4. "ca" \in Parts \union {"check"}
      BY DEF Parts
    <2> QED BY <1>1, <1>4, <2>3, <2>4, BootstrapStep
  <1> QED BY <1>2, <1>3, <1>4 DEF ValidateBootstrap

\* The first revision and its manifest are written.
LEMMA InitializeStep ==
  ASSUME IInv, Initialize
  PROVE  IInv'
  <1>1. /\ store'.material = agent.validated
        /\ store'.generation = BootstrapGeneration
    BY DEF Initialize
  <1>2. store' # NoManifest
    BY <1>1, CatalogAssumption DEF NoManifest
  <1>3. validate_credential_bytes(agent.validated, Identity(BootstrapGeneration)).ok
    BY DEF Initialize, IInv, TaskInv
  <1>4. StoreUsable'
    BY <1>1, <1>3, Validated DEF StoreUsable, Identity
  <1>5. Kept'
    BY <1>4 DEF Initialize, IInv, TypeOK, Kept, FilesShape, ResolvedIsOneRelease
  <1> QED BY <1>2, <1>5, IdleStep DEF Initialize

\* ReferenceDeviceAgent::open on a state directory with a manifest.
LEMMA OpenExistingStep ==
  ASSUME IInv, OpenExisting
  PROVE  IInv'
  <1>1. Kept'
    BY SameStore DEF OpenExisting
  <1> QED BY <1>1, IdleStep DEF OpenExisting

\* The process dies.
LEMMA CrashStep ==
  ASSUME IInv, Crash
  PROVE  IInv'
  <1>1. Kept'
    BY SameStore DEF Crash
  <1> QED BY <1>1, IdleStep DEF Crash, Down, Up

\* The operator rewrites the catalog file.
LEMMA ReplaceCatalogStep ==
  ASSUME IInv, NEW c, ReplaceCatalog(c)
  PROVE  IInv'
  BY ZenonT(40) DEF ReplaceCatalog, IInv, TypeOK, Shaped, FilesShape, TaskInv,
         ResolvedIsOneRelease, StoreUsable, Undisturbed, SoundRelease, ReadSoFar

-----------------------------------------------------------------------------
(* A resolve. *)

\* What is left to show of a resolve that goes on.
LEMMA ResolvingStep ==
  ASSUME Kept', store' # NoManifest,
         NEW s \in Parts \union {"check"}, NEW r, NEW c \in Commands,
         NEW e, NEW v, NEW g, NEW u,
         agent' = Operation("resolve", s, r, c, e, v, g, u),
         Undisturbed'
  PROVE  IInv'
  <1>1. /\ agent'.task = "resolve" /\ agent'.step = s /\ agent'.read = r
        /\ agent'.command = c /\ agent'.entry = e /\ agent'.validated = v
        /\ agent'.sound = g /\ agent'.touched = u
    BY OperationFields
  <1>2. TypeOK'
    BY <1>1 DEF TypeOK, Kept
  <1>3. Shaped'
    BY <1>1 DEF Shaped
  <1>4. TaskInv'
    BY <1>1 DEF TaskInv
  <1> QED BY <1>2, <1>3, <1>4 DEF IInv, Kept

\* A resolve that ends with an error.
LEMMA FailingStep ==
  ASSUME IInv, store # NoManifest, agent' = Up, NEW result, NEW command,
         resolved' = [result |-> result, command |-> command],
         ~result.ok, result.value \in CatalogErrors,
         UNCHANGED <<files, store>>
  PROVE  IInv'
  <1>1. Kept'
    BY DEF IInv, Kept, FilesShape, ResolvedIsOneRelease, StoreUsable
  <1> QED BY <1>1, IdleStep

\* The catalog is read and searched.
LEMMA ResolveStep ==
  ASSUME IInv, NEW command \in Commands, Resolve(command)
  PROVE  IInv'
  <1> DEFINE lookup == IF catalog = None THEN Err("Unavailable")
                       ELSE FindEntry(catalog, command)
  <1>1. PICK found : found = lookup
    OBVIOUS
  <1>2. store # NoManifest
    BY DEF Resolve, IInv, TypeOK, Up
  <1>3. CASE ~found.ok
    <2>1. found.value \in CatalogErrors
      BY <1>1, <1>3, FindErrors DEF Err, CatalogErrors
    <2>2. /\ agent' = Up /\ resolved' = [result |-> found, command |-> command]
          /\ UNCHANGED <<files, store>>
      BY <1>1, <1>3 DEF Resolve
    <2> QED BY <1>2, <1>3, <2>1, <2>2, FailingStep
  <1>4. CASE found.ok
    <2>1. PICK entry : entry = found.value
      OBVIOUS
    <2>2. /\ agent' = Reading("resolve", command, entry, SoundArtifact(command, entry))
          /\ UNCHANGED <<files, store, resolved>>
      BY <1>1, <1>4, <2>1 DEF Resolve
    <2>3. PICK g : g = SoundArtifact(command, entry)
      OBVIOUS
    <2>4. PICK u : u = FALSE
      OBVIOUS
    <2>5. agent' = Operation("resolve", "ca", << >>, command, entry, None, g, u)
      BY <2>2, <2>3, <2>4 DEF Reading, Operation
    <2>6. /\ agent'.task = "resolve" /\ agent'.step = "ca" /\ agent'.read = << >>
          /\ agent'.command = command /\ agent'.entry = entry
          /\ agent'.sound = g /\ agent'.touched = u
      BY <2>5, OperationFields
    <2>7. ASSUME agent'.sound
          PROVE  \E r \in Releases : SoundRelease(r, command, entry)
      BY <2>3, <2>6, <2>7 DEF SoundArtifact
    <2>8. Undisturbed'
      BY <2>2, <2>6, <2>7 DEF Undisturbed, SoundRelease, ReadSoFar
    <2>9. Kept' /\ store' # NoManifest /\ "ca" \in Parts \union {"check"}
      BY <1>2, <2>2, SameStore DEF Parts
    <2> QED BY <2>5, <2>8, <2>9, ResolvingStep
  <1> QED BY <1>3, <1>4

\* A file of a sound artifact nobody touched is readable and holds the release's
\* bytes.
LEMMA SoundRead ==
  ASSUME NEW r \in Releases, NEW command, NEW entry, NEW part \in Parts,
         SoundRelease(r, command, entry)
  PROVE  LET bytes == read_catalog_file(entry, part, files[<<entry.slot, part>>]) IN
         bytes.ok /\ bytes.value = r[part]
  <1>1. PICK f : f = files[<<entry.slot, part>>]
    OBVIOUS
  <1>2. /\ f = [type |-> "file", private |-> TRUE, bytes |-> r[part]]
        /\ entry.contained
    BY <1>1 DEF SoundRelease
  <1>3. f.type = "file" /\ f.private /\ f.bytes = r[part]
    BY <1>2
  <1>4. read_catalog_file(entry, part, f) = Ok(f.bytes)
    BY <1>2, <1>3 DEF read_catalog_file, validated_relative_path
  <1> QED BY <1>1, <1>3, <1>4 DEF Ok

\* The last check passes for a sound release: it is the one place where every
\* fact about a release is needed.
LEMMA SoundCheck ==
  ASSUME NEW r \in Releases, NEW command, NEW entry, SoundRelease(r, command, entry)
  PROVE  CheckArtifact(command, entry, r).ok
  <1>1. /\ Parses(r) /\ verify_key_matches(r)
        /\ r.certificate.issuer \in r.ca.roots
        /\ compute_artifact_digest(r) # None
    BY ReleasesAssumption
  <1>2. verify_chain(r) /\ verify_identity(r, Identity(entry.credential_generation))
    BY <1>1 DEF SoundRelease, verify_chain, verify_identity
  <1>3. validate_credential_bytes(r, Identity(entry.credential_generation)).ok
    BY <1>1, <1>2 DEF validate_credential_bytes, Ok
  <1> QED BY <1>1, <1>3 DEF SoundRelease, CheckArtifact

\* The bytes of a release, read part by part, are the release.
LEMMA MaterializedRelease ==
  ASSUME NEW r \in Releases
  PROVE  Materialized(<<r.ca, r.certificate, r.private_key>>) = r
  BY ReleasesAssumption DEF Materialized

\* A digest of a release is the digest of that release alone.
LEMMA DigestOfOne ==
  ASSUME NEW r \in Releases, NEW read,
         compute_artifact_digest(Materialized(read)) = compute_artifact_digest(r)
  PROVE  Materialized(read) = r
  <1>1. /\ r = [ca |-> r.ca, certificate |-> r.certificate,
                private_key |-> r.private_key]
    BY ReleasesAssumption
  <1>2. PICK a, b, c : a = read[1] /\ b = read[2] /\ c = read[3]
    OBVIOUS
  <1>3. Materialized(read) = [ca |-> a, certificate |-> b, private_key |-> c]
    BY <1>2 DEF Materialized
  <1>4. <<a, b, c>> = <<r.ca, r.certificate, r.private_key>>
    BY <1>3 DEF compute_artifact_digest
  <1>5. a = r.ca /\ b = r.certificate /\ c = r.private_key
    BY <1>4
  <1> QED BY <1>1, <1>3, <1>5

\* What appending does, element by element.
LEMMA AppendFacts ==
  ASSUME NEW S, NEW s \in Seq(S), NEW b \in S
  PROVE  /\ Append(s, b) \in Seq(S)
         /\ Len(Append(s, b)) = Len(s) + 1
         /\ \A i \in 1 .. Len(s) : Append(s, b)[i] = s[i]
         /\ Append(s, b)[Len(s) + 1] = b
  BY AppendProperties

\* Appending to a short list.
LEMMA AppendShort ==
  ASSUME NEW a, NEW b, NEW c
  PROVE  Append(<<a>>, b) = <<a, b>> /\ Append(<<a, b>>, c) = <<a, b, c>>
  <1>1. PICK S : S = {a, b, c}
    OBVIOUS
  <1>2. PICK s, t, u : s = <<a>> /\ t = <<a, b>> /\ u = <<a, b, c>>
    OBVIOUS
  <1>3. /\ a \in S /\ b \in S /\ c \in S
        /\ s \in Seq(S) /\ Len(s) = 1 /\ s[1] = a
        /\ t \in Seq(S) /\ Len(t) = 2 /\ t[1] = a /\ t[2] = b
        /\ u \in Seq(S) /\ Len(u) = 3 /\ u[1] = a /\ u[2] = b /\ u[3] = c
    BY <1>1, <1>2
  <1>4. Append(s, b) = t
    <2>1. PICK x : x = Append(s, b)
      OBVIOUS
    <2>2. x \in Seq(S) /\ Len(x) = 2 /\ x[1] = a /\ x[2] = b
      <3>0. s \in Seq(S) /\ b \in S
        BY <1>3
      <3>1. /\ Append(s, b) \in Seq(S)
            /\ Len(Append(s, b)) = Len(s) + 1
            /\ \A i \in 1 .. Len(s) : Append(s, b)[i] = s[i]
            /\ Append(s, b)[Len(s) + 1] = b
        BY <3>0, AppendFacts
      <3>2. Len(s) + 1 = 2
        BY <1>3
      <3> QED BY <1>3, <2>1, <3>1, <3>2
    <2>3. \A i \in 1 .. Len(x) : x[i] = t[i]
      BY <1>3, <2>2
    <2> QED BY <1>3, <2>1, <2>2, <2>3, SeqEqual
  <1>5. Append(t, c) = u
    <2>1. PICK x : x = Append(t, c)
      OBVIOUS
    <2>2. x \in Seq(S) /\ Len(x) = 3 /\ x[1] = a /\ x[2] = b /\ x[3] = c
      <3>0. t \in Seq(S) /\ c \in S
        BY <1>3
      <3>1. /\ Append(t, c) \in Seq(S)
            /\ Len(Append(t, c)) = Len(t) + 1
            /\ \A i \in 1 .. Len(t) : Append(t, c)[i] = t[i]
            /\ Append(t, c)[Len(t) + 1] = c
        BY <3>0, AppendFacts
      <3>2. Len(t) + 1 = 3
        BY <1>3
      <3> QED BY <1>3, <2>1, <3>1, <3>2
    <2>3. \A i \in 1 .. Len(x) : x[i] = u[i]
      BY <1>3, <2>2
    <2> QED BY <1>3, <2>1, <2>2, <2>3, SeqEqual
  <1> QED BY <1>2, <1>4, <1>5

\* One file of the artifact is read.
LEMMA ReadArtifactStep ==
  ASSUME IInv, ReadArtifact
  PROVE  IInv'
  <1>1. PICK bytes : bytes = read_catalog_file(agent.entry, agent.step,
                                files[<<agent.entry.slot, agent.step>>])
    OBVIOUS
  <1>2. /\ agent.task = "resolve" /\ agent.step \in Parts
        /\ agent.command \in Commands /\ store # NoManifest
        /\ agent = Operation("resolve", agent.step, agent.read, agent.command,
                             agent.entry, agent.validated, agent.sound, agent.touched)
    BY DEF ReadArtifact, IInv, TypeOK, TaskInv, Shaped, Busy
  <1>3. CASE ~bytes.ok
    <2>1. bytes.value \in CatalogErrors
      BY <1>1, <1>3, ReadErrors
    <2>2. /\ agent' = Up /\ resolved' = [result |-> bytes, command |-> agent.command]
          /\ UNCHANGED <<files, store>>
      BY <1>1, <1>3 DEF ReadArtifact
    <2> QED BY <1>2, <1>3, <2>1, <2>2, FailingStep
  <1>4. CASE bytes.ok
    <2>1. PICK v : v = bytes.value
      OBVIOUS
    <2>2. agent' = OneMore(agent, v) /\ UNCHANGED <<files, store, resolved>>
      BY <1>1, <1>4, <2>1 DEF ReadArtifact, OneMore
    <2>3. agent' = Operation("resolve", NextPart(agent.step), Append(agent.read, v),
                             agent.command, agent.entry, agent.validated,
                             agent.sound, agent.touched)
      BY <1>2, <2>2, ReadRecord
    <2>4. NextPart(agent.step) \in Parts \union {"check"}
      BY <1>2, NextPartType
    <2>5. /\ agent'.task = "resolve" /\ agent'.step = NextPart(agent.step)
          /\ agent'.read = Append(agent.read, v)
          /\ agent'.command = agent.command /\ agent'.entry = agent.entry
          /\ agent'.sound = agent.sound /\ agent'.touched = agent.touched
      <3>1. PICK s, q, c, e, w, g, u :
              /\ s = NextPart(agent.step) /\ q = Append(agent.read, v)
              /\ c = agent.command /\ e = agent.entry /\ w = agent.validated
              /\ g = agent.sound /\ u = agent.touched
        OBVIOUS
      <3>2. agent' = Operation("resolve", s, q, c, e, w, g, u)
        BY <2>3, <3>1
      <3>3. /\ agent'.task = "resolve" /\ agent'.step = s /\ agent'.read = q
            /\ agent'.command = c /\ agent'.entry = e
            /\ agent'.sound = g /\ agent'.touched = u
        BY <3>2, OperationFields
      <3> QED BY <3>1, <3>3
    <2>6. Undisturbed'
      <3> SUFFICES ASSUME agent.sound, ~agent.touched
                   PROVE  \E r \in Releases :
                            SoundRelease(r, agent.command, agent.entry)'
                            /\ ReadSoFar(r)'
        BY <2>5 DEF Undisturbed
      <3>1. PICK r \in Releases :
              SoundRelease(r, agent.command, agent.entry) /\ ReadSoFar(r)
        BY <1>2 DEF IInv, Undisturbed
      <3>2. v = r[agent.step]
        BY <1>1, <1>2, <2>1, <3>1, SoundRead
      <3>3. SoundRelease(r, agent.command, agent.entry)'
        BY <2>2, <2>5, <3>1 DEF SoundRelease
      <3>4. ReadSoFar(r)'
        <4>1. CASE agent.step = "ca"
          <5>1. agent.read = << >> /\ v = r.ca
            BY <3>1, <3>2, <4>1 DEF ReadSoFar
          <5>2. agent'.read = <<r.ca>>
            BY <2>5, <5>1
          <5>3. agent'.step = "certificate"
            BY <2>5, <4>1 DEF NextPart
          <5> QED BY <5>2, <5>3 DEF ReadSoFar
        <4>2. CASE agent.step = "certificate"
          <5>1. agent.read = <<r.ca>> /\ v = r.certificate
            BY <3>1, <3>2, <4>2 DEF ReadSoFar
          <5>2. agent'.read = <<r.ca, r.certificate>>
            BY <2>5, <5>1, AppendShort
          <5>3. agent'.step = "private_key"
            BY <2>5, <4>2 DEF NextPart
          <5> QED BY <5>2, <5>3 DEF ReadSoFar
        <4>3. CASE agent.step = "private_key"
          <5>1. agent.read = <<r.ca, r.certificate>> /\ v = r.private_key
            BY <3>1, <3>2, <4>3 DEF ReadSoFar
          <5>2. agent'.read = <<r.ca, r.certificate, r.private_key>>
            <6>1. PICK a, b, c : a = r.ca /\ b = r.certificate /\ c = r.private_key
              OBVIOUS
            <6>2. Append(<<a, b>>, c) = <<a, b, c>>
              BY AppendShort
            <6>3. agent.read = <<a, b>> /\ v = c
              BY <5>1, <6>1
            <6> QED BY <2>5, <6>1, <6>2, <6>3
          <5>3. agent'.step = "check"
            BY <2>5, <4>3 DEF NextPart
          <5> QED BY <5>2, <5>3 DEF ReadSoFar
        <4> QED BY <1>2, <4>1, <4>2, <4>3 DEF Parts
      <3> QED BY <3>3, <3>4
    <2>7. Kept' /\ store' # NoManifest
      BY <1>2, <2>2, SameStore
    <2> QED BY <1>2, <2>3, <2>4, <2>6, <2>7, ResolvingStep
  <1> QED BY <1>3, <1>4

\* The last check of a resolve, and the installation of what passed it.
LEMMA FinishResolveStep ==
  ASSUME IInv, FinishResolve
  PROVE  IInv'
  <1>1. PICK m : m = Materialized(agent.read)
    OBVIOUS
  <1>2. PICK result : result = CheckArtifact(agent.command, agent.entry, m)
    OBVIOUS
  <1>3. /\ agent.task = "resolve" /\ agent.command \in Commands /\ store # NoManifest
    BY DEF FinishResolve, IInv, TypeOK, TaskInv
  <1>4. /\ resolved' = [result |-> result, command |-> agent.command]
        /\ agent' = Up /\ UNCHANGED files
    BY <1>1, <1>2 DEF FinishResolve
  <1>5. CASE ~result.ok
    <2>1. result.value \in CatalogErrors
      BY <1>2, <1>5, Checked
    <2>2. UNCHANGED store
      BY <1>1, <1>2, <1>5 DEF FinishResolve
    <2> QED BY <1>3, <1>4, <1>5, <2>1, <2>2, FailingStep
  <1>6. CASE result.ok
    <2>1. /\ result.value = m
          /\ compute_artifact_digest(m) = agent.command.artifact_digest
          /\ agent.entry.credential_generation # 0
          /\ validate_credential_bytes(m,
               Identity(agent.entry.credential_generation)).ok
      BY <1>2, <1>6, Checked
    <2>2. PICK r \in Releases :
            agent.command.artifact_digest = compute_artifact_digest(r)
      BY <1>3, ReleasesAssumption
    <2>3. m = r
      BY <1>1, <2>1, <2>2, DigestOfOne
    <2>4. ResolvedIsOneRelease'
      BY <1>4, <2>1, <2>2, <2>3 DEF ResolvedIsOneRelease
    <2>5. store' # NoManifest /\ StoreUsable'
      <3>1. CASE store' = store
        BY <1>3, <3>1 DEF IInv, StoreUsable
      <3>2. CASE /\ store'.material = m
                 /\ store'.generation = agent.entry.credential_generation
        <4>1. store' # NoManifest
          BY <2>1, <3>2 DEF NoManifest
        <4>2. /\ m.certificate.key = m.private_key.key
              /\ m.certificate.issuer \in m.ca.roots
              /\ Identity(agent.entry.credential_generation) \in m.certificate.sans
          BY <2>1, Validated
        <4> QED BY <3>2, <4>1, <4>2 DEF StoreUsable, Identity
      <3>3. \/ store' = store
            \/ store' = [material |-> result.value,
                         digest |-> agent.command.artifact_digest,
                         generation |-> agent.entry.credential_generation]
        BY <1>1, <1>2 DEF FinishResolve
      <3> QED BY <2>1, <3>1, <3>2, <3>3
    <2>6. Kept'
      BY <1>4, <1>6, <2>4, <2>5 DEF IInv, Kept, FilesShape
    <2> QED BY <1>4, <2>5, <2>6, IdleStep
  <1> QED BY <1>5, <1>6

-----------------------------------------------------------------------------
(* The operator. *)

\* Whatever the operator does to the files of one slot: a resolve of another
\* slot still sees its files, and one of this slot is touched.
LEMMA OperatorStep ==
  ASSUME IInv, NEW slot,
         agent' = Touch(slot),
         files' = [sp \in Slots \X Parts |-> files'[sp]],
         \A s \in Slots, p \in Parts :
            s # slot => files'[<<s, p>>] = files[<<s, p>>],
         UNCHANGED <<store, resolved>>
  PROVE  IInv'
  <1>1. Kept'
    BY DEF IInv, TypeOK, Kept, FilesShape, ResolvedIsOneRelease, StoreUsable
  <1>2. CASE agent.task = "resolve" /\ agent.entry.slot = slot
    <2>1. /\ agent = Operation("resolve", agent.step, agent.read, agent.command,
                               agent.entry, agent.validated, agent.sound, agent.touched)
          /\ agent.step \in Parts \union {"check"} /\ agent.command \in Commands
          /\ store # NoManifest
      BY <1>2 DEF IInv, TypeOK, TaskInv, Shaped, Busy
    <2>2. PICK s, q, c, e, w, g, u :
            /\ s = agent.step /\ q = agent.read
            /\ c = agent.command /\ e = agent.entry /\ w = agent.validated
            /\ g = agent.sound /\ u = TRUE
      OBVIOUS
    <2>3. PICK op : op = agent
      OBVIOUS
    <2>4. PICK x : x = agent.touched
      OBVIOUS
    <2>5. op = Operation("resolve", s, q, c, e, w, g, x)
      BY <2>1, <2>2, <2>3, <2>4
    <2>6. [op EXCEPT !.touched = u] = Operation("resolve", s, q, c, e, w, g, u)
      BY <2>5, OperationAssign
    <2>7. agent' = [op EXCEPT !.touched = u]
      BY <1>2, <2>2, <2>3 DEF Touch
    <2>8. agent' = Operation("resolve", s, q, c, e, w, g, u)
      BY <2>6, <2>7
    <2>9. agent'.touched = u
      BY <2>8, OperationFields
    <2>10. Undisturbed'
      BY <2>2, <2>9 DEF Undisturbed
    <2>11. s \in Parts \union {"check"} /\ c \in Commands /\ store' # NoManifest
      BY <2>1, <2>2
    <2> QED BY <1>1, <2>8, <2>10, <2>11, ResolvingStep
  <1>3. CASE ~(agent.task = "resolve" /\ agent.entry.slot = slot)
    <2>1. agent' = agent
      BY <1>3 DEF Touch
    <2>2. Undisturbed'
      <3> SUFFICES ASSUME agent.task = "resolve", agent.sound, ~agent.touched
                   PROVE  \E r \in Releases :
                            SoundRelease(r, agent.command, agent.entry)'
                            /\ ReadSoFar(r)'
        BY <2>1 DEF Undisturbed
      <3>1. PICK r \in Releases :
              SoundRelease(r, agent.command, agent.entry) /\ ReadSoFar(r)
        BY DEF IInv, Undisturbed
      <3>2. SoundRelease(r, agent.command, agent.entry)'
        BY <1>3, <2>1, <3>1 DEF SoundRelease
      <3>3. ReadSoFar(r)'
        BY <2>1, <3>1 DEF ReadSoFar
      <3> QED BY <3>2, <3>3
    <2> QED BY <1>1, <2>1, <2>2 DEF IInv, Kept, TypeOK, Shaped, TaskInv
  <1> QED BY <1>2, <1>3

\* A file assigned leaves the others, and every slot with its three files.
LEMMA FileAssigned ==
  ASSUME FilesShape, NEW slot \in Slots, NEW part \in Parts, NEW f,
         files' = [files EXCEPT ![<<slot, part>>] = f]
  PROVE  /\ files' = [sp \in Slots \X Parts |-> files'[sp]]
         /\ \A s \in Slots, p \in Parts :
               s # slot => files'[<<s, p>>] = files[<<s, p>>]
  BY DEF FilesShape

\* A file is replaced.
LEMMA ReplaceFileStep ==
  ASSUME IInv, NEW slot \in Slots, NEW part \in Parts, NEW bytes,
         ReplaceFile(slot, part, bytes)
  PROVE  IInv'
  <1>1. PICK f : f = [type |-> "file", private |-> TRUE, bytes |-> bytes]
    OBVIOUS
  <1>2. files' = [files EXCEPT ![<<slot, part>>] = f]
    BY <1>1 DEF ReplaceFile
  <1>3. /\ files' = [sp \in Slots \X Parts |-> files'[sp]]
        /\ \A s \in Slots, p \in Parts :
              s # slot => files'[<<s, p>>] = files[<<s, p>>]
    BY <1>2, FileAssigned DEF IInv
  <1>4. agent' = Touch(slot) /\ UNCHANGED <<store, resolved>>
    BY DEF ReplaceFile
  <1> QED BY <1>3, <1>4, OperatorStep

\* A file is removed or turned into something else.
LEMMA SpoilFileStep ==
  ASSUME IInv, NEW slot \in Slots, NEW part \in Parts, NEW type,
         SpoilFile(slot, part, type)
  PROVE  IInv'
  <1>1. PICK f : files' = [files EXCEPT ![<<slot, part>>] = f]
    BY DEF SpoilFile
  <1>3. /\ files' = [sp \in Slots \X Parts |-> files'[sp]]
        /\ \A s \in Slots, p \in Parts :
              s # slot => files'[<<s, p>>] = files[<<s, p>>]
    BY <1>1, FileAssigned DEF IInv
  <1>4. agent' = Touch(slot) /\ UNCHANGED <<store, resolved>>
    BY DEF SpoilFile
  <1> QED BY <1>3, <1>4, OperatorStep

\* The key becomes readable for others.
LEMMA ExposeKeyStep ==
  ASSUME IInv, NEW slot \in Slots, ExposeKey(slot)
  PROVE  IInv'
  <1>1. PICK f : files' = [files EXCEPT ![<<slot, "private_key">>] = f]
    BY DEF ExposeKey
  <1>2. "private_key" \in Parts
    BY DEF Parts
  <1>3. /\ files' = [sp \in Slots \X Parts |-> files'[sp]]
        /\ \A s \in Slots, p \in Parts :
              s # slot => files'[<<s, p>>] = files[<<s, p>>]
    BY <1>1, <1>2, FileAssigned DEF IInv
  <1>4. agent' = Touch(slot) /\ UNCHANGED <<store, resolved>>
    BY DEF ExposeKey
  <1> QED BY <1>3, <1>4, OperatorStep

\* A slot is swapped for a release.
LEMMA ReplaceSlotStep ==
  ASSUME IInv, NEW slot \in Slots, NEW release, ReplaceSlot(slot, release)
  PROVE  IInv'
  <1>1. DOMAIN files = Slots \X Parts
    BY DEF IInv, FilesShape
  <1>2. /\ files' = [sp \in Slots \X Parts |-> files'[sp]]
        /\ \A s \in Slots, p \in Parts :
              s # slot => files'[<<s, p>>] = files[<<s, p>>]
    BY <1>1 DEF ReplaceSlot
  <1> QED BY <1>2, OperatorStep DEF ReplaceSlot

-----------------------------------------------------------------------------
(* The theorems. *)

\* A step that changes nothing keeps the invariant.
LEMMA StutterStep ==
  ASSUME IInv, UNCHANGED vars
  PROVE  IInv'
  BY DEF vars, IInv, TypeOK, Shaped, FilesShape, TaskInv, ResolvedIsOneRelease,
         StoreUsable, Undisturbed, SoundRelease, ReadSoFar

\* The inductive invariant holds of every reachable state, one action at a time.
THEOREM Invariance == Spec => []IInv
  <1>1. Init => IInv
    BY InitIInv
  <1>2. IInv /\ [Next]_vars => IInv'
    <2> SUFFICES ASSUME IInv, [Next]_vars
                 PROVE  IInv'
      OBVIOUS
    <2>1. CASE UNCHANGED vars
      BY <2>1, StutterStep
    <2>2. CASE Next
      BY <2>2, OpenFreshStep, ReadBootstrapStep, ValidateBootstrapStep, InitializeStep,
         OpenExistingStep, ResolveStep, ReadArtifactStep, FinishResolveStep, CrashStep,
         ReplaceFileStep, SpoilFileStep, ExposeKeyStep, ReplaceSlotStep,
         ReplaceCatalogStep
         DEF Next
    <2> QED BY <2>1, <2>2
  <1> QED BY <1>1, <1>2, PTL DEF Spec

\* Type correctness: a resolve answers only with errors the agent classifies, and
\* only an initialised store is served (catalog.rs resolve, agent.rs open).
THEOREM CatalogTyped == Spec => []TypeOK
  <1>1. IInv => TypeOK
    BY DEF IInv
  <1> QED BY <1>1, Invariance, PTL

\* No torn artifact: what resolve returns is one release, the one the command
\* names, however the files change between its reads (catalog.rs resolve).
THEOREM NoTornArtifact == Spec => []ResolvedIsOneRelease
  <1>1. IInv => ResolvedIsOneRelease
    BY DEF IInv
  <1> QED BY <1>1, Invariance, PTL

\* What becomes the current credential can open a session, although a first start
\* reads its files twice (agent.rs open, material.rs validate_credential_bytes).
THEOREM UsableStore == Spec => []StoreUsable
  <1>1. IInv => StoreUsable
    BY DEF IInv
  <1> QED BY <1>1, Invariance, PTL

\* A resolve of a published artifact that nobody touches does not fail
\* (catalog.rs resolve).
LEMMA UndisturbedStep ==
  ASSUME IInv, Next, agent.task = "resolve", agent'.task = "up",
         agent.sound, ~agent.touched
  PROVE  resolved'.result.ok
  <1>1. PICK r \in Releases :
          SoundRelease(r, agent.command, agent.entry) /\ ReadSoFar(r)
    BY DEF IInv, Undisturbed
  <1>2. agent # Up /\ agent # Down
    BY DEF Up, Down
  <1>3. CASE ReadArtifact
    <2>1. agent.step \in Parts
      BY <1>3 DEF ReadArtifact, IInv, Shaped, Busy
    <2>2. read_catalog_file(agent.entry, agent.step,
                            files[<<agent.entry.slot, agent.step>>]).ok
      BY <1>1, <2>1, SoundRead
    <2>3. PICK v : agent' = OneMore(agent, v)
      BY <1>3, <2>2 DEF ReadArtifact, OneMore
    <2>4. agent = Operation("resolve", agent.step, agent.read, agent.command,
                            agent.entry, agent.validated, agent.sound, agent.touched)
      BY DEF IInv, Shaped, Busy
    <2>5. PICK s, q, c, e, w, g, u : agent = Operation("resolve", s, q, c, e, w, g, u)
      BY <2>4
    <2>6. agent' = Operation("resolve", NextPart(s), Append(q, v), c, e, w, g, u)
      BY <2>3, <2>5, ReadRecord
    <2>7. agent'.task = "resolve"
      BY <2>6, OperationFields
    <2> QED BY <2>7
  <1>4. CASE FinishResolve
    <2>1. Materialized(agent.read) = r
      BY <1>1, <1>4, MaterializedRelease DEF FinishResolve, ReadSoFar
    <2>2. CheckArtifact(agent.command, agent.entry, r).ok
      BY <1>1, SoundCheck
    <2> QED BY <1>4, <2>1, <2>2 DEF FinishResolve
  <1>5. ASSUME NEW slot, agent' = Touch(slot)
        PROVE  FALSE
    <2>1. agent = Operation("resolve", agent.step, agent.read, agent.command,
                            agent.entry, agent.validated, agent.sound, agent.touched)
      BY DEF IInv, Shaped, Busy
    <2>2. PICK u : u = TRUE
      OBVIOUS
    <2>3. [agent EXCEPT !.touched = u].task = "resolve"
      BY <2>1, OperationAssign, OperationFields
    <2> QED BY <1>5, <2>2, <2>3 DEF Touch
  <1>6. CASE OpenFresh \/ OpenExisting \/ \E command \in Commands : Resolve(command)
    BY <1>2, <1>6 DEF OpenFresh, OpenExisting, Resolve
  <1>7. CASE ReadBootstrap \/ ValidateBootstrap \/ Initialize
    BY <1>7 DEF ReadBootstrap, ValidateBootstrap, Initialize
  <1>8. CASE Crash
    BY <1>8 DEF Crash, Down
  <1>9. CASE \E c \in Catalogs : ReplaceCatalog(c)
    BY <1>9 DEF ReplaceCatalog
  <1>10. ASSUME NEW slot, NEW part, NEW x,
                \/ ReplaceFile(slot, part, x) \/ SpoilFile(slot, part, x)
                \/ ReplaceSlot(slot, x) \/ ExposeKey(slot)
         PROVE  FALSE
    BY <1>5, <1>10 DEF ReplaceFile, SpoilFile, ReplaceSlot, ExposeKey
  <1> QED
    BY <1>3, <1>4, <1>6, <1>7, <1>8, <1>9, <1>10 DEF Next

\* The action property: only a change of an artifact's own files turns a resolve of
\* a properly published artifact into a rejection, which the agent would record for
\* good (catalog.rs resolve).
THEOREM UndisturbedResolve == Spec => UndisturbedResolves
  <1>1. IInv /\ [Next]_vars =>
          [agent.task = "resolve" /\ agent'.task = "up" /\ agent.sound
             /\ ~agent.touched => resolved'.result.ok]_vars
    BY UndisturbedStep
  <1> QED BY <1>1, Invariance, PTL DEF Spec, UndisturbedResolves

=============================================================================
