--------------------------- MODULE ArtifactCatalog ---------------------------
(***************************************************************************)
(* Where the agent's credential material comes from: ArtifactCatalog       *)
(* (catalog.rs), the validation of material (material.rs) and the two ways *)
(* ReferenceDeviceAgent::open meets it (agent.rs).  Every read of a file   *)
(* is a step of its own, and the operator of the device replaces files and *)
(* catalog between them.                                                   *)
(*                                                                         *)
(* A slot is a place that holds a CA, a certificate and a key file.  Bytes *)
(* are records: pem says that they parse, and the rest is what the parser  *)
(* finds.  The digest is ideal: it is the bytes it covers, in order.       *)
(***************************************************************************)
EXTENDS Results, Naturals, SequencesExt

CONSTANTS
  None,
  Device,
  BootstrapGeneration,  \* config: generation of the bootstrap credential
  Bootstrap,     \* the slot of the bootstrap credential
  Slots,         \* slots, the bootstrap's and the catalog's
  Releases,      \* materials issued as one: records of the bytes of each part
  Garbage,       \* bytes that do not parse
  InitialFiles,  \* the files before the agent first starts
  Catalogs,      \* contents the operator may give the catalog file
  Commands,      \* commands: artifact_id, artifact_digest and position
  MaxChanges     \* bound of the model: the operator's changes

Parts == {"ca", "certificate", "private_key"}

ASSUME CatalogAssumption ==
  /\ Bootstrap \in Slots /\ MaxChanges \in Nat
  /\ BootstrapGeneration \in Nat \ {0}
  /\ InitialFiles = [sp \in Slots \X Parts |-> InitialFiles[sp]]

VARIABLES
  files,     \* the file at each slot and part
  catalog,   \* the content of the catalog file
  store,     \* the current revision: its material and the recorded digest
  agent,     \* the operation under way
  resolved,  \* what the last resolve returned, None before
  changes

vars == <<files, catalog, store, agent, resolved, changes>>

-----------------------------------------------------------------------------
(* Material. *)

Identity(generation) == [device |-> Device, generation |-> generation]

\* Mutant: the digest leaves out the CA.
DigestWithoutCa(m) == <<m.certificate, m.private_key>>

compute_artifact_digest(m) == <<m.ca, m.certificate, m.private_key>>

Parses(m) == \A p \in Parts : m[p].pem

\* Mutant: the key is not compared with the certificate.
AnyKeyMatches(m) == TRUE

verify_key_matches(m) == m.certificate.key = m.private_key.key

verify_chain(m) == m.certificate.issuer \in m.ca.roots /\ m.certificate.current

verify_identity(m, identity) == identity \in m.certificate.sans

validate_credential_bytes(m, identity) ==
  IF ~Parses(m) THEN Err("MalformedCredential")
  ELSE IF ~verify_key_matches(m) THEN Err("MalformedCredential")
  ELSE IF ~verify_chain(m) THEN Err("Untrusted")
  ELSE IF ~verify_identity(m, identity) THEN Err("IdentityMismatch")
  ELSE Ok(m)

\* What it means that a release was issued as one, and that a command names one:
\* the control plane signs key and certificate together, under a root that it
\* ships with them, and puts the digest of that release in the command.
ASSUME ReleasesAssumption ==
  /\ \A r \in Releases :
        /\ r = [ca |-> r.ca, certificate |-> r.certificate, private_key |-> r.private_key]
        /\ Parses(r) /\ verify_key_matches(r)
        /\ r.certificate.issuer \in r.ca.roots
        /\ compute_artifact_digest(r) # None
  /\ \A command \in Commands : \E r \in Releases :
        command.artifact_digest = compute_artifact_digest(r)

\* fs::metadata and fs::read follow a symbolic link.
require_private_key_mode(f) ==
  IF f.type = "missing" THEN Err("CredentialUnavailable")
  ELSE IF ~f.private THEN Err("InsecurePrivateKey") ELSE Ok(f)

ReadPath(f) ==
  IF f.type \in {"missing", "directory"} THEN Err("CredentialUnavailable")
  ELSE Ok(f.bytes)

-----------------------------------------------------------------------------
(* The catalog. *)

\* contained: the three paths are relative, non-empty and never go up.
validated_relative_path(entry) == entry.contained

read_catalog_file(entry, part, f) ==
  IF ~validated_relative_path(entry) THEN Err("MalformedCatalog")
  ELSE IF f.type = "missing" THEN Err("Unavailable")
  ELSE IF f.type # "file" THEN Err("MalformedCatalog")
  ELSE IF part = "private_key" /\ ~f.private THEN Err("InsecurePrivateKey")
  ELSE Ok(f.bytes)

\* position stands for desired generation, fence, intent digest, policy hash.
validate_binding(command, entry) ==
  IF entry.device = Device /\ entry.position = command.position
  THEN Ok(entry) ELSE Err("BindingMismatch")

\* resolve up to the first file: a catalog that does not parse has version 0.
FindEntry(c, command) ==
  LET i == SelectInSeq(c.artifacts,
                       LAMBDA e : e.artifact_id = command.artifact_id)
  IN IF c.schema_version # 1 THEN Err("MalformedCatalog")
     ELSE IF i = 0 THEN Err("NotFound")
     ELSE Then(validate_binding(command, c.artifacts[i]),
               IF c.artifacts[i].revoked THEN Err("Revoked")
               ELSE Ok(c.artifacts[i]))

\* Mutant: the certificate is checked for the generation in use.
CheckArtifactForCurrent(command, entry, m) ==
  IF \/ compute_artifact_digest(m) # command.artifact_digest
     \/ compute_artifact_digest(m) # entry.artifact_digest
  THEN Err("DigestMismatch")
  ELSE validate_credential_bytes(m, Identity(BootstrapGeneration))

\* resolve after the last file; a declared digest that is none is None.
CheckArtifact(command, entry, m) ==
  IF entry.artifact_digest = None THEN Err("MalformedCatalog")
  ELSE IF \/ compute_artifact_digest(m) # command.artifact_digest
          \/ compute_artifact_digest(m) # entry.artifact_digest
  THEN Err("DigestMismatch")
  ELSE IF entry.credential_generation = 0 THEN Err("MalformedCatalog")
  ELSE validate_credential_bytes(m, Identity(entry.credential_generation))

-----------------------------------------------------------------------------
(* The agent.  step is the next file to read; read collects the bytes.  The *)
(* last two fields belong to the properties: the artifact was sound when    *)
(* the operation began, and its slot has been touched since.                *)

\* The state directory before its first manifest: no revision is current.
NoManifest == [generation |-> 0]

Down == [task |-> "down"]
Up == [task |-> "up"]

Reading(task, command, entry, sound) ==
  [task |-> task, step |-> "ca", read |-> << >>, command |-> command,
   entry |-> entry, validated |-> None, sound |-> sound, touched |-> FALSE]

NextPart(part) ==
  CASE part = "ca" -> "certificate" [] part = "certificate" -> "private_key"
    [] part = "private_key" -> "check"

Materialized(read) ==
  [ca |-> read[1], certificate |-> read[2], private_key |-> read[3]]

Init ==
  /\ files = InitialFiles
  /\ catalog \in Catalogs
  /\ store = NoManifest /\ agent = Down /\ resolved = None /\ changes = 0

\* A first start: mode of the key, three reads, validation, three reads again
\* for the digest, then revision and manifest.
OpenFresh ==
  /\ agent = Down /\ store = NoManifest
  /\ LET mode == require_private_key_mode(files[<<Bootstrap, "private_key">>])
     IN agent' = IF mode.ok THEN Reading("validate", None, None, FALSE) ELSE Down
  /\ UNCHANGED <<files, catalog, store, resolved, changes>>

ReadBootstrap ==
  /\ agent.task \in {"validate", "digest"} /\ agent.step # "check"
  /\ LET bytes == ReadPath(files[<<Bootstrap, agent.step>>])
     IN agent' = IF bytes.ok
                 THEN [agent EXCEPT !.read = Append(@, bytes.value),
                                    !.step = NextPart(@)]
                 ELSE Down
  /\ UNCHANGED <<files, catalog, store, resolved, changes>>

ValidateBootstrap ==
  /\ agent.task = "validate" /\ agent.step = "check"
  /\ LET m == Materialized(agent.read)
     IN agent' = IF validate_credential_bytes(m, Identity(BootstrapGeneration)).ok
                 THEN [Reading("digest", None, None, FALSE)
                         EXCEPT !.validated = m]
                 ELSE Down
  /\ UNCHANGED <<files, catalog, store, resolved, changes>>

\* Mutant: the agent serves before the manifest is written.
ServeUninitialized ==
  /\ agent.task = "digest" /\ agent.step = "check"
  /\ agent' = Up
  /\ UNCHANGED <<files, catalog, store, resolved, changes>>

Initialize ==
  /\ agent.task = "digest" /\ agent.step = "check"
  /\ store' = [material |-> agent.validated,
               digest |-> compute_artifact_digest(Materialized(agent.read)),
               generation |-> BootstrapGeneration]
  /\ agent' = Up
  /\ UNCHANGED <<files, catalog, resolved, changes>>

\* Nobody else writes the agent's own revision directories.
OpenExisting ==
  /\ agent = Down /\ store # NoManifest
  /\ agent' = IF /\ validate_credential_bytes(store.material,
                                              Identity(store.generation)).ok
                 /\ compute_artifact_digest(store.material) = store.digest
              THEN Up ELSE Down
  /\ UNCHANGED <<files, catalog, store, resolved, changes>>

\* The entry names a generation and a slot, and the slot holds exactly the
\* release the command names, readable and private.
SoundRelease(r, command, entry) ==
  /\ entry.slot \in Slots /\ entry.credential_generation # 0
  /\ compute_artifact_digest(r) = command.artifact_digest
  /\ compute_artifact_digest(r) = entry.artifact_digest
  /\ Identity(entry.credential_generation) \in r.certificate.sans
  /\ r.certificate.current /\ entry.contained
  /\ \A p \in Parts : files[<<entry.slot, p>>] =
        [type |-> "file", private |-> TRUE, bytes |-> r[p]]

SoundArtifact(command, entry) ==
  \E r \in Releases : SoundRelease(r, command, entry)

Resolve(command) ==
  /\ agent = Up
  /\ LET found == IF catalog = None THEN Err("Unavailable")
                  ELSE FindEntry(catalog, command)
     IN IF found.ok
        THEN /\ agent' = Reading("resolve", command, found.value,
                                 SoundArtifact(command, found.value))
             /\ UNCHANGED resolved
        ELSE /\ agent' = Up
             /\ resolved' = [result |-> found, command |-> command]
  /\ UNCHANGED <<files, catalog, store, changes>>

ReadArtifact ==
  /\ agent.task = "resolve" /\ agent.step # "check"
  /\ LET bytes == read_catalog_file(agent.entry, agent.step,
                                    files[<<agent.entry.slot, agent.step>>])
     IN IF bytes.ok
        THEN /\ agent' = [agent EXCEPT !.read = Append(@, bytes.value),
                                       !.step = NextPart(@)]
             /\ UNCHANGED resolved
        ELSE /\ agent' = Up
             /\ resolved' = [result |-> bytes, command |-> agent.command]
  /\ UNCHANGED <<files, catalog, store, changes>>

\* A resolved artifact of a later generation is installed as the next revision;
\* the agent's other checks of a command are those of DeviceAgent.
FinishResolve ==
  /\ agent.task = "resolve" /\ agent.step = "check"
  /\ LET result == CheckArtifact(agent.command, agent.entry,
                                 Materialized(agent.read))
     IN /\ resolved' = [result |-> result, command |-> agent.command]
        /\ store' = IF result.ok /\ agent.entry.credential_generation > store.generation
                    THEN [material |-> result.value,
                          digest |-> agent.command.artifact_digest,
                          generation |-> agent.entry.credential_generation]
                    ELSE store
  /\ agent' = Up
  /\ UNCHANGED <<files, catalog, changes>>

Crash ==
  /\ agent # Down
  /\ agent' = Down
  /\ UNCHANGED <<files, catalog, store, resolved, changes>>

-----------------------------------------------------------------------------
(* The operator. *)

Touch(slot) ==
  IF agent.task = "resolve" /\ agent.entry.slot = slot
  THEN [agent EXCEPT !.touched = TRUE] ELSE agent

ReplaceFile(slot, part, bytes) ==
  /\ changes < MaxChanges
  /\ files' = [files EXCEPT ![<<slot, part>>] =
                 [type |-> "file", private |-> TRUE, bytes |-> bytes]]
  /\ agent' = Touch(slot)
  /\ changes' = changes + 1
  /\ UNCHANGED <<catalog, store, resolved>>

\* A directory is swapped for another: all three files change at once.
ReplaceSlot(slot, release) ==
  /\ changes < MaxChanges
  /\ files' = [sp \in DOMAIN files |->
        IF sp[1] = slot
        THEN [type |-> "file", private |-> TRUE, bytes |-> release[sp[2]]]
        ELSE files[sp]]
  /\ agent' = Touch(slot)
  /\ changes' = changes + 1
  /\ UNCHANGED <<catalog, store, resolved>>

\* The file is removed, or turned into a link or a directory.
SpoilFile(slot, part, type) ==
  /\ changes < MaxChanges
  /\ files' = [files EXCEPT ![<<slot, part>>].type = type]
  /\ agent' = Touch(slot)
  /\ changes' = changes + 1
  /\ UNCHANGED <<catalog, store, resolved>>

\* Others may read the key.
ExposeKey(slot) ==
  /\ changes < MaxChanges
  /\ files' = [files EXCEPT ![<<slot, "private_key">>].private = FALSE]
  /\ agent' = Touch(slot)
  /\ changes' = changes + 1
  /\ UNCHANGED <<catalog, store, resolved>>

ReplaceCatalog(c) ==
  /\ changes < MaxChanges /\ c # catalog
  /\ catalog' = c
  /\ changes' = changes + 1
  /\ UNCHANGED <<files, store, agent, resolved>>

Next ==
  \/ OpenFresh \/ ReadBootstrap \/ ValidateBootstrap \/ Initialize
  \/ OpenExisting
  \/ \E command \in Commands : Resolve(command)
  \/ ReadArtifact \/ FinishResolve
  \/ Crash
  \/ \E slot \in Slots, part \in Parts :
        \/ \E bytes \in {r[part] : r \in Releases} \union {Garbage} :
              ReplaceFile(slot, part, bytes)
        \/ \E type \in {"missing", "symlink", "directory"} :
              SpoilFile(slot, part, type)
  \/ \E slot \in Slots, release \in Releases : ReplaceSlot(slot, release)
  \/ \E slot \in Slots : ExposeKey(slot)
  \/ \E c \in Catalogs : ReplaceCatalog(c)

Spec == Init /\ [][Next]_vars

-----------------------------------------------------------------------------
(* Properties. *)

CatalogErrors ==
  {"NotFound", "Unavailable", "DigestMismatch", "BindingMismatch", "Revoked",
   "Untrusted", "IdentityMismatch", "MalformedCatalog", "MalformedCredential",
   "InsecurePrivateKey"}

\* resolve answers with one of the errors the agent classifies, never with the
\* one only the bootstrap meets, and works only for an open store.
TypeOK ==
  /\ agent.task \in {"down", "up", "validate", "digest", "resolve"}
  /\ agent.task \in {"up", "resolve"} => store # NoManifest
  /\ resolved # None =>
       resolved.result.ok \/ resolved.result.value \in CatalogErrors

\* No torn artifact: whatever the operator replaces while catalog, CA,
\* certificate and key are read one after the other, a resolved artifact is, in
\* all three parts, one release, the one whose digest the command carries
\* (catalog.rs resolve, compute_artifact_digest_bytes).
ResolvedIsOneRelease ==
  resolved # None /\ resolved.result.ok =>
     \E r \in Releases :
        /\ resolved.result.value = r
        /\ resolved.command.artifact_digest = compute_artifact_digest(r)

\* What becomes the current credential can open a session whatever was replaced
\* meanwhile: the key is the certificate's, the CA in the same revision issued
\* it, and it names the device and the generation the manifest says
\* (material.rs validate_credential_bytes).
StoreUsable ==
  store # NoManifest =>
     /\ store.material.certificate.key = store.material.private_key.key
     /\ store.material.certificate.issuer \in store.material.ca.roots
     /\ Identity(store.generation) \in store.material.certificate.sans

\* A resolution of an artifact that was published properly succeeds unless its
\* own files are touched before it ends: a catalog rewritten meanwhile, another
\* slot refilled, or an old generation in use never turn it into a rejection,
\* which the agent would record for good (catalog.rs resolve).
UndisturbedResolves ==
  [][agent.task = "resolve" /\ agent'.task = "up" /\ agent.sound /\ ~agent.touched
       => resolved'.result.ok]_vars

\* The manifest records the digest of the credential it was initialised from, so
\* that the next open accepts it (agent.rs open).
ManifestDigestMatches ==
  store # NoManifest => store.digest = compute_artifact_digest(store.material)

=============================================================================
