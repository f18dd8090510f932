# Verification of secure device rotation

TLA+ models, TLC runs and TLAPS proofs for `rss-incubator`. The centre is the
reference device agent: a process on a device that receives credential rotation
commands over MQTT, installs the new credential durably, acknowledges the
command, reconnects with the new credential and reports it. It must do so once
and in order although the process, the connection and every acknowledgement may
fail at any point. Around it are the files its credentials come from, the channel
its commands come through, the operator's tool that asks for a rotation, and the
observer that judges one from outside.

## 1. Inventory

| Component | State it keeps | Operations | Talks to |
|---|---|---|---|
| `reference-device-agent-core/state.rs` | manifest `state.v1.json` (position, device sequence, command journal, outbox, `reconnect_revision`, `pending_inbound`), revision directories | open, load, persist, `install_revision`, `verify`, accept, reject, replay, confirm, reconnect, settle, expire | file system |
| `agent.rs` | one `StateV1` in memory, equal to the manifest | `apply_command`, `reject_malformed_delivery`, `confirm_outbound`, `mark_current_credential_connected`, `mark_pending_inbound_settled/absent`, queries | state, catalog |
| `reference-device-agent/main.rs` | `SessionState` of one MQTT session | one handler per MQTT event, publish loop, shutdown, retry | agent, MQTT client |
| `mqtt.rs` | queued requests, packet-id maps, recovery scope | subscribe, unsubscribe, publish, acknowledge, poll, `command_delivery` | broker |
| `catalog.rs`, `material.rs` | none (files) | resolve and validate an artifact | file system |
| `assertion.rs`, `deploy/mosquitto/plugin.c` | keys | verify, sign one delivery | broker, client |
| `wire.rs`, `types.rs`, `config.rs` | none | decode, validate | |
| `rotation-control` | one login attempt | PKCE login with one deadline, rotate, status, audit | OIDC provider, server |
| `rss-device-security-client`, `rotation-model` | none | map and correlate contract DTOs, validate product values | |
| `journeys/`, `scripts/reference-environment.py`, smoke crates, fixtures | test environment | provision, run | containers |

How they interact. The driver polls the MQTT client for one event at a time and
calls one operation of the agent; that operation builds a candidate state,
validates it, renames it into place and only then replaces its memory. The
broker's PUBACK for a published fact confirms the fact; the driver's own PUBACK
for a command is queued after the command is durable, and held back behind an
UNSUBACK when the command was accepted, when the intake is closed or during
shutdown. The broker keeps a persistent session (`clean_start = false`, receive
maximum 1, manual PUBACK), so it redelivers what was not acknowledged to
whichever session comes next.

What is hard here: crashes between the durable writes of a commit; the order of
ACK PUBACK, UNSUBACK and inbound PUBACK, of which the last one must end the old
session; redelivery on the *old* topic to a session that authenticates with the
*new* credential; facts replayed after a restart; journal entries that expire
while their command is unsettled; two limits that close the intake; shutdown in
the middle of any of it; files that change between two reads; two languages that
must agree on what a command is; a request that is committed after its caller
gave up; copies of events of several rotations. `PROJECT.json` lists each of these at its line.

What makes each part correct:

* store: the credential the manifest names is on disk; revisions are never
  overwritten; every crash leaves something the next start accepts;
* agent: the position only moves forward; facts leave the outbox only when
  confirmed; the report waits for ACK confirmation, reconnect and settlement;
  an open intake has room for any delivery; the final validation is not what
  the handlers rely on;
* session: packets in whatever order stop the process only at its command intake,
  in the circumstances section 3 names; a report is sent by a session that
  uses the credential it reports; an acknowledged command is durable; nothing of
  the old topic is left at the broker; the rotation is reported, commands are
  answered, the device listens again;
* catalog and material: what is resolved is one release and never a mixture of
  two; what is installed can be used by the next start; an artifact nobody
  touches resolves;
* command channel: only what the service published and the plugin signed is
  accepted, and all of it is: a frame the agent cannot take would stop it at
  every redelivery;
* rotation control: one deadline for a login and one request per invocation; an
  exit code that says "failed" is true for ever, a printed record is true, and a
  repeated rotation with the same key agrees with the first;
* wire adapter, client, journey: what the device says is what the operator's
  side reads; a trace verifies only if its parts belong to one rotation, and
  every copy of a good trace does.

## 2. Modules

| Module | Models | How |
|---|---|---|
| `StateV1` | `state.rs`, struct `StateV1` | pure operators on a state record; `verify` as a conjunction of named checks |
| `AgentHandlers` | `agent.rs` | each operation as a function from state to `Effect` (new state and result) |
| `DeviceAgent` | `agent.rs` on `StateStore` | state machine: open, first start, `apply_command` split at `install_revision`, the other handlers, crash, clock |
| `RotationHandoff` | what the agent promises about one rotation | abstract specification, refined by `DeviceAgent` |
| `SessionDriver` | `main.rs` event handlers, `mqtt.rs` requests | functions from the context of a session to the context after an event |
| `AgentSession` | `main`, sessions, broker, server, network | state machine that composes `SessionDriver` with an external broker and server |
| `ArtifactCatalog` | `catalog.rs`, `material.rs`, `open` of `agent.rs` | state machine: every read of a file is a step, the operator changes files and catalog between them |
| `CommandChannel` | `plugin.c`, `assertion.rs`, `command_delivery` of `mqtt.rs`, `decode_command` of `wire.rs`, identities of `types.rs` | state machine: publish through the plugin, hold, poll, rotate |
| `Results` | Rust's `Result` and `?` | three operators |
| `RotationModel` | constructors of `rotation-model` that may refuse | pure operators |
| `DeviceSecurityClient` | `rss-device-security-client` | pure operators: requests, classification of replies, event mappings |
| `RotationControl` | `rotation-control` | state machine: invocations, login stages, deadlines, callback listener, service |
| `WireAdapter` | `encode_*` of `wire.rs` | pure operators |
| `RotationTrace` | `journeys/secure-device-rotation`, composing `AgentHandlers`, `WireAdapter`, `DeviceSecurityClient` | state machine: agent, broker, service, observer |
| `HandlerProofs` | lemmas about `StateV1` and `AgentHandlers` | TLAPS: what one call of a handler does |
| `DeviceAgentProofs` | theorems about `DeviceAgent` | TLAPS: store, action properties, refinement; candidates and limits |
| `AgentSessionProofs`, `AgentTopicProofs` | theorems about `AgentSession` | TLAPS: sessions; a rotation across sessions and what stops the process |
| `ArtifactCatalogProofs`, `CommandChannelProofs`, `RotationControlProofs`, `RotationTraceProofs` | theorems about the module named | TLAPS |
| `MC*` | instances for TLC | |

Definitions carry the names of the functions they translate. An operator whose
comment begins with "Mutant" or "A mutation" is not part of the model: it is a
plausible bug in the definition it precedes, and `PROJECT.json` names the
property that catches it.

### DeviceAgent

`state` is the manifest, `installed` the committed revision directories,
`process` where the process is, `committing` the command between
`install_revision` and `persist`, `now` the clock. The driver is not modelled
here: every operation may be called with every argument at any time, so what
holds does not depend on the driver. While a process runs its memory equals the
manifest, and one variable stands for both; a failure to sync after the rename
is a crash after the handler. `CommitInstall` and `CommitPersist` are two steps
because a crash between them is visible on disk; every other handler has one
durable write and is one step.

Abstractions: tenant and device are fixed, so a topic is the credential
generation in it; SHA-256 is injective; timestamps and the coordinates an ACK
echoes are left out; the catalog's answer is any of `CatalogAnswers`; credential
expiry at `open` is left out.

### AgentSession

`driver` is the `SessionDriver` of the running session, `requests` the packets
queued in the client, `inbox` what the driver has yet to poll, `sent` the
outgoing-PUBACK event that the event loop hands out before it reads or writes
again. The broker is external: it answers a packet as it takes it, redelivers
the command in flight right after CONNACK, and keeps what it has queued across
an UNSUBSCRIBE. A request on a broken link is lost; a link failure loses any
suffix of the packets on their way. The server sends the messages of `Script`
in order and awaits the report of a rotation before it goes on; it may send
rejected commands and the rotation behind them without waiting. The commit is
atomic here and the clock stands still (both are `DeviceAgent`'s subject), the
catalog resolves every command, and the broker session does not expire. `failed`
is a process that ended with an error `main` does not retry; it is not restarted
in the model.

### ArtifactCatalog

`files` maps a slot and a part (CA, certificate, key) to a file with its type,
mode and bytes; `agent` is the operation under way with the bytes it has read so
far. `OpenFresh`, `ReadBootstrap`, `ValidateBootstrap`, `ReadBootstrap` again and
`Initialize` are the branch of `open` without a manifest, split into its file accesses,
`OpenExisting` the other branch, `Resolve`, `ReadArtifact` and `FinishResolve`
are `ArtifactCatalog::resolve`. Bytes are what the parser finds in them (roots,
issuer, key, names), so all checks keep their order without X.509. The digest is
the bytes it covers. If a catalog lists an artifact id twice, the first entry
counts, as `find` does it. The agent's revision directories are its own: nobody
else writes them.

### CommandChannel

A frame is a record; `on_message` of the plugin refuses it, passes it, or adds
the three assertion properties, of which the signature is the record of the
covered fields (Ed25519 and SHA-256 ideal, `append_field` unambiguous). `Unvetted`
puts frames into the broker that did not pass the plugin and carry an assertion
copied from one that did. Rotation and settlement change the session's identity
and recovery scope as `AgentSession` has it in detail. Texts (command ids) are
model values sorted by their defects.

### RotationControl

`cli` is the running process with its stage and deadlines, `conn` the connection
its loopback listener reads, `windows` the browser windows of all logins so far,
`net` requests the service has yet to handle, `service` what it has committed,
`log` how invocations ended. State, nonce and PKCE verifier are fresh per login,
so the number of the invocation stands for all three. The service may handle a
request after the caller has given up; a proxy may spoil any reply. The service is
modelled from the contract: a PUT is conditional on the expected generation and
remembers its idempotency key. `browser.open` is a synchronous call: while it
blocks (stage `browser`), `timeout_at` is not polled, `LoginTimeout` cannot fire and
the clock may pass the login's deadline. How long it can block is outside the code
and a constant, `BrowserLimit`; a text browser that keeps the terminal would make
it as long as the user likes. Reading of input files, the set-up of the HTTP
client and the stage named in diagnostics are left out.

### RotationTrace

The agent is that of `AgentHandlers` without time; its facts are encoded by
`WireAdapter` and copied into `uplink`, from which the service and the observer
take them in any order and any number of times. The observer's verdict is
`verify_positive_trace` of the journey over *every* choice of copies. Sequences
are u64 in the agent and i64 on the wire; in the model the bounds are 9 and 4, so
that both limits are met. All commands here are decodable, so their ids are valid
references (`TraceAssumption`); section 4 says what becomes of the others.

## 3. Runs

| Run | Instance | Shows |
|---|---|---|
| `rotation` | two rotations, a stale-fence variant, a malformed payload; outbox 4, journal 2; 193 000 states | store and handler invariants, action properties, refinement of `RotationHandoff` |
| `retention` | journal and outbox at their limits while the clock passes the retention; 298 000 states | capacity, expiry, validation |
| `pending_expiry` | one rotation and a clock | finding 1 |
| `session` | `Crowded`, 5 failures, outbox 4, journal 4; 44 000 states | session safety |
| `progress` | `Pipelined`, 3 failures, outbox 3; 17 000 states | liveness |
| `resubscribe` | `Pipelined`, 1 failure | finding 2 |
| `in_flight_intake` | `TwoRotations`, 3 failures | finding 3 |
| `catalog` | four releases, two slots, twelve catalogs, two changes by the operator; 2 100 000 states | torn reads, usable store |
| `first_open` | the same instance | finding 4 |
| `channel` | 22 frames, most of which differ from a correct one in one respect, two routed, three generations, of which a rotation may skip one; 23 000 states | what is accepted, what is deliverable |
| `control` | two invocations out of nine command lines, login limit 2, API limit 1, a browser that blocks for up to 1; 811 000 states | exit codes, budget, retries, that every invocation ends |
| `trace` | three policy generations, a reissue under the same and another command id, a revoked artifact; 302 000 states | end-to-end lineage |

Bounds. `OutboxLimit`, `JournalLimit` and `SequenceMax` are the code's 128, 1024
and 2^64-1 scaled down so that the limits are reached; `MaxTime` is past the
retention of every entry in `retention` and 0 in `rotation`, where nothing
expires; `MaxFaults` bounds link failures, crashes and shutdown
signals together. `session` was also explored with seven failures without a
difference. Its last two messages meet the full journal. An outbox of at least 3
lets a rotation, which reserves two entries, join an earlier ACK. In `catalog` two changes are enough to tear any of the reads and to
mend or spoil one part more. In `control` two invocations are the least that can
repeat a key or meet the window of an abandoned login; `MaxTime` leaves room for
both to use up their budgets. In `channel` two frames are a genuine one and one
that borrows its assertion. In `trace` four generations are two rotations, a
revoked one and the initial one. `CHECK_DEADLOCK FALSE`: in the session runs the
system may rest when the script is done; in the store runs a first start that
died before its manifest existed is refused for good; in the others the bounds
end the behaviour.

Fairness. In `AgentSession`, `FairSpec` is weak fairness of every step of the
client's event loop and the driver (tokio polls both), of the broker's delivery,
of the retry and of the supervisor's restart. Neither failures nor the server are
fair. Three conjuncts, for `PollPacket`, `PollSent` and `StartShutdown`, are
written with the enabling condition in place of `ENABLED`, which TLC evaluates
too slowly there; the guards are those of the actions, and each action always
changes a variable. In `RotationControl` the clock and the three timers are
weakly fair, which the tokio runtime guarantees, and so is `BrowserOpened`, which
it does not: that the command that opens the browser returns is an assumption about
the system the tool runs on, and `InvocationEnds` needs it, since nothing in the
code limits that call. Provider, browser window and service may stay silent for
ever.

### Properties

* `CurrentInstalled`, `RevisionsImmutable`, `RestartAccepted`: the store under
  crashes. `RestartAccepted` states the one exception: a first start that dies
  before its manifest exists is refused from then on (`durability.rs` tests that
  it is).
* `PositionAdvances`, `FactsLeaveOnlyConfirmed`: action properties.
* `ImplementsHandoff`: `DeviceAgent` implements `RotationHandoff`.
* `ValidateRefusesOnlyExpired`: the exact circumstances in which `validate`
  refuses what a handler built.
* `IntakeReservesWorstCase`, `QueuedAckAgreesWithJournal`: limits and replay.
* `FatalOnlyAtIntake`: how a session can stop the process. While the intake is
  open, finding 3 is the one way. Backpressure gives up the subscription, but what
  the broker has queued by then still arrives; with a full outbox or journal such a
  command stops the process, and so does one for whose answer no sequence numbers
  are left. Nothing else does: not the
  redelivery on the old topic, although it is answered while the outbox is under
  the same pressure, nor a confirmation, a settlement or a reconnect.
  `ReportByNewCredential`, `SettledIsDurable`, `NothingLeftBehind`:
  session safety. `RotationReported`, `CommandsAnswered`, `ListensAgain`:
  session liveness.

* `ResolvedIsOneRelease`, `StoreUsable`, `UndisturbedResolves`: the files of a
  resolution change under it, or do not.
* `AcceptedWasMinted`, `MintedIsDeliverable`: the two directions in which plugin
  and agent must agree.
* `InvocationBudget`, `RequestsOfOwnLogin`, `OneMutation`,
  `DefiniteFailureUnapplied`, `AcceptedIsApplied`, `KeyedRetryAgrees`,
  `InvocationEnds`: what an operator may conclude from the tool. "Definite" are
  exit codes 2, 3 and 4. `KeyedRetryAgrees` speaks of a conflict only if the
  expected generation had been reached when the invocation started: one that
  asks for a generation of the future conflicts, and its repetition succeeds.
* `NothingUnsaid`, `VerifiedIsOneRotation`, `EveryCopyVerifies`,
  `RevokedNoAdvance`: what an observer may conclude from events. `NothingUnsaid`
  settles the question whether an exact replay that finds a queued rejection may
  stay silent: its own ACK was published before. `RevokedNoAdvance` is about
  withdrawn generations (`Withdrawn`): every command of it is revoked, addresses
  the device and has an id of its own. Otherwise the conflict of a reissue, or a
  wrong address, is found before the catalog is asked, and the journey's
  verifier, which insists on the catalog's refusal, is not satisfied.

### Findings

1. `pending_expiry`: the entry kept for the delivery that awaits settlement is
   invisible to `command_match` once its retention has passed, so the redelivery
   it was kept for is answered with `RotationInFlight` (`state.rs:442`).
2. `resubscribe`: `on_outbound_acknowledged` (`main.rs:286`) subscribes without
   asking `rotation_in_flight`. With two earlier ACKs queued when a rotation is
   accepted, the PUBACK of the second one reopens the old subscription.
3. `in_flight_intake`: the same line reopens the new topic when a replayed ACK
   is confirmed before the report. The next command can then arrive in a session
   in which the report is still unconfirmed, and the process stops with
   `RotationInFlight`; after a restart the broker redelivers that command first.
4. `first_open`: the first start reads the bootstrap files twice, for validation
   and for the digest (`agent.rs:105`). If they are replaced in between, the
   manifest records a digest that its own revision does not have, and every later
   start fails.

## 4. Proofs

Every theorem is for all values of the constants; the assumptions are the named
`ASSUME`s of the modules (limits are natural numbers, commands carry natural
numbers, `None` is none of the values beside it, and what is said below). Each
inductive invariant was first checked by TLC as an invariant of the run.

**`HandlerProofs`** has no state machine. Each handler but `commit` satisfies
`Handles`: position unchanged, facts kept or one confirmed, verified stays
verified. `commit` is treated apart (`AcceptEffect`, `CommitEffect`).
`Consistent` relates journal, outbox and counter: an entry's
outcome fits its command, activations precede what they caused, a queued ACK says
what the journal says, event numbers are unique. Every handler keeps it.

**`DeviceAgentProofs`** proves `TypeCorrect`, `CredentialOnDisk`,
`RevisionsNeverOverwritten`, `RestartSafe`, `PositionNeverRollsBack`,
`FactsNeverLost` and `RefinesHandoff`. The inductive invariant `StoreInv` is
`TypeOK`, `CurrentInstalled` and `RevisionsImmutable` with three strengthenings.
`ManifestVerifies`: every manifest passes `verify`, which is why a restart accepts
it. `Bootstrap`: before the first manifest at most the initial revision is
installed. `CommitPrepared`: while a command is being committed its revision is
on disk, it is the next one and its checks have passed, which is what makes the
later rename safe. `StepEffect` lifts the handler lemmas to the next-state
relation, from which both action properties follow. `RefinesHandoff` is the
refinement: initial states map to initial states, and every step is a step of
`RotationHandoff` or leaves its variables unchanged. Its case analysis is by
phase of the rotation in hand, which `verify` makes a function of outbox,
`reconnect_revision` and `pending_inbound`.

It also proves `AckMatchesJournal`, `OpenIntakeFits` and `ValidateIsSafetyNet`.
`CandidateInv` adds to `StoreInv` that the manifest is `Consistent` and that what
`apply_command` checked before `install_revision` still holds at `persist`
(`CommitChecked`). `ValidateIsSafetyNet` is the largest: for every handler, each
check of `verify` on the candidate follows from the checks the handler itself made,
except where an entry kept for a pending delivery has outlived its retention. What
this says of one call (`ApplyFits`, `MalformedFits`, `ApplyAccepted`,
`MalformedAccepted`, `CommitAccepted`) is stated in `HandlerProofs`, where the
session proofs use it too.

**`CommandChannelProofs`** proves `ChannelTyped`, `OnlyMintedAccepted` and
`MintedAlwaysDeliverable`, for any number of frames and rotations. `IInv` says
where frames come from (`MintedByPlugin`, `HeldFromMinted`) and that the recovery
scope is the one before the session's identity. Two lemmas carry the argument.
`SignatureCoversFrame`: a frame that passes the verifier with the properties of a
minted one agrees with it in every covered field. `SignedVerifies`: the three
properties that `sign_message` appends are the only reserved ones, each occurs
once, and the verifier accepts them. The assumptions are the shape of frames
(`PublishedAssumption`) and the sets of texts.

**`ArtifactCatalogProofs`** proves `CatalogTyped`, `NoTornArtifact`, `UsableStore`
and the action property `UndisturbedResolve`, for any number of changes by the
operator, slots, releases and catalogs. `IInv` says what a first start will
install has been validated, and that what has been read so far of a sound artifact
nobody touched is the release's (`Undisturbed`). The argument for `NoTornArtifact`
is that the digest covers all three parts, and that a release is determined by
its bytes.

**`RotationControlProofs`** proves the six safety properties of the CLI and its
`TypeOK`: `ControlTyped`, `BudgetKept`, `OwnLogin`, `SingleMutation`,
`DefiniteFailure`, `PrintedApplied`, `RetryAgrees`, for any number of invocations
and any limits. `IInv` is a ledger: what is on its way to the service was sent by
the invocation it names (`NetInv`), what the service did was asked for and each
key has one entry (`DoneInv`), a reply is one the service may give to the request
in hand (`ReplyInv`), each log entry tells the operator the truth about the
ledger, and later entries of the ledger do not make it false (`LogInv`). `Timers`
carries the budget: only in stage `browser` does the clock pass the login's
deadline, by `BrowserLimit` at most.

**`RotationTraceProofs`** proves first how far encoder and mapping are inverse to
each other. `ReportRoundTrip`: whatever report the agent can encode the client maps,
to the same fact. `AckRoundTrip`: the same of an acknowledgement exactly when its
command id is not blank. A whitespace-only id passes the plugin and the agent's
`CommandId::try_from`; `decode_command` refuses the command, because `CommandRef`
and `RotationId` do, so the agent journals and publishes a `MalformedCommand`
rejection under that id, and `map_acknowledgement` refuses it for the same reason.
No such rejection takes part in a rotation, but an observer that maps every ACK it
sees meets an error instead of the rejection. Then `TraceTyped`, `AllSaid`, `OneRotation`,
`AnyCopyVerifies` and `WithdrawnNoAdvance`, which speak of every choice of copies
the observer can make, for every set of commands and any number of copies. `IInv`
traces everything to the journal: an accepted entry belongs to an issued command
and each generation is activated once; a fact in the outbox, a message in the
uplink, a receipt of the service and a status seen by the observer each belong to
a journal entry (`FactTraced`, `MessageTraced`, `ReceiptTraced`, `StatusTraced`), and
every entry is still queued or was said (`SaidOf`). The journal only grows because
nothing expires in a model without time, so all of these are stable under the
agent's steps. `SequenceMax = U64Max` is assumed, as in the code: the agent's
number saturates only beyond what the wire can carry, so a repeated number is never
encoded.

**`AgentSessionProofs`** proves `SessionInvariant`, `SessionTyped`,
`ReportedByNewCredential` and `AcknowledgedIsDurable`, for every script of the
server, every limit and any number of link failures, crashes and signals. A
handler of the driver is a function of a context, so most of the work is about
functions: `CtxInv(x, ib)` says what a context and the packets left to poll satisfy
at the top of the loop, and each handler is shown to give a `Good` context back.
`PublishInv`: one fact is outstanding, in the requests or as a PUBACK in the inbox,
and it is in the outbox until that PUBACK is polled. `DeliveryInv`: one command is
outstanding, and when its PUBACK is held or queued, its command is in the journal.
`ConnectInv`: the CONNACK comes first, nothing is queued before it, and the
identity of the session is the current credential unless the report of a rotation
is still blocked. `AckTaken`: the broker has the ACK of a rotation past it. The
script's messages are assumed to have ids that agree with their commands
(`ScriptAssumption`): `decode_command` builds a command with the id of its delivery.

**`AgentTopicProofs`** proves `OldTopicIsLeft` (the property `NothingLeftBehind`)
and `FatalAtIntake` (the property `FatalOnlyAtIntake`). They need a second invariant, `NInv`, on
top of the first. A rotation is *awaited* until the broker takes its
report. `PhaseInv`: meanwhile the server sends nothing, the broker's queue is empty
and only the old and the new topic are subscribed; at all other times what the
broker holds and what is subscribed belongs to the current credential. That the
queue is empty when a rotation is accepted follows from `OrderInv`, the messages
ahead of another are answered. `TopicInv` carries the argument through the session
that recovers: as long as the old topic is subscribed, or its redelivery is in the
inbox or held (`Hot`), an UNSUBACK is pending, the UNSUBSCRIBE of the old topic is
the first of the requests, and neither SUBSCRIBE nor PUBLISH is queued or under way;
a PUBACK goes ahead of every PUBLISH (`RecoveryInv`). So when the report reaches the
broker, the old subscription is gone and the redelivered command is acknowledged.
Each handler is shown to keep this (`...Tidy`), next to `Good`. `ScriptAssumption`
says that `None` is no recovery scope, as the type of the code does (`Option`).

`FatalAtIntake` says that no handler of the
driver returns an error but for a command in flight, in the circumstances it lists.
For most errors `Good` already shows it: a PUBACK for a fact that is not the one
published, or an UNSUBACK or a settlement that nobody waits for, would be one, and
never comes. What is left is the redelivery after a rotation, which meets a recovery
scope, a limited outbox and a journal that was decided in another session.
`AnswerInv` is about it. `PendingInv`: while the report is awaited, a command in
flight is the pending delivery itself, content included, so it is an exact replay;
and its ACK is still queued or there is room to queue it again, since the PUBACK that
took it away freed an entry and nothing but this delivery is answered meanwhile.
Every queued ACK is that of a journalled command, so a command that is not in the
journal meets no ACK of its own. `ScopeInv`: the recovery scope is that
delivery, and every PUBACK queued or held settles nothing or this delivery, with
the token the agent gave out, so no settlement is refused; `SentInv` says the same of
a PUBACK on its way to `poll`. `Refused` is what a stopped process leaves behind.
Each lemma `...Errors` shows which errors one operation can return and under which
guard. The sequence counter is the one limit that backpressure does not know: with fewer than two numbers left, a saturated number makes `validate` refuse
the candidate, hence that case of the property.

An earlier form of the property allowed finding 3 only. It held in the run, whose
limits were never reached, and is false for smaller limits, which is how the case of
the closed intake was found; the run now reaches it with a full journal. TLC checked
all parts of `NInv` on the instance of `session`, on longer scripts and on small
limits before the proof.

Two properties were corrected because their proofs failed. `KeyedRetryAgrees`
and `RevokedNoAdvance` held in the runs and were false for other constants; section
3 says why, and the runs now check what is proved. `RotationTrace` lacked
the assumption that the receipts, and the ids of the commands `decode_command` lets
through, are valid references, which the constructors it calls establish; ids of
undecodable deliveries need not be (`AckRoundTrip`).

Only model-checked: liveness (`RotationReported`, `CommandsAnswered`,
`ListensAgain`, `InvocationEnds`), because fairness is outside the prover's reach.
Every invariant and action property of a passing run is stated by a theorem.

## 5. Plan

1. Done: all modules of section 2 with safety and liveness; theorems for every
   safety property that a run checks.
2. Open hazards: the clock and duplicated commands in `AgentSession`. Both
   multiply its states; a smaller session model with one rotation is the way.
   For the proofs, `OrderInv` and `PendingInv` would have to speak of the copies.

## 6. Not modelled

X.509 parsing, hashing and signatures (ideal in the models), JSON and DTO layout,
TLS, the syntax of identifiers, the owner lock (one process), retry delays, the
packet-id maps of the client, the CLI's reading of files, logging. `config.rs` is
read once; its values are constants. `verify_forbidden` of the journey and
`map_policy_not_found`, `map_policy_conflict` and `observe_status` of the client
look at or wrap one value. The reference environment script, CI and the smoke
crates provision and compile; they carry no state of the system.
