------------------------ MODULE RotationControlProofs ------------------------
(***************************************************************************)
(* Theorems about the operator CLI, for every set of command lines, every  *)
(* limit and any number of invocations.                                    *)
(*                                                                         *)
(* The safety properties of RotationControl follow from one inductive      *)
(* invariant.  Its core is a ledger: an invocation has at most one request *)
(* waiting or handled, none before its login is over, and the request, the *)
(* entry of the service and the reply all agree with its command line.     *)
(***************************************************************************)
EXTENDS RotationControl, FiniteSetTheorems, TLAPS

\* The invocation that runs, or the next one to be started.
Number == Len(log) + 1

\* The command line of invocation n, ended or running, and its key.
ArgsOf(n) == IF n \in DOMAIN log THEN log[n].args ELSE cli.args
KeyOf(n) == IF ArgsOf(n).key = None THEN <<"fresh", n>> ELSE ArgsOf(n).key

\* An invocation as a record of its fields.
Run(n, a, stage, started, deadline, call, token, since) ==
  [number |-> n, args |-> a, stage |-> stage, started |-> started,
   deadline |-> deadline, call |-> call, token |-> token, since |-> since]

-----------------------------------------------------------------------------
(* The inductive invariant. *)

LogTyped ==
  /\ log \in Seq({log[i] : i \in DOMAIN log})
  /\ \A i \in DOMAIN log :
        /\ log[i].args \in Invocations /\ log[i].since \in Nat
        /\ log[i].result.class \in Classes

\* The record of the running invocation; its token is the code of its own
\* login while that is exchanged.
RunTyped ==
  cli # None =>
    /\ cli = Run(Number, cli.args, cli.stage, cli.started, cli.deadline,
                 cli.call, cli.token, cli.since)
    /\ cli.args \in Invocations /\ cli.stage \in Stages
    /\ cli.since \in Nat /\ cli.since <= service.generation
    /\ cli.stage = "token" => cli.token = cli.number

\* One deadline for the whole login, which only the browser command can keep
\* from being seen, and one more for the call that follows it.
Timers ==
  cli # None =>
    /\ cli.started \in Nat /\ cli.call \in Nat
    /\ cli.stage # "api" =>
         /\ cli.deadline = cli.started + LoginLimit
         /\ now <= cli.deadline + BrowserLimit
    /\ cli.stage \in {"discovery", "authorize"} => now <= cli.deadline
    /\ cli.stage = "browser" =>
         now <= cli.call /\ cli.call <= cli.deadline + BrowserLimit
    /\ cli.stage = "api" =>
         /\ cli.deadline = None /\ now <= cli.call
         /\ cli.call <= cli.started + LoginLimit + BrowserLimit + ApiLimit

\* The code in a callback is of the login whose state the callback carries.
ConnInv ==
  conn # None /\ conn.request # None =>
    conn.request.error \/ conn.request.codes = conn.request.states

\* A request of invocation n: it is waiting while its caller has no reply.
RequestOf(q) ==
  /\ q.nonce = q.from /\ q.from \in 1 .. Number
  /\ q.from = Number => Awaits("api") /\ reply = None
  /\ q.request.method = "PUT" =>
       /\ ArgsOf(q.from).op # "status"
       /\ q.request.key = KeyOf(q.from)
       /\ q.request.expected = ArgsOf(q.from).expected
  /\ q.request.method = "GET" => ArgsOf(q.from).op = "status"

NetInv ==
  /\ \A q \in net : RequestOf(q)
  /\ \A p, q \in net : p.from = q.from => p = q

\* An entry of the service.
EntryOf(d) ==
  /\ d.from \in 1 .. Number
  /\ d.from = Number => Awaits("api")
  /\ d.key = KeyOf(d.from)
  /\ d.generation \in 2 .. service.generation
  /\ d.generation = ArgsOf(d.from).expected + 1

DoneInv ==
  /\ service = [generation |-> service.generation, done |-> service.done]
  /\ service.generation \in Nat \ {0}
  /\ \A d \in service.done : EntryOf(d)
  /\ \A d, e \in service.done : d.from = e.from \/ d.key = e.key => d = e
  /\ \A d \in service.done, q \in net : d.from # q.from

\* No invocation with this command line has been applied or can be any more.
Stale(a) ==
  /\ a.expected < service.generation
  /\ \A d \in service.done : d.key # a.key \/ d.generation # a.expected + 1

Applied(n) == \E d \in service.done : d.from = n

\* What the service may have answered, and what it then holds.
ConflictReply == Reply(409, [shape |-> "conflict", retryable |-> FALSE])
Answered(r) ==
  \/ r \in Spoiled
  \/ r \in Refused /\ ~Applied(cli.number)
  \/ /\ r = ConflictReply /\ ~Applied(cli.number)
     /\ cli.args.op # "status"
     /\ cli.args.key # None /\ cli.args.expected <= cli.since => Stale(cli.args)
  \/ /\ cli.args.op = "status" /\ ~Applied(cli.number)
     /\ \E g \in 1 .. service.generation :
           r = Reply(200, [shape |-> "status", data |-> [desired |-> g,
                           observed_generation |-> g, conditions |-> {}]])
  \/ /\ cli.args.op # "status"
     /\ \E d \in service.done :
           d.key = KeyOf(cli.number) /\ r = Accepted(d.generation)

ReplyInv == reply # None => Answered(reply)

\* What the result of invocation n, with command line a, tells the operator.
Truthful(n, a, since, result) ==
  /\ result.class \in {"Input", "Auth", "Typed"} => Mutations(n) = {}
  /\ a.op = "rotate" /\ result.class = "Success" =>
       \E d \in service.done :
          /\ d.key = KeyOf(n)
          /\ result = Success(RotateRecord(Accepted(d.generation).body.data))
  /\ /\ a.op = "rotate" /\ result.class # "Success" /\ result.code = "Conflict"
     /\ a.key # None /\ a.expected <= since
     => Stale(a)

LogInv ==
  \A i \in DOMAIN log : Truthful(i, log[i].args, log[i].since, log[i].result)

IInv ==
  /\ TypeOK /\ LogTyped /\ RunTyped /\ Timers /\ ConnInv
  /\ NetInv /\ DoneInv /\ ReplyInv /\ LogInv

-----------------------------------------------------------------------------
(* Lemmas. *)

\* Append keeps what was logged and adds one entry at the end.
LEMMA LogAppend ==
  ASSUME NEW l, l \in Seq({l[i] : i \in DOMAIN l}), NEW x
  PROVE  LET m == Append(l, x) IN
         /\ Len(l) \in Nat /\ DOMAIN l = 1 .. Len(l)
         /\ Len(m) = Len(l) + 1 /\ DOMAIN m = 1 .. Len(l) + 1
         /\ \A i \in 1 .. Len(l) : m[i] = l[i]
         /\ m[Len(l) + 1] = x
         /\ m \in Seq({m[i] : i \in DOMAIN m})
<1> DEFINE S == {l[i] : i \in DOMAIN l}
           T == S \union {x}
           m == Append(l, x)
<1>1. l \in Seq(S) /\ l \in Seq(T) /\ m \in Seq(T)
  OBVIOUS
<1>2. /\ Len(l) \in Nat /\ DOMAIN l = 1 .. Len(l)
      /\ Len(m) = Len(l) + 1 /\ DOMAIN m = 1 .. Len(l) + 1
      /\ \A i \in 1 .. Len(l) : m[i] = l[i]
      /\ m[Len(l) + 1] = x
  BY <1>1
<1> HIDE DEF m, T, S
<1>3. m \in Seq({m[i] : i \in DOMAIN m})
  BY <1>1, <1>2
<1> QED
  BY <1>2, <1>3 DEF m

\* The errors the CLI raises itself.
LocalErrors == {Input, Auth, Untrusted, Transport(TRUE), Transport(FALSE)}

\* A result is an Ok or an Err.
LEMMA Fields ==
  /\ \A a : Ok(a).ok /\ Ok(a).value = a
  /\ \A a : ~Err(a).ok /\ Err(a).value = a
BY DEF Ok, Err

\* A request that fails or answers too much is a local error, a reply is
\* passed on.
LEMMA Executed ==
  ASSUME NEW r, r \in {Failed, Oversize} \/ r.got = "reply"
  PROVE  /\ execute(r).ok <=> r \notin {Failed, Oversize}
         /\ ~execute(r).ok => execute(r).value \in {Transport(TRUE), Untrusted}
<1>1. execute(Failed) = Err(Transport(TRUE)) /\ execute(Oversize) = Err(Untrusted)
  BY DEF execute, Failed, Oversize
<1>2. r.got = "reply" => execute(r) = Ok(r)
  BY DEF execute
<1>3. r.got = "reply" => r \notin {Failed, Oversize}
  BY DEF Failed, Oversize
<1> QED
  BY <1>1, <1>2, <1>3, Fields

\* A discovery document that is refused ends the login with a local error.
LEMMA DiscoverFails ==
  ASSUME NEW r \in DiscoveryReplies, ~discover(r).ok
  PROVE  discover(r).value \in LocalErrors
<1>1. r \in {Failed, Oversize} \/ r.got = "reply"
  BY DEF DiscoveryReplies, Reply
<1>2. CASE ~execute(r).ok
  <2>1. fetch_json(r) = execute(r)
    BY <1>2 DEF fetch_json, Then
  <2>2. discover(r) = execute(r)
    BY <1>2, <2>1 DEF discover, Then
  <2> QED
    BY <1>1, <1>2, <2>2, Executed DEF LocalErrors
<1>3. CASE execute(r).ok
  <2>1. fetch_json(r) \in {Err(Transport(FALSE)), Err(Untrusted), Ok(r.body)}
    BY <1>3 DEF fetch_json, Then
  <2>2. CASE ~fetch_json(r).ok
    <3>1. discover(r) = fetch_json(r)
      BY <2>2 DEF discover, Then
    <3> QED
      BY <2>1, <2>2, <3>1, Fields DEF LocalErrors
  <2>3. CASE fetch_json(r).ok
    <3>1. discover(r) \in {Err(Auth), Err(Untrusted), Err(Input), Ok(r.body)}
      BY <2>3 DEF discover, Then
    <3> QED
      BY <3>1, Fields DEF LocalErrors
  <2> QED
    BY <2>2, <2>3
<1> QED
  BY <1>2, <1>3

\* So does a refused token response.
LEMMA ExchangeFails ==
  ASSUME NEW r \in TokenReplies, ~exchange(r).ok
  PROVE  exchange(r).value \in LocalErrors
<1>1. r \in {Failed, Oversize} \/ r.got = "reply"
  BY DEF TokenReplies, Reply
<1>2. CASE ~execute(r).ok
  <2>1. exchange(r) = execute(r)
    BY <1>2 DEF exchange, Then
  <2> QED
    BY <1>1, <1>2, <2>1, Executed DEF LocalErrors
<1>3. CASE execute(r).ok
  <2>1. classify_token_response(r.status) \in
          {Ok(r.status), Err(Auth), Err(Transport(TRUE)), Err(Untrusted)}
    BY DEF classify_token_response
  <2>2. exchange(r) \in {Err(Untrusted), Ok(r.body), classify_token_response(r.status)}
    BY <1>3 DEF exchange, Then
  <2> QED
    BY <2>1, <2>2, Fields, ZenonT(40) DEF LocalErrors
<1> QED
  BY <1>2, <1>3

\* And a refused key set.
LEMMA JwksFails ==
  ASSUME NEW r \in JwksReplies, ~fetch_jwks(r).ok
  PROVE  fetch_jwks(r).value \in LocalErrors
<1>1. r \in {Failed, Oversize} \/ r.got = "reply"
  BY DEF JwksReplies, Reply
<1>2. CASE ~execute(r).ok
  <2>1. fetch_jwks(r) = execute(r)
    BY <1>2 DEF fetch_jwks, Then
  <2> QED
    BY <1>1, <1>2, <2>1, Executed DEF LocalErrors
<1>3. CASE execute(r).ok
  <2>1. validate_jwks_key_operations(r.body) \in {Err(Untrusted), Err(Auth), Ok(r.body)}
    BY DEF validate_jwks_key_operations
  <2>2. fetch_jwks(r) \in {Err(Transport(FALSE)), validate_jwks_key_operations(r.body)}
    BY <1>3 DEF fetch_jwks, Then
  <2> QED
    BY <2>1, <2>2, Fields, ZenonT(40) DEF LocalErrors
<1> QED
  BY <1>2, <1>3

\* What the decoders make of an answer that was spoiled, of one that refuses
\* the request and of a conflict: a diagnostic.
LEMMA PolicyDecoded ==
  ASSUME NEW r
  PROVE  LET decoded == decode_policy_response(r.status, r.body) IN
         /\ r \in Spoiled \ {Failed, Oversize} =>
              decoded \in {Err(Diagnostic("Malformed")), Err(Diagnostic("Upstream")),
                          Err(Diagnostic("UnknownStatus"))}
         /\ r \in Refused =>
              decoded \in {Err(Diagnostic("Validation")), Err(Diagnostic("NotFound")),
                          Err(Diagnostic("Unauthorized")), Err(Diagnostic("Forbidden")),
                          Err(Diagnostic("RateLimited")), Err(Diagnostic("Upstream"))}
         /\ r = ConflictReply => decoded = Err(Conflict(r.body.retryable))
         /\ \A g : r = Accepted(g) => decoded = Ok(r.body.data)
<1>1. \A status, body :
        /\ status = 200 => decode_policy_response(status, body) =
             IF body.shape # "accepted" THEN Err(Diagnostic("Malformed")) ELSE Ok(body.data)
        /\ status = 400 => decode_policy_response(status, body) =
             IF body.shape # "validation" THEN Err(Diagnostic("Malformed"))
             ELSE Err(Diagnostic("Validation"))
        /\ status = 404 => decode_policy_response(status, body) =
             IF body.shape # "not_found" THEN Err(Diagnostic("Malformed"))
             ELSE Err(Diagnostic("NotFound"))
        /\ status = 409 => decode_policy_response(status, body) =
             IF body.shape # "conflict" THEN Err(Diagnostic("Malformed"))
             ELSE Err(Conflict(body.retryable))
        /\ status \notin {200, 400, 404, 409} =>
             decode_policy_response(status, body) = Err(Diagnostic(CommonKind(status)))
  BY DEF decode_policy_response, PolicyShape
<1>2. /\ CommonKind(502) = "Upstream" /\ CommonKind(503) = "Upstream"
      /\ CommonKind(302) = "UnknownStatus" /\ CommonKind(429) = "RateLimited"
      /\ CommonKind(401) = "Unauthorized" /\ CommonKind(403) = "Forbidden"
  BY DEF CommonKind
<1>3. r \in Spoiled \ {Failed, Oversize} =>
        /\ r.status \in {200, 302, 502}
        /\ r.body.shape = "garbage"
  BY DEF Spoiled, Reply, Garbage
<1>4. r \in Refused =>
        \/ r.status = 400 /\ r.body.shape = "validation"
        \/ r.status = 404 /\ r.body.shape = "not_found"
        \/ r.status \in {401, 403, 429, 503}
  BY DEF Refused, Reply
<1>5. r = ConflictReply =>
        r.status = 409 /\ r.body.shape = "conflict"
  BY DEF ConflictReply, Reply
<1>6. \A g : r = Accepted(g) => r.status = 200 /\ r.body.shape = "accepted"
  BY DEF Accepted, Reply
<1>7. r \in Spoiled \ {Failed, Oversize} =>
        decode_policy_response(r.status, r.body) \in
          {Err(Diagnostic("Malformed")), Err(Diagnostic("Upstream")),
           Err(Diagnostic("UnknownStatus"))}
  BY <1>1, <1>2, <1>3
<1>8. r \in Refused =>
        decode_policy_response(r.status, r.body) \in
          {Err(Diagnostic("Validation")), Err(Diagnostic("NotFound")),
           Err(Diagnostic("Unauthorized")), Err(Diagnostic("Forbidden")),
           Err(Diagnostic("RateLimited")), Err(Diagnostic("Upstream"))}
  BY <1>1, <1>2, <1>4
<1>9. r = ConflictReply =>
        decode_policy_response(r.status, r.body) = Err(Conflict(r.body.retryable))
  BY <1>1, <1>5
<1>10. \A g : r = Accepted(g) =>
         decode_policy_response(r.status, r.body) = Ok(r.body.data)
  BY <1>1, <1>6
<1> QED
  BY <1>7, <1>8, <1>9, <1>10

\* The same for a status query.
LEMMA StatusDecoded ==
  ASSUME NEW r
  PROVE  LET decoded == decode_status_response(r.status, r.body) IN
         /\ r \in Spoiled \ {Failed, Oversize} =>
              decoded \in {Err(Diagnostic("Malformed")), Err(Diagnostic("Upstream")),
                          Err(Diagnostic("UnknownStatus"))}
         /\ r \in Refused =>
              decoded \in {Err(Diagnostic("UnknownStatus")), Err(Diagnostic("NotFound")),
                          Err(Diagnostic("Unauthorized")), Err(Diagnostic("Forbidden")),
                          Err(Diagnostic("RateLimited")), Err(Diagnostic("Upstream"))}
<1>2. /\ CommonKind(502) = "Upstream" /\ CommonKind(503) = "Upstream"
      /\ CommonKind(302) = "UnknownStatus" /\ CommonKind(429) = "RateLimited"
      /\ CommonKind(401) = "Unauthorized" /\ CommonKind(403) = "Forbidden"
      /\ CommonKind(400) = "UnknownStatus"
  BY DEF CommonKind
<1>3. r \in Spoiled \ {Failed, Oversize} =>
        /\ r.status \in {200, 302, 502}
        /\ r.body.shape = "garbage"
  BY DEF Spoiled, Reply, Garbage
<1>4. r \in Refused => r.status \in {400, 401, 403, 404, 429, 503}
  BY DEF Refused, Reply
<1>5. r \in Spoiled \ {Failed, Oversize} =>
        decode_status_response(r.status, r.body) \in
          {Err(Diagnostic("Malformed")), Err(Diagnostic("Upstream")),
           Err(Diagnostic("UnknownStatus"))}
  BY <1>2, <1>3 DEF decode_status_response
<1>6. r \in Refused =>
        decode_status_response(r.status, r.body) \in
          {Err(Diagnostic("UnknownStatus")), Err(Diagnostic("NotFound")),
           Err(Diagnostic("Unauthorized")), Err(Diagnostic("Forbidden")),
           Err(Diagnostic("RateLimited")), Err(Diagnostic("Upstream"))}
  BY <1>2, <1>4 DEF decode_status_response
<1> QED
  BY <1>5, <1>6

\* The class and the code of a diagnostic.
LEMMA Diagnosed ==
  /\ \A kind \in {"Validation", "NotFound", "Unauthorized", "Forbidden"} :
        /\ from_diagnostic(Diagnostic(kind)).class \in {"Auth", "Typed"}
        /\ from_diagnostic(Diagnostic(kind)).code # "Conflict"
  /\ \A kind \in {"RateLimited", "Upstream", "Malformed", "UnknownStatus"} :
        /\ from_diagnostic(Diagnostic(kind)).class \in {"Transport", "Untrusted"}
        /\ from_diagnostic(Diagnostic(kind)).code # "Conflict"
  /\ \A retryable : from_diagnostic(Conflict(retryable)).class = "Typed"
BY DEF from_diagnostic, Diagnostic, Conflict, AppError

\* The result of a call, by the reply: a spoiled answer is never a definite
\* failure, and only a conflict of the service is reported as one.
LEMMA ApiResults ==
  ASSUME NEW r
  PROVE  /\ r \in Spoiled =>
              /\ ApiResult(r).class \in {"Transport", "Untrusted"}
              /\ ApiResult(r).code # "Conflict"
         /\ r \in Refused =>
              /\ ApiResult(r).class \in {"Auth", "Typed", "Transport", "Untrusted"}
              /\ ApiResult(r).code # "Conflict"
         /\ cli.args.op # "status" =>
              /\ r = ConflictReply => ApiResult(r).class = "Typed"
              /\ \A g : r = Accepted(g) =>
                    ApiResult(r) = Success(RotateRecord(Accepted(g).body.data))
         /\ cli.args.op = "status" =>
              \A g \in Nat : r = Reply(200, [shape |-> "status", data |-> [desired |-> g,
                             observed_generation |-> g, conditions |-> {}]])
                 => ApiResult(r).class = "Success"
<1>1. CASE r \in {Failed, Oversize}
  <2>1. r \in Spoiled /\ r \notin Refused /\ r # ConflictReply
        /\ (\A g : r # Accepted(g)) /\ \A b : r # Reply(200, b)
    BY <1>1 DEF Spoiled, Refused, ConflictReply, Accepted, Reply, Failed, Oversize
  <2>2. ~execute(r).ok /\ execute(r).value \in {Transport(TRUE), Untrusted}
    BY <1>1, Executed
  <2>3. ApiResult(r) \in {Transport(TRUE), Untrusted}
    BY <2>2 DEF ApiResult
  <2>4. ApiResult(r).class \in {"Transport", "Untrusted"} /\ ApiResult(r).code # "Conflict"
    BY <2>3 DEF Transport, Untrusted, AppError
  <2> QED
    BY <2>1, <2>4
<1>2. CASE r \notin {Failed, Oversize} /\ r.got = "reply"
  <2>1. execute(r).ok
    BY <1>2, Executed
  <2>2. CASE cli.args.op = "status"
    <3>1. ApiResult(r) = IF decode_status_response(r.status, r.body).ok
                         THEN Success(r.body.data)
                         ELSE from_diagnostic(decode_status_response(r.status, r.body).value)
      BY <2>1, <2>2 DEF ApiResult
    <3>2. r \in Spoiled =>
            /\ ApiResult(r).class \in {"Transport", "Untrusted"}
            /\ ApiResult(r).code # "Conflict"
      BY <1>2, <3>1, StatusDecoded, Diagnosed, Fields
    <3>3. r \in Refused =>
            /\ ApiResult(r).class \in {"Auth", "Typed", "Transport", "Untrusted"}
            /\ ApiResult(r).code # "Conflict"
      BY <1>2, <3>1, StatusDecoded, Diagnosed, Fields
    <3>4. ASSUME NEW g \in Nat,
                 r = Reply(200, [shape |-> "status", data |-> [desired |-> g,
                             observed_generation |-> g, conditions |-> {}]])
          PROVE  ApiResult(r).class = "Success"
      <4>1. /\ r.status = 200 /\ r.body.shape = "status"
            /\ r.body.data.observed_generation = g /\ r.body.data.conditions = {}
        BY <3>4 DEF Reply
      <4>2. decode_status_response(r.status, r.body) = Ok(r.body.data)
        BY <4>1 DEF decode_status_response
      <4> QED
        BY <4>2, <3>1, Fields DEF Success
    <3> QED
      BY <2>2, <3>2, <3>3, <3>4
  <2>3. CASE cli.args.op # "status"
    <3>1. ApiResult(r) = IF decode_policy_response(r.status, r.body).ok
                         THEN Success(RotateRecord(r.body.data))
                         ELSE from_diagnostic(decode_policy_response(r.status, r.body).value)
      BY <2>1, <2>3 DEF ApiResult
    <3>2. r \in Spoiled =>
            /\ ApiResult(r).class \in {"Transport", "Untrusted"}
            /\ ApiResult(r).code # "Conflict"
      <4>1. r \in Spoiled =>
              decode_policy_response(r.status, r.body) \in
                {Err(Diagnostic("Malformed")), Err(Diagnostic("Upstream")),
                 Err(Diagnostic("UnknownStatus"))}
        BY <1>2, PolicyDecoded
      <4> QED
        BY <3>1, <4>1, Diagnosed, Fields
    <3>3. r \in Refused =>
            /\ ApiResult(r).class \in {"Auth", "Typed", "Transport", "Untrusted"}
            /\ ApiResult(r).code # "Conflict"
      <4>1. r \in Refused =>
              decode_policy_response(r.status, r.body) \in
                {Err(Diagnostic("Validation")), Err(Diagnostic("NotFound")),
                 Err(Diagnostic("Unauthorized")), Err(Diagnostic("Forbidden")),
                 Err(Diagnostic("RateLimited")), Err(Diagnostic("Upstream"))}
        BY PolicyDecoded
      <4> QED
        BY <3>1, <4>1, Diagnosed, Fields
    <3>4. r = ConflictReply => ApiResult(r).class = "Typed"
      BY <3>1, PolicyDecoded, Diagnosed, Fields
    <3>5. \A g : r = Accepted(g) =>
             ApiResult(r) = Success(RotateRecord(Accepted(g).body.data))
      BY <3>1, PolicyDecoded, Fields
    <3> QED
      BY <2>3, <3>2, <3>3, <3>4, <3>5
  <2> QED
    BY <2>2, <2>3
<1>3. CASE r \notin {Failed, Oversize} /\ r.got # "reply"
  BY <1>3 DEF Spoiled, Refused, ConflictReply, Accepted, Reply
<1> QED
  BY <1>1, <1>2, <1>3

-----------------------------------------------------------------------------
(* The invariant is inductive. *)

\* It holds before the first invocation.
LEMMA InitInv == Init => IInv
<1> SUFFICES ASSUME Init PROVE IInv
  OBVIOUS
<1>1. log = << >> /\ log \in Seq({}) /\ Len(log) = 0 /\ DOMAIN log = {}
  BY DEF Init
<1>2. log \in Seq({log[i] : i \in DOMAIN log})
  BY <1>1
<1>3. service.generation = 1 /\ service.done = {}
      /\ service = [generation |-> service.generation, done |-> service.done]
  BY DEF Init
<1>4. TypeOK
  BY <1>1, LimitsAssumption DEF Init, TypeOK
<1> QED
  BY <1>1, <1>2, <1>3, <1>4
  DEF Init, IInv, LogTyped, RunTyped, Timers, ConnInv, NetInv, DoneInv, ReplyInv, LogInv

\* What a step that ends the running invocation does to the log.
LEMMA EndLog ==
  ASSUME IInv, cli # None, NEW result, End(result)
  PROVE  /\ Len(log) \in Nat /\ DOMAIN log = 1 .. Len(log) /\ cli.number = Number
         /\ Number' = Number + 1 /\ DOMAIN log' = 1 .. Number
         /\ \A i \in DOMAIN log : log'[i] = log[i]
         /\ log'[Number].args = cli.args /\ log'[Number].since = cli.since
         /\ log'[Number].result = result
         /\ log' \in Seq({log'[i] : i \in DOMAIN log'})
         /\ \A n \in 1 .. Number : ArgsOf(n)' = ArgsOf(n) /\ KeyOf(n)' = KeyOf(n)
<1> DEFINE e == Entry(cli.args, cli.since, result)
<1>1. log' = Append(log, e) /\ log \in Seq({log[i] : i \in DOMAIN log})
  BY DEF End, IInv, LogTyped
<1>2. e.args = cli.args /\ e.since = cli.since /\ e.result = result
  BY DEF Entry
<1> HIDE DEF e
<1>3. /\ Len(log) \in Nat /\ DOMAIN log = 1 .. Len(log)
      /\ Number' = Number + 1 /\ DOMAIN log' = 1 .. Number
      /\ \A i \in DOMAIN log : log'[i] = log[i]
      /\ log'[Number] = e
      /\ log' \in Seq({log'[i] : i \in DOMAIN log'})
  BY <1>1, LogAppend DEF Number
<1>4. cli.number = Number
  BY DEF IInv, TypeOK, Number
<1>5. ASSUME NEW n \in 1 .. Number
      PROVE  ArgsOf(n)' = ArgsOf(n)
  <2>1. CASE n \in DOMAIN log
    BY <2>1, <1>3 DEF ArgsOf, Number
  <2>2. CASE n \notin DOMAIN log
    <3>1. n = Number
      BY <2>2, <1>3 DEF Number
    <3> QED
      BY <2>2, <3>1, <1>2, <1>3 DEF ArgsOf
  <2> QED
    BY <2>1, <2>2
<1>6. \A n \in 1 .. Number : KeyOf(n)' = KeyOf(n)
  BY <1>5 DEF KeyOf
<1> QED
  BY <1>2, <1>3, <1>4, <1>5, <1>6

\* Ending with a result that tells the truth keeps the invariant.
LEMMA EndStep ==
  ASSUME IInv, cli # None, NEW result, result.class \in Classes,
         Truthful(cli.number, cli.args, cli.since, result),
         End(result), UNCHANGED <<now, windows, net, service>>
  PROVE  IInv'
<1>1. /\ Len(log) \in Nat /\ DOMAIN log = 1 .. Len(log) /\ cli.number = Number
      /\ Number' = Number + 1 /\ DOMAIN log' = 1 .. Number
      /\ \A i \in DOMAIN log : log'[i] = log[i]
      /\ log'[Number].args = cli.args /\ log'[Number].since = cli.since
      /\ log'[Number].result = result
      /\ log' \in Seq({log'[i] : i \in DOMAIN log'})
      /\ \A n \in 1 .. Number : ArgsOf(n)' = ArgsOf(n) /\ KeyOf(n)' = KeyOf(n)
  BY EndLog
<1>2. cli' = None /\ conn' = None /\ reply' = None
  BY DEF End
<1>3. LogTyped'
  <2>1. cli.args \in Invocations /\ cli.since \in Nat
    BY DEF IInv, RunTyped
  <2> QED
    BY <1>1, <2>1, SMTT(20) DEF IInv, LogTyped, Number
<1>4. TypeOK'
  <2>1. windows' \subseteq 1 .. Len(log)' + 1
    BY <1>1 DEF IInv, TypeOK, Number
  <2> QED
    BY <1>2, <1>3, <2>1 DEF IInv, TypeOK, LogTyped
<1>5. RunTyped' /\ Timers' /\ ConnInv' /\ ReplyInv'
  BY <1>2 DEF RunTyped, Timers, ConnInv, ReplyInv
<1>6. NetInv'
  <2>1. ASSUME NEW q \in net PROVE RequestOf(q)'
    <3>1. RequestOf(q)
      BY DEF IInv, NetInv
    <3>2. q.from \in 1 .. Number' /\ q.from # Number'
      BY <1>1, <3>1 DEF RequestOf, Number
    <3> QED
      BY <1>1, <3>1, <3>2 DEF RequestOf
  <2> QED
    BY <2>1 DEF IInv, NetInv
<1>7. DoneInv'
  <2>1. ASSUME NEW d \in service.done PROVE EntryOf(d)'
    <3>1. EntryOf(d)
      BY DEF IInv, DoneInv
    <3>2. d.from \in 1 .. Number' /\ d.from # Number'
      BY <1>1, <3>1 DEF EntryOf, Number
    <3> QED
      BY <1>1, <3>1, <3>2 DEF EntryOf
  <2> QED
    BY <2>1 DEF IInv, DoneInv
<1>8. LogInv'
  <2>1. ASSUME NEW i \in 1 .. Number, NEW a, NEW since, NEW x,
               Truthful(i, a, since, x)
        PROVE  Truthful(i, a, since, x)'
    <3>1. Mutations(i)' = Mutations(i) /\ Stale(a)' = Stale(a)
      BY DEF Mutations, Stale
    <3>2. KeyOf(i)' = KeyOf(i)
      BY <1>1
    <3> QED
      BY <2>1, <3>1, <3>2 DEF Truthful
  <2>2. ASSUME NEW i \in DOMAIN log
        PROVE  Truthful(i, log[i].args, log[i].since, log[i].result)
    BY DEF IInv, LogInv
  <2> QED
    BY <1>1, <2>1, <2>2 DEF LogInv, Number
<1> QED
  BY <1>3, <1>4, <1>5, <1>6, <1>7, <1>8 DEF IInv

\* So does ending with an error of the CLI itself before a request is sent.
LEMMA EndLogin ==
  ASSUME IInv, cli # None, cli.stage # "api", NEW result \in LocalErrors,
         End(result), UNCHANGED <<now, windows, net, service>>
  PROVE  IInv'
<1>1. result.class \in Classes /\ result.class # "Success" /\ result.code = "local"
  BY DEF LocalErrors, Input, Auth, Untrusted, Transport, AppError, Classes
<1>2. cli.number = Number /\ ~Awaits("api")
  BY DEF IInv, TypeOK, Number, Awaits
<1>3. Mutations(cli.number) = {}
  BY <1>2 DEF IInv, NetInv, RequestOf, DoneInv, EntryOf, Mutations
<1>4. Truthful(cli.number, cli.args, cli.since, result)
  BY <1>1, <1>3 DEF Truthful
<1> QED
  BY <1>1, <1>4, EndStep

\* Steps of a login leave what was requested and logged as it was.
LEMMA Ledger ==
  ASSUME IInv, ~Awaits("api"), UNCHANGED <<net, service, log>>
  PROVE  NetInv' /\ DoneInv' /\ LogInv'
<1>1. Len(log) \in Nat /\ DOMAIN log = 1 .. Len(log)
  BY DEF IInv, LogTyped
<1>2. \A n \in DOMAIN log : ArgsOf(n)' = ArgsOf(n) /\ KeyOf(n)' = KeyOf(n)
  BY DEF ArgsOf, KeyOf
<1>3. Number' = Number
  BY DEF Number
<1>4. NetInv'
  <2>1. ASSUME NEW q \in net PROVE RequestOf(q)'
    <3>1. RequestOf(q)
      BY DEF IInv, NetInv
    <3>2. q.from # Number /\ q.from \in DOMAIN log
      BY <1>1, <3>1 DEF RequestOf, Number
    <3> QED
      BY <1>2, <1>3, <3>1, <3>2 DEF RequestOf
  <2> QED
    BY <2>1 DEF IInv, NetInv
<1>5. DoneInv'
  <2>1. ASSUME NEW d \in service.done PROVE EntryOf(d)'
    <3>1. EntryOf(d)
      BY DEF IInv, DoneInv
    <3>2. d.from # Number /\ d.from \in DOMAIN log
      BY <1>1, <3>1 DEF EntryOf, Number
    <3> QED
      BY <1>2, <1>3, <3>1, <3>2 DEF EntryOf
  <2> QED
    BY <2>1 DEF IInv, DoneInv
<1>6. LogInv'
  <2>1. ASSUME NEW i \in DOMAIN log
        PROVE  Truthful(i, log[i].args, log[i].since, log[i].result)'
    <3>1. Truthful(i, log[i].args, log[i].since, log[i].result)
      BY DEF IInv, LogInv
    <3>2. Mutations(i)' = Mutations(i) /\ Stale(log[i].args)' = Stale(log[i].args)
      BY DEF Mutations, Stale
    <3>3. KeyOf(i)' = KeyOf(i)
      BY <1>2
    <3> QED
      BY <3>1, <3>2, <3>3 DEF Truthful
  <2> QED
    BY <2>1 DEF LogInv
<1> QED
  BY <1>4, <1>5, <1>6

\* The record after the assignment of one field.
LEMMA RunField ==
  \A n, a, s, t, d, c, k, g, x :
    /\ [Run(n, a, s, t, d, c, k, g) EXCEPT !.stage = x] = Run(n, a, x, t, d, c, k, g)
    /\ [Run(n, a, s, t, d, c, k, g) EXCEPT !.deadline = x] = Run(n, a, s, t, x, c, k, g)
    /\ [Run(n, a, s, t, d, c, k, g) EXCEPT !.call = x] = Run(n, a, s, t, d, x, k, g)
    /\ [Run(n, a, s, t, d, c, k, g) EXCEPT !.token = x] = Run(n, a, s, t, d, c, x, g)
BY DEF Run

\* Several fields are assigned one after the other.
LEMMA RunExcept ==
  \A r, stage, deadline, call, token :
    /\ [r EXCEPT !.stage = stage, !.token = token, !.call = call] =
         [[[r EXCEPT !.stage = stage] EXCEPT !.token = token] EXCEPT !.call = call]
    /\ [r EXCEPT !.stage = stage, !.deadline = deadline, !.call = call, !.token = token] =
         [[[[r EXCEPT !.stage = stage] EXCEPT !.deadline = deadline]
                                       EXCEPT !.call = call] EXCEPT !.token = token]
OBVIOUS

Entered(run, stage, token, call) ==
  [run EXCEPT !.stage = stage, !.token = token, !.call = call]
Sent(run, stage, call, token) ==
  [run EXCEPT !.stage = stage, !.deadline = None, !.call = call, !.token = token]

\* What Enter and send_api make of the record.
LEMMA EnterRecord ==
  ASSUME NEW n, NEW a, NEW s, NEW t, NEW d, NEW c, NEW k, NEW g, NEW run,
         run = Run(n, a, s, t, d, c, k, g),
         NEW stage, NEW call, NEW token
  PROVE  /\ Entered(run, stage, token, call) = Run(n, a, stage, t, d, call, token, g)
         /\ Sent(run, stage, call, token) = Run(n, a, stage, t, None, call, token, g)
<1>1. PICK r1 : r1 = [run EXCEPT !.stage = stage]
  OBVIOUS
<1>2. r1 = Run(n, a, stage, t, d, c, k, g)
  BY <1>1, RunField
<1>3. Entered(run, stage, token, call) = Run(n, a, stage, t, d, call, token, g)
  <2>1. PICK r2 : r2 = [r1 EXCEPT !.token = token]
    OBVIOUS
  <2>2. r2 = Run(n, a, stage, t, d, c, token, g)
    BY <1>2, <2>1, RunField
  <2>3. [r2 EXCEPT !.call = call] = Run(n, a, stage, t, d, call, token, g)
    BY <2>2, RunField
  <2>4. Entered(run, stage, token, call) = [r2 EXCEPT !.call = call]
    BY <1>1, <2>1, RunExcept DEF Entered
  <2> QED
    BY <2>3, <2>4
<1>4. Sent(run, stage, call, token) = Run(n, a, stage, t, None, call, token, g)
  <2>1. PICK r2 : r2 = [r1 EXCEPT !.deadline = None]
    OBVIOUS
  <2>2. PICK r3 : r3 = [r2 EXCEPT !.call = call]
    OBVIOUS
  <2>3. r2 = Run(n, a, stage, t, None, c, k, g)
    BY <1>2, <2>1, RunField
  <2>4. r3 = Run(n, a, stage, t, None, call, k, g)
    BY <2>2, <2>3, RunField
  <2>5. [r3 EXCEPT !.token = token] = Run(n, a, stage, t, None, call, token, g)
    BY <2>4, RunField
  <2>6. Sent(run, stage, call, token) = [r3 EXCEPT !.token = token]
    BY <1>1, <2>1, <2>2, RunExcept DEF Sent
  <2> QED
    BY <2>5, <2>6
<1> QED
  BY <1>3, <1>4

\* The next stage of a login keeps the invariant.
LEMMA EnterStep ==
  ASSUME IInv, cli # None, cli.stage # "api",
         NEW stage \in Stages \ {"api", "discovery"}, NEW token, NEW limit \in Nat,
         stage = "token" => token = cli.number,
         stage = "authorize" => cli.stage = "discovery",
         stage = "browser" => cli.stage = "authorize" /\ limit = BrowserLimit,
         Enter(stage, token, limit), conn' = None, windows' \subseteq 1 .. Number,
         UNCHANGED <<now, net, reply, service, log>>
  PROVE  IInv'
<1>1. ~Awaits("api") /\ reply = None
  BY DEF IInv, TypeOK, Awaits
<1>2. cli' = Run(Number, cli.args, stage, cli.started, cli.deadline,
                 now + limit, token, cli.since)
  <2>1. cli = Run(Number, cli.args, cli.stage, cli.started, cli.deadline,
                  cli.call, cli.token, cli.since)
    BY DEF IInv, RunTyped
  <2>2. cli' = Entered(cli, stage, token, now + limit)
    BY DEF Enter, Entered
  <2> QED
    BY <2>1, <2>2, EnterRecord
<1>2a. /\ cli'.number = Number /\ cli'.args = cli.args /\ cli'.stage = stage
       /\ cli'.started = cli.started /\ cli'.deadline = cli.deadline
       /\ cli'.call = now + limit /\ cli'.token = token /\ cli'.since = cli.since
  BY <1>2 DEF Run
<1>3. Number' = Number /\ cli.number = Number
  BY DEF Number, IInv, TypeOK
<1>4. now \in Nat
  BY DEF IInv, TypeOK
<1>5. RunTyped'
  BY <1>2, <1>2a, <1>3 DEF IInv, RunTyped
<1>6. Timers'
  BY <1>2a, <1>4, LimitsAssumption DEF IInv, Timers
<1>7. TypeOK'
  BY <1>1, <1>2a, <1>3 DEF IInv, TypeOK, Number
<1>8. LogTyped' /\ ConnInv' /\ ReplyInv'
  BY <1>1 DEF IInv, LogTyped, ConnInv, ReplyInv
<1>9. NetInv' /\ DoneInv' /\ LogInv'
  BY <1>1, Ledger
<1> QED
  BY <1>5, <1>6, <1>7, <1>8, <1>9 DEF IInv

\* A step that changes the listener's connection and nothing else.
LEMMA ConnStep ==
  ASSUME IInv, Awaits("callback"), ConnInv',
         UNCHANGED <<now, cli, windows, net, reply, service, log>>
  PROVE  IInv'
<1>1. ~Awaits("api")
  BY DEF Awaits
<1>2. Number' = Number
  BY DEF Number
<1>3. RunTyped' /\ Timers' /\ LogTyped'
  BY <1>2 DEF IInv, RunTyped, Timers, LogTyped
<1>4. reply = None
  BY <1>1 DEF IInv, TypeOK
<1>5. TypeOK'
  BY <1>4 DEF IInv, TypeOK, Awaits
<1>6. ReplyInv'
  BY <1>4 DEF ReplyInv
<1> QED
  BY <1>1, <1>3, <1>5, <1>6, Ledger DEF IInv

\* The request that is prepared is the one of the command line.
LEMMA PreparedRequest ==
  ASSUME Prepared.ok
  PROVE  /\ cli.args.op = "status" => Prepared.value.method = "GET"
         /\ cli.args.op # "status" =>
              /\ Prepared.value.method = "PUT"
              /\ Prepared.value.key = IdempotencyKey
              /\ Prepared.value.expected = cli.args.expected
<1>1. CASE cli.args.op = "status"
  BY <1>1 DEF Prepared, prepare_status_get, Ok
<1>2. CASE cli.args.op # "status"
  <2> DEFINE put == [method |-> "PUT", device |-> Device,
                     expected |-> cli.args.expected, key |-> IdempotencyKey]
             failed == Err("InvalidInput")
  <2>1. \A n : I64(n) = Ok(n) \/ I64(n) = failed
    BY DEF I64
  <2>2. Prepared = prepare_policy_put(Device, cli.args.expected, IdempotencyKey,
                                      cli.args.policy)
    BY <1>2 DEF Prepared
  <2>3. Prepared = Ok(put) \/ ~Prepared.ok
    <3>1. ~failed.ok /\ \A a : Ok(a).ok
      BY Fields
    <3> HIDE DEF put, failed
    <3>2. Prepared =
            IF I64(cli.args.policy.renew_before).ok
            THEN IF I64(cli.args.policy.validity).ok
                 THEN IF I64(cli.args.expected).ok THEN Ok(put) ELSE I64(cli.args.expected)
                 ELSE I64(cli.args.policy.validity)
            ELSE I64(cli.args.policy.renew_before)
      BY <2>2 DEF prepare_policy_put, Then, put
    <3> QED
      BY <3>2
  <2>4. Prepared = Ok(put)
    BY <2>3
  <2> QED
    BY <1>2, <2>4, Fields
<1> QED
  BY <1>1, <1>2

\* Sending the request of a finished login keeps the invariant.
LEMMA SendStep ==
  ASSUME IInv, cli # None, cli.stage = "jwks", cli.token.nonce = cli.number,
         Prepared.ok, SendApi(Prepared.value), UNCHANGED <<now, windows, service>>
  PROVE  IInv'
<1>1. ~Awaits("api") /\ reply = None /\ conn = None
  BY DEF IInv, TypeOK, Awaits
<1>2. Number' = Number /\ cli.number = Number
  BY DEF SendApi, Number, IInv, TypeOK
<1>3. cli' = Run(Number, cli.args, "api", cli.started, None, now + ApiLimit, None, cli.since)
  <2>1. cli = Run(Number, cli.args, cli.stage, cli.started, cli.deadline,
                  cli.call, cli.token, cli.since)
    BY DEF IInv, RunTyped
  <2>2. cli' = Sent(cli, "api", now + ApiLimit, None)
    BY DEF SendApi, Sent
  <2> QED
    BY <2>1, <2>2, EnterRecord
<1>4. /\ cli'.number = Number /\ cli'.args = cli.args /\ cli'.stage = "api"
      /\ cli'.started = cli.started /\ cli'.deadline = None
      /\ cli'.call = now + ApiLimit /\ cli'.token = None /\ cli'.since = cli.since
  BY <1>3 DEF Run
<1>5. now \in Nat /\ Len(log) \in Nat /\ DOMAIN log = 1 .. Len(log)
  BY DEF IInv, TypeOK, LogTyped
<1>6. UNCHANGED <<conn, reply, log>>
  BY DEF SendApi
<1>7. \A n : ArgsOf(n)' = ArgsOf(n) /\ KeyOf(n)' = KeyOf(n)
  BY <1>4, <1>6 DEF ArgsOf, KeyOf
<1>8. RunTyped'
  BY <1>2, <1>3, <1>4 DEF IInv, RunTyped, Stages
<1>9. Timers'
  <2>1. /\ cli.started \in Nat /\ cli.deadline = cli.started + LoginLimit
        /\ now <= cli.deadline + BrowserLimit
    BY DEF IInv, Timers
  <2> QED
    BY <1>4, <1>5, <2>1, LimitsAssumption DEF Timers
<1>10. TypeOK'
  BY <1>1, <1>2, <1>4, <1>6 DEF IInv, TypeOK, Number, Stages
<1>11. LogTyped' /\ ConnInv' /\ ReplyInv'
  BY <1>1, <1>6 DEF IInv, LogTyped, ConnInv, ReplyInv
<1>12. PICK new : net' = net \union {new} /\ new.from = Number /\ new.nonce = Number
                   /\ new.request = Prepared.value
  <2> DEFINE q == [from |-> cli.number, nonce |-> cli.token.nonce,
                   request |-> Prepared.value]
  <2>1. net' = net \union {q} /\ q.from = Number /\ q.nonce = Number
        /\ q.request = Prepared.value
    BY <1>2 DEF SendApi
  <2> QED
    BY <2>1
<1>13. cli' # None
  <2>1. cli' \in Calling
    BY <1>3, <1>5, LimitsAssumption DEF Run, Calling, IInv, RunTyped, Timers, Number
  <2> QED
    BY <2>1, NoneAssumption
<1>14. Awaits("api")'
  BY <1>4, <1>13 DEF Awaits
<1>15. ~(Number \in DOMAIN log) /\ ArgsOf(Number) = cli.args /\ KeyOf(Number) = IdempotencyKey
  BY <1>2, <1>5 DEF Number, ArgsOf, KeyOf, IdempotencyKey
<1>16. RequestOf(new)'
  <2>1. new.from \in 1 .. Number' /\ new.nonce = new.from /\ reply' = None
    BY <1>1, <1>2, <1>5, <1>6, <1>12 DEF Number
  <2>2. ArgsOf(new.from)' = cli.args /\ KeyOf(new.from)' = IdempotencyKey
    BY <1>7, <1>12, <1>15
  <2>3. /\ new.request.method = "PUT" =>
             /\ cli.args.op # "status"
             /\ new.request.key = IdempotencyKey
             /\ new.request.expected = cli.args.expected
        /\ new.request.method = "GET" => cli.args.op = "status"
    BY <1>12, PreparedRequest
  <2> QED
    BY <1>14, <2>1, <2>2, <2>3 DEF RequestOf
<1>17. \A q \in net : q.from # Number
  BY <1>1 DEF IInv, NetInv, RequestOf
<1>18. NetInv'
  <2>1. ASSUME NEW q \in net PROVE RequestOf(q)'
    <3>1. RequestOf(q) /\ q.from # Number
      BY <1>17 DEF IInv, NetInv
    <3> QED
      BY <1>2, <1>7, <3>1 DEF RequestOf
  <2>2. \A x, y \in net' : x.from = y.from => x = y
    <3>1. \A x, y \in net : x.from = y.from => x = y
      BY DEF IInv, NetInv
    <3> QED
      BY <1>12, <1>17, <3>1
  <2> QED
    BY <1>12, <1>16, <2>1, <2>2 DEF NetInv
<1>19. DoneInv'
  <2>1. ASSUME NEW d \in service.done PROVE EntryOf(d)' /\ d.from # Number
    <3>1. EntryOf(d) /\ d.from # Number
      BY <1>1 DEF IInv, DoneInv, EntryOf
    <3> QED
      BY <1>2, <1>7, <3>1 DEF EntryOf
  <2>2. \A d \in service.done, q \in net' : d.from # q.from
    BY <1>12, <2>1 DEF IInv, DoneInv
  <2> QED
    BY <2>1, <2>2 DEF IInv, DoneInv
<1>20. LogInv'
  <2>1. ASSUME NEW i \in DOMAIN log
        PROVE  Truthful(i, log[i].args, log[i].since, log[i].result)'
    <3>1. Truthful(i, log[i].args, log[i].since, log[i].result)
      BY DEF IInv, LogInv
    <3>2. Stale(log[i].args)' = Stale(log[i].args)
      BY <1>6 DEF Stale
    <3>3. Mutations(i)' = Mutations(i)
      BY <1>5, <1>12 DEF Mutations, Number
    <3> QED
      BY <1>6, <1>7, <3>1, <3>2, <3>3 DEF Truthful
  <2> QED
    BY <1>6, <2>1 DEF LogInv
<1> QED
  BY <1>8, <1>9, <1>10, <1>11, <1>18, <1>19, <1>20 DEF IInv

\* The service accepts a PUT it has not handled yet.
Commits(q) ==
  /\ q.request.method = "PUT" /\ Known(q.request) = {}
  /\ q.request.expected = service.generation
  /\ service' = [generation |-> service.generation + 1,
                 done |-> service.done \union
                   {[key |-> q.request.key, from |-> q.from,
                     generation |-> service.generation + 1]}]

\* The service handles a request, whoever still waits for it.
LEMMA HandleStep ==
  ASSUME IInv, NEW q \in net, NEW r, Answers(q, r),
         UNCHANGED <<now, cli, conn, windows, log>>,
         UNCHANGED service \/ Commits(q),
         Awaits("api") /\ cli.number = q.from => Answered(r)'
  PROVE  IInv'
<1>1. RequestOf(q) /\ net' = net \ {q}
  BY DEF IInv, NetInv, Answers
<1>2. /\ Number' = Number /\ Awaits("api")' = Awaits("api")
      /\ \A n : ArgsOf(n)' = ArgsOf(n) /\ KeyOf(n)' = KeyOf(n)
  BY DEF Number, Awaits, ArgsOf, KeyOf
<1>3. /\ service.generation \in Nat \ {0}
      /\ service'.generation \in Nat \ {0} /\ service.generation <= service'.generation
      /\ service.done \subseteq service'.done
      /\ service' = [generation |-> service'.generation, done |-> service'.done]
  <2>1. CASE UNCHANGED service
    BY <2>1 DEF IInv, DoneInv
  <2>2. CASE Commits(q)
    BY <2>2 DEF Commits, IInv, DoneInv
  <2> QED
    BY <2>1, <2>2
<1>4. ASSUME NEW d \in service'.done, d \notin service.done
      PROVE  /\ d.from = q.from /\ d.key = q.request.key
             /\ d.generation = service.generation + 1
             /\ service'.generation = service.generation + 1
             /\ q.request.method = "PUT" /\ q.request.expected = service.generation
             /\ \A e \in service.done : e.key # q.request.key
             /\ \A e \in service'.done : e \in service.done \/ e = d
  <2>1. Commits(q)
    BY <1>4
  <2> QED
    BY <1>4, <2>1 DEF Commits, Known
<1>5. \A e \in service.done : EntryOf(e) /\ e.from # q.from
  BY DEF IInv, DoneInv
<1>6. \A p \in net' : p \in net /\ p.from # q.from
  BY <1>1 DEF IInv, NetInv
<1>7. NetInv'
  <2>1. ASSUME NEW p \in net' PROVE RequestOf(p)'
    <3>1. RequestOf(p) /\ p.from # q.from
      BY <1>6 DEF IInv, NetInv
    <3>2. p.from = Number => reply' = None
      BY <1>6, <3>1 DEF RequestOf, Answers, IInv, TypeOK, Number, Awaits
    <3> QED
      BY <1>2, <3>1, <3>2 DEF RequestOf
  <2>2. \A x, y \in net' : x.from = y.from => x = y
    BY <1>6 DEF IInv, NetInv
  <2> QED
    BY <2>1, <2>2 DEF NetInv
<1>8. DoneInv'
  <2>1. ASSUME NEW d \in service'.done PROVE EntryOf(d)'
    <3>1. CASE d \in service.done
      BY <1>2, <1>3, <1>5, <3>1 DEF EntryOf
    <3>2. CASE d \notin service.done
      <4>1. /\ d.from = q.from /\ d.key = q.request.key
            /\ d.generation = service.generation + 1
            /\ service'.generation = service.generation + 1
            /\ q.request.method = "PUT" /\ q.request.expected = service.generation
        BY <1>4, <3>2
      <4> QED
        BY <1>1, <1>2, <1>3, <4>1 DEF EntryOf, RequestOf
    <3> QED
      BY <3>1, <3>2
  <2>2. \A d, e \in service'.done : d.from = e.from \/ d.key = e.key => d = e
    <3>1. \A d, e \in service.done : d.from = e.from \/ d.key = e.key => d = e
      BY DEF IInv, DoneInv
    <3> QED
      BY <1>4, <1>5, <3>1
  <2>3. \A d \in service'.done, p \in net' : d.from # p.from
    <3>1. \A d \in service.done, p \in net : d.from # p.from
      BY DEF IInv, DoneInv
    <3> QED
      BY <1>4, <1>6, <3>1
  <2> QED
    BY <1>3, <2>1, <2>2, <2>3 DEF DoneInv
<1>9. ASSUME NEW a \in Invocations, Stale(a)
      PROVE  Stale(a)'
  <2>1. a.expected \in Nat /\ a.expected < service.generation
    BY <1>9, InvocationsAssumption, RotationModelAssumption DEF Stale
  <2>2. \A d \in service'.done : d.key # a.key \/ d.generation # a.expected + 1
    BY <1>3, <1>4, <1>9, <2>1 DEF Stale
  <2> QED
    BY <1>3, <2>1, <2>2 DEF Stale
<1>10. ASSUME NEW n, n # q.from, ~Applied(n)
       PROVE  ~Applied(n)'
  BY <1>4, <1>10 DEF Applied
<1>11. LogInv'
  <2>1. ASSUME NEW i \in DOMAIN log
        PROVE  Truthful(i, log[i].args, log[i].since, log[i].result)'
    <3>1. Truthful(i, log[i].args, log[i].since, log[i].result) /\ log[i].args \in Invocations
      BY DEF IInv, LogInv, LogTyped
    <3>2. Mutations(i) = {} => Mutations(i)' = {}
      BY <1>4, <1>6 DEF Mutations
    <3>3. Stale(log[i].args) => Stale(log[i].args)'
      BY <1>9, <3>1
    <3> QED
      BY <1>2, <1>3, <3>1, <3>2, <3>3 DEF Truthful
  <2> QED
    BY <2>1 DEF LogInv
<1>12. ReplyInv'
  <2>1. CASE Awaits("api") /\ cli.number = q.from
    BY <2>1 DEF ReplyInv, Answers
  <2>2. CASE ~(Awaits("api") /\ cli.number = q.from)
    <3> SUFFICES ASSUME reply # None, reply' = reply PROVE Answered(reply)'
      BY <2>2 DEF ReplyInv, Answers
    <3>1. /\ Answered(reply) /\ cli # None /\ cli.number # q.from
          /\ cli.args \in Invocations
      BY <2>2 DEF IInv, ReplyInv, TypeOK, Awaits, RunTyped
    <3>2. Stale(cli.args) => Stale(cli.args)'
      BY <1>9, <3>1
    <3>3. ~Applied(cli.number) => ~Applied(cli.number)'
      BY <1>10, <3>1
    <3>4. \A g \in 1 .. service.generation : g \in 1 .. service'.generation
      BY <1>3
    <3> HIDE DEF ReplyInv
    <3> QED
      BY <1>2, <1>3, <3>1, <3>2, <3>3, <3>4 DEF Answered
  <2> QED
    BY <2>1, <2>2
<1>13. TypeOK' /\ RunTyped' /\ Timers' /\ ConnInv' /\ LogTyped'
  <2>1. reply' # None => Awaits("api")'
    BY <1>2 DEF IInv, TypeOK, Answers
  <2>2. cli # None => cli.since \in Nat /\ cli.since <= service'.generation
    BY <1>3 DEF IInv, RunTyped
  <2> QED
    BY <1>2, <2>1, <2>2 DEF IInv, TypeOK, RunTyped, Timers, ConnInv, LogTyped, Awaits
<1> QED
  BY <1>7, <1>8, <1>11, <1>12, <1>13 DEF IInv

\* Every answer the service gives to a request it handles is one the CLI may
\* rely on.
LEMMA ServiceStep ==
  ASSUME IInv, Service
  PROVE  IInv'
<1>1. PICK q \in net : ServiceHandles(q)
  BY DEF Service
<1>2. UNCHANGED <<now, cli, conn, windows, log>>
  BY DEF Service
<1>3. /\ RequestOf(q)
      /\ \A d \in service.done : d.from # q.from
  BY DEF IInv, NetInv, DoneInv
<1>4. \A n : ArgsOf(n)' = ArgsOf(n) /\ KeyOf(n)' = KeyOf(n)
  BY <1>2 DEF ArgsOf, KeyOf
<1>5. ASSUME Awaits("api"), cli.number = q.from
      PROVE  /\ ArgsOf(q.from) = cli.args /\ ~Applied(cli.number)
             /\ cli.args \in Invocations
             /\ cli.since \in Nat /\ cli.since <= service.generation
  <2>1. cli # None /\ cli.number = Len(log) + 1 /\ log \in Seq({log[i] : i \in DOMAIN log})
    BY <1>5 DEF Awaits, IInv, TypeOK, LogTyped
  <2>2. cli.number \notin DOMAIN log
    BY <2>1
  <2> QED
    BY <1>3, <1>5, <2>1, <2>2 DEF ArgsOf, Applied, IInv, RunTyped
<1>6. service.generation \in Nat \ {0}
  BY DEF IInv, DoneInv
<1>7. CASE \E r \in Refused \union {Failed} : Answers(q, r) /\ UNCHANGED service
  <2>1. PICK r \in Refused \union {Failed} : Answers(q, r) /\ UNCHANGED service
    BY <1>7
  <2>2. Awaits("api") /\ cli.number = q.from => Answered(r)'
    BY <1>2, <1>5, <2>1 DEF Answered, Spoiled, Applied
  <2> QED
    BY <1>2, <2>1, <2>2, HandleStep
<1>8. CASE /\ q.request.method = "GET" /\ UNCHANGED service
           /\ \E r \in Spoiled \union {StatusAnswer} : Answers(q, r)
  <2>1. PICK r \in Spoiled \union {StatusAnswer} : Answers(q, r)
    BY <1>8
  <2>2. ASSUME Awaits("api"), cli.number = q.from PROVE Answered(r)'
    <3>1. CASE r \in Spoiled
      BY <3>1 DEF Answered
    <3>2. CASE r = StatusAnswer
      <4>1. cli.args.op = "status" /\ ~Applied(cli.number)
        BY <1>3, <1>5, <1>8, <2>2 DEF RequestOf
      <4>2. service.generation \in 1 .. service.generation
        BY <1>6
      <4>3. \E g \in 1 .. service.generation :
              r = Reply(200, [shape |-> "status", data |-> [desired |-> g,
                              observed_generation |-> g, conditions |-> {}]])
        BY <3>2, <4>2 DEF StatusAnswer
      <4> QED
        BY <1>2, <1>8, <4>1, <4>3 DEF Answered, Applied
    <3> QED
      BY <2>1, <3>1, <3>2
  <2> QED
    BY <1>2, <1>8, <2>1, <2>2, HandleStep
<1>9. CASE /\ q.request.method = "PUT" /\ Commit(q)
           /\ \E r \in Spoiled \union {PutAnswer(q.request)} : Answers(q, r)
  <2>1. PICK r \in Spoiled \union {PutAnswer(q.request)} : Answers(q, r)
    BY <1>9
  <2>2. UNCHANGED service \/ Commits(q)
    BY <1>9 DEF Commit, Commits
  <2>3. ASSUME Awaits("api"), cli.number = q.from, r = PutAnswer(q.request)
        PROVE  Answered(r)'
    <3>1. /\ cli.args.op # "status" /\ q.request.key = KeyOf(cli.number)
          /\ q.request.expected = cli.args.expected
          /\ cli.args.expected \in Nat
      BY <1>3, <1>5, <1>9, <2>3, InvocationsAssumption, RotationModelAssumption
      DEF RequestOf
    <3>2. CASE ~Accepts(q.request)
      <4>1. r = ConflictReply /\ UNCHANGED service
        BY <1>9, <2>3, <3>2 DEF PutAnswer, ConflictReply, Accepts, Commit
      <4>2. /\ \A d \in service.done : d.key # q.request.key
            /\ q.request.expected # service.generation
        BY <3>2 DEF Accepts, Known
      <4>3. cli.args.key # None /\ cli.args.expected <= cli.since => Stale(cli.args)
        BY <1>5, <1>6, <2>3, <3>1, <4>2 DEF Stale, KeyOf
      <4>4. Stale(cli.args) => Stale(cli.args)'
        BY <1>2, <4>1 DEF Stale
      <4>5. ~Applied(cli.number)'
        BY <1>2, <1>5, <2>3, <4>1 DEF Applied
      <4> QED
        BY <1>2, <3>1, <4>1, <4>3, <4>4, <4>5 DEF Answered
    <3>3. CASE Known(q.request) # {}
      <4>1. PICK d \in Known(q.request) : r = Accepted(d.generation)
        BY <2>3, <3>3 DEF PutAnswer, Accepts
      <4>2. d \in service.done /\ d.key = KeyOf(cli.number)
        BY <3>1, <4>1 DEF Known
      <4>3. UNCHANGED service
        BY <1>9, <3>3 DEF Commit
      <4> QED
        BY <1>2, <1>4, <3>1, <4>1, <4>2, <4>3 DEF Answered
    <3>4. CASE Known(q.request) = {} /\ q.request.expected = service.generation
      <4>1. r = Accepted(service.generation + 1)
        BY <2>3, <3>4 DEF PutAnswer, Accepts
      <4>2. \E d \in service'.done :
              d.key = q.request.key /\ d.generation = service.generation + 1
        <5> DEFINE e == [key |-> q.request.key, from |-> q.from,
                         generation |-> service.generation + 1]
        <5>1. service' = [generation |-> service.generation + 1,
                          done |-> service.done \union {e}]
          BY <1>9, <3>4 DEF Commit
        <5>2. e \in service'.done
          BY <5>1
        <5> QED
          BY <5>2
      <4> QED
        BY <1>2, <1>4, <3>1, <4>1, <4>2 DEF Answered
    <3> QED
      BY <3>2, <3>3, <3>4 DEF Accepts
  <2>4. Awaits("api") /\ cli.number = q.from => Answered(r)'
    BY <2>1, <2>3 DEF Answered
  <2> QED
    BY <1>2, <2>1, <2>2, <2>4, HandleStep
<1> QED
  BY <1>1, <1>7, <1>8, <1>9 DEF ServiceHandles

\* A step of the clock alone.
LEMMA ClockStep ==
  ASSUME IInv, now' \in 0 .. MaxTime, Timers',
         UNCHANGED <<cli, conn, windows, net, reply, service, log>>
  PROVE  IInv'
<1>1. TypeOK'
  BY DEF IInv, TypeOK, Awaits
<1>2. Number' = Number /\ \A n : ArgsOf(n)' = ArgsOf(n) /\ KeyOf(n)' = KeyOf(n)
  BY DEF Number, ArgsOf, KeyOf
<1>3. LogTyped' /\ RunTyped' /\ ConnInv'
  BY <1>2 DEF IInv, LogTyped, RunTyped, ConnInv
<1>4. NetInv' /\ DoneInv'
  BY <1>2 DEF IInv, NetInv, DoneInv, RequestOf, EntryOf, Awaits
<1>5. ReplyInv' /\ LogInv'
  BY <1>2 DEF IInv, ReplyInv, LogInv, Answered, Truthful, Stale, Applied, Mutations
<1> QED
  BY <1>1, <1>3, <1>4, <1>5 DEF IInv

\* The clock does not pass a deadline.
LEMMA TickStep ==
  ASSUME IInv, Tick
  PROVE  IInv'
<1>1. now \in Nat /\ now' = now + 1 /\ now' <= MaxTime /\ now' \in 0 .. MaxTime
  BY LimitsAssumption DEF IInv, TypeOK, Tick
<1>2. UNCHANGED <<cli, conn, windows, net, reply, service, log>>
  BY DEF Tick
<1>3. Timers'
  <2> SUFFICES ASSUME cli # None PROVE Timers'
    BY <1>2 DEF Timers
  <2>1. CASE cli.stage \notin {"browser", "api"}
    <3>1. cli.deadline \in Nat /\ cli.deadline # None
      BY <2>1, LimitsAssumption DEF IInv, Timers
    <3>2. now < cli.deadline
      BY <1>1, <2>1, <3>1 DEF Tick, Due, LoginDue
    <3> QED
      BY <1>1, <1>2, <2>1, <3>1, <3>2, LimitsAssumption DEF IInv, Timers
  <2>3. CASE cli.stage = "browser"
    <3>1. cli.call \in Nat /\ now < cli.call
      BY <1>1, <2>3 DEF Tick, Due, IInv, Timers
    <3>2. cli.deadline \in Nat /\ cli.call <= cli.deadline + BrowserLimit
      BY <2>3, LimitsAssumption DEF IInv, Timers
    <3> QED
      BY <1>1, <1>2, <2>3, <3>1, <3>2, LimitsAssumption DEF IInv, Timers
  <2>2. CASE cli.stage = "api"
    <3>1. cli.call \in Nat /\ now < cli.call
      BY <1>1, <2>2 DEF Tick, Due, IInv, Timers
    <3> QED
      BY <1>1, <1>2, <2>2, <3>1 DEF IInv, Timers
  <2> QED
    BY <2>1, <2>2, <2>3
<1> QED
  BY <1>1, <1>2, <1>3, ClockStep

\* Starting an invocation, or refusing its command line.
LEMMA InvokeStep ==
  ASSUME IInv, NEW a \in Invocations, Invoke(a)
  PROVE  IInv'
<1>1. cli = None /\ conn = None /\ reply = None /\ ~Awaits("api")
  BY DEF Invoke, IInv, TypeOK, Awaits
<1>2. UNCHANGED <<now, conn, windows, net, reply, service>> /\ now \in Nat
  BY DEF Invoke, IInv, TypeOK
<1>3. service.generation \in Nat
  BY DEF IInv, DoneInv
<1>4. CASE CommandLineValid(a)
  <2>1. /\ cli' = Run(Number, a, "discovery", now, now + LoginLimit, now + LoginLimit,
                      None, service.generation)
        /\ log' = log
    BY <1>4 DEF Invoke, Run, Number
  <2>2. /\ cli'.number = Number /\ cli'.args = a /\ cli'.stage = "discovery"
        /\ cli'.started = now /\ cli'.deadline = now + LoginLimit
        /\ cli'.call = now + LoginLimit /\ cli'.token = None
        /\ cli'.since = service.generation
    BY <2>1 DEF Run
  <2>3. Number' = Number
    BY <2>1 DEF Number
  <2>4. RunTyped'
    BY <1>2, <1>3, <2>1, <2>2, <2>3 DEF RunTyped, Stages
  <2>5. Timers'
    BY <1>2, <2>2, LimitsAssumption DEF Timers
  <2>6. TypeOK'
    BY <1>1, <1>2, <2>1, <2>2 DEF IInv, TypeOK, Number, Stages
  <2>7. LogTyped' /\ ConnInv' /\ ReplyInv'
    BY <1>1, <1>2, <2>1 DEF IInv, LogTyped, ConnInv, ReplyInv
  <2>8. NetInv' /\ DoneInv' /\ LogInv'
    BY <1>1, <1>2, <2>1, Ledger
  <2> QED
    BY <2>4, <2>5, <2>6, <2>7, <2>8 DEF IInv
<1>5. CASE ~CommandLineValid(a)
  <2> DEFINE e == Entry(a, service.generation, Input)
  <2>1. cli' = None /\ log' = Append(log, e)
    BY <1>1, <1>5 DEF Invoke
  <2>2. e.args = a /\ e.since = service.generation /\ e.result = Input
        /\ Input.class = "Input"
    BY DEF Entry, Input, AppError
  <2> HIDE DEF e
  <2>3. /\ Len(log) \in Nat /\ DOMAIN log = 1 .. Len(log)
        /\ Len(log') = Len(log) + 1 /\ DOMAIN log' = 1 .. Number
        /\ \A i \in DOMAIN log : log'[i] = log[i]
        /\ log'[Number] = e
        /\ log' \in Seq({log'[i] : i \in DOMAIN log'})
    BY <2>1, LogAppend DEF Number, IInv, LogTyped
  <2>4. \A n \in DOMAIN log : ArgsOf(n)' = ArgsOf(n) /\ KeyOf(n)' = KeyOf(n)
    BY <2>3 DEF ArgsOf, KeyOf, Number
  <2>5. Number' = Number + 1
    BY <2>3 DEF Number
  <2>6. LogTyped'
    BY <1>3, <2>2, <2>3 DEF IInv, LogTyped, Classes, Number
  <2>7. TypeOK'
    <3>1. windows' \subseteq 1 .. Len(log') + 1
      BY <1>2, <2>3 DEF IInv, TypeOK
    <3> QED
      BY <1>1, <1>2, <2>1, <2>6, <3>1 DEF IInv, TypeOK, LogTyped
  <2>8. RunTyped' /\ Timers' /\ ConnInv' /\ ReplyInv'
    BY <1>1, <1>2, <2>1 DEF RunTyped, Timers, ConnInv, ReplyInv
  <2>9. ASSUME NEW q \in net
        PROVE  RequestOf(q)' /\ q.from \in DOMAIN log
    <3>1. RequestOf(q)
      BY DEF IInv, NetInv
    <3>2. q.from \in DOMAIN log /\ q.from \in 1 .. Number' /\ q.from # Number'
      BY <1>1, <2>3, <2>5, <3>1 DEF RequestOf, Number
    <3> QED
      BY <2>4, <3>1, <3>2 DEF RequestOf
  <2>10. ASSUME NEW d \in service.done
         PROVE  EntryOf(d)' /\ d.from \in DOMAIN log
    <3>1. EntryOf(d)
      BY DEF IInv, DoneInv
    <3>2. d.from \in DOMAIN log /\ d.from \in 1 .. Number' /\ d.from # Number'
      BY <1>1, <2>3, <2>5, <3>1 DEF EntryOf, Number
    <3> QED
      BY <1>2, <2>4, <3>1, <3>2 DEF EntryOf
  <2>11. NetInv' /\ DoneInv'
    BY <1>2, <2>9, <2>10 DEF IInv, NetInv, DoneInv
  <2>12. LogInv'
    <3>1. ASSUME NEW i \in DOMAIN log
          PROVE  Truthful(i, log[i].args, log[i].since, log[i].result)'
      <4>1. Truthful(i, log[i].args, log[i].since, log[i].result)
        BY DEF IInv, LogInv
      <4>2. Mutations(i)' = Mutations(i)
        BY <1>2 DEF Mutations
      <4>3. log'[i] = log[i] /\ KeyOf(i)' = KeyOf(i)
        BY <2>3, <2>4
      <4>4. Stale(log[i].args)' = Stale(log[i].args)
        BY <1>2, <4>3 DEF Stale
      <4> QED
        BY <1>2, <4>1, <4>2, <4>3, <4>4 DEF Truthful
    <3>2. ASSUME NEW n, n = Number
          PROVE  Truthful(n, log[n].args, log[n].since, log[n].result)'
      <4>1. log'[n].result.class = "Input" /\ log'[n].result.code = "local"
        BY <2>2, <2>3, <3>2 DEF Input, AppError
      <4>2. n \notin DOMAIN log
        BY <2>3, <3>2 DEF Number
      <4>3. Mutations(n)' = {}
        BY <1>2, <2>9, <2>10, <4>2 DEF Mutations
      <4> QED
        BY <4>1, <4>3 DEF Truthful
    <3>3. \A i \in DOMAIN log' : i \in DOMAIN log \/ i = Number
      BY <2>3 DEF Number
    <3> QED
      BY <3>1, <3>2, <3>3 DEF LogInv
  <2> QED
    BY <2>6, <2>7, <2>8, <2>11, <2>12 DEF IInv
<1> QED
  BY <1>4, <1>5

\* The listener reads a callback: only the code of this login is taken.
LEMMA ReadCallbackStep ==
  ASSUME IInv, ReadCallback
  PROVE  IInv'
<1>1. /\ Awaits("callback") /\ conn # None /\ conn.request # None
      /\ UNCHANGED <<now, windows, net, service>>
      /\ cli # None /\ cli.stage # "api" /\ cli.number = Number
  BY DEF ReadCallback, Awaits, IInv, TypeOK, Number
<1>2. PICK o \in {parse_callback_request(conn.request, cli.number)} :
        \/ o = None /\ conn' = None /\ UNCHANGED <<cli, reply, log>>
        \/ o # None /\ o.outcome = "Rejected" /\ End(Auth)
        \/ /\ o # None /\ o.outcome = "Code"
           /\ Enter("token", o.code, LoginLimit) /\ conn' = None
           /\ UNCHANGED <<reply, log>>
  BY DEF ReadCallback
<1>3. CASE conn' = None /\ UNCHANGED <<cli, reply, log>>
  BY <1>1, <1>3, ConnStep DEF ConnInv
<1>4. CASE End(Auth)
  BY <1>1, <1>4, EndLogin DEF LocalErrors
<1>5. CASE /\ o # None /\ o.outcome = "Code"
           /\ Enter("token", o.code, LoginLimit) /\ conn' = None
           /\ UNCHANGED <<reply, log>>
  <2>1. /\ conn.request.states = <<cli.number>> /\ ~conn.request.error
        /\ o = [outcome |-> "Code", code |-> conn.request.codes[1]]
    BY <1>2, <1>5 DEF parse_callback_request
  <2>2. conn.request.codes = <<cli.number>>
    BY <1>1, <2>1 DEF IInv, ConnInv
  <2>3. o.code = cli.number
    BY <2>1, <2>2
  <2>4. windows' \subseteq 1 .. Number
    BY <1>1 DEF IInv, TypeOK, Number
  <2> QED
    BY <1>1, <1>5, <2>3, <2>4, EnterStep, LimitsAssumption DEF Stages
<1> QED
  BY <1>2, <1>3, <1>4, <1>5

\* What reaches the listener.
LEMMA AcceptStep ==
  ASSUME IInv, Accept
  PROVE  IInv'
<1>1. /\ Awaits("callback") /\ cli # None /\ cli.stage # "api"
      /\ UNCHANGED <<now, windows, net, service>>
  BY DEF Accept, Awaits
<1>2. CASE End(Auth)
  BY <1>1, <1>2, EndLogin DEF LocalErrors
<1>3. CASE /\ \E r \in WindowRequests \union StrayRequests \union {None} :
                 conn' = [request |-> r, until |-> now + ConnectionLimit]
           /\ UNCHANGED <<cli, reply, log>>
  <2>1. PICK r \in WindowRequests \union StrayRequests \union {None} :
          conn' = [request |-> r, until |-> now + ConnectionLimit]
    BY <1>3
  <2>2. r # None => r.error \/ r.codes = r.states
    BY DEF WindowRequests, StrayRequests
  <2>3. ConnInv'
    BY <2>1, <2>2 DEF ConnInv
  <2> QED
    BY <1>1, <1>3, <2>3, ConnStep
<1> QED
  BY <1>2, <1>3 DEF Accept

\* The end of the login: the ID token is validated before anything is sent.
LEMMA LoggedInStep ==
  ASSUME IInv, LoggedIn
  PROVE  IInv'
<1>1. /\ cli # None /\ cli.stage = "jwks" /\ UNCHANGED <<now, windows, service>>
  BY DEF LoggedIn, Awaits
<1>2. PICK r \in JwksReplies :
        \/ /\ ~fetch_jwks(r).ok
           /\ End(fetch_jwks(r).value) /\ UNCHANGED net
        \/ /\ fetch_jwks(r).ok
           /\ IF ~validate_id_token(cli.token, cli.number)
              THEN End(Auth) /\ UNCHANGED net
              ELSE IF cli.args.op = "login"
              THEN End(Success("authenticated")) /\ UNCHANGED net
              ELSE IF ~Prepared.ok
              THEN End(Input) /\ UNCHANGED net
              ELSE SendApi(Prepared.value) \/ HeaderRefused
  BY DEF LoggedIn
<1>3. CASE ~fetch_jwks(r).ok /\ End(fetch_jwks(r).value) /\ UNCHANGED net
  BY <1>1, <1>3, EndLogin, JwksFails
<1>4. CASE (End(Auth) \/ End(Input)) /\ UNCHANGED net
  BY <1>1, <1>4, EndLogin DEF LocalErrors
<1>5. CASE cli.args.op = "login" /\ End(Success("authenticated")) /\ UNCHANGED net
  <2>1. Success("authenticated").class = "Success"
    BY DEF Success
  <2>2. Truthful(cli.number, cli.args, cli.since, Success("authenticated"))
    BY <1>5, <2>1 DEF Truthful
  <2> QED
    BY <1>1, <1>5, <2>1, <2>2, EndStep DEF Classes
<1>6. CASE validate_id_token(cli.token, cli.number) /\ Prepared.ok /\ SendApi(Prepared.value)
  BY <1>1, <1>6, SendStep DEF validate_id_token
<1>7. CASE HeaderRefused
  BY <1>4, <1>7 DEF HeaderRefused
<1> QED
  BY <1>2, <1>3, <1>4, <1>5, <1>6, <1>7

\* The CLI reports what the service answered.
LEMMA ApiRepliedStep ==
  ASSUME IInv, ApiReplied
  PROVE  IInv'
<1>1. /\ cli # None /\ cli.stage = "api" /\ reply # None /\ cli.number = Number
      /\ End(ApiResult(reply)) /\ UNCHANGED <<now, windows, net, service>>
      /\ Answered(reply)
  BY DEF ApiReplied, Awaits, IInv, ReplyInv, TypeOK, Number
<1>2. ~Applied(cli.number) => Mutations(cli.number) = {}
  <2>1. \A q \in net : q.from # cli.number
    BY <1>1 DEF IInv, NetInv, RequestOf
  <2> QED
    BY <2>1 DEF Applied, Mutations
<1> SUFFICES ApiResult(reply).class \in Classes
               /\ Truthful(cli.number, cli.args, cli.since, ApiResult(reply))
  BY <1>1, EndStep
<1>3. PICK result : result = ApiResult(reply)
  OBVIOUS
<1>4. CASE reply \in Spoiled
  <2>1. result.class \in {"Transport", "Untrusted"} /\ result.code # "Conflict"
    BY <1>3, <1>4, ApiResults
  <2> QED
    BY <1>3, <2>1 DEF Truthful, Classes
<1>5. CASE reply \in Refused /\ ~Applied(cli.number)
  <2>1. /\ result.class \in {"Auth", "Typed", "Transport", "Untrusted"}
        /\ result.code # "Conflict"
    BY <1>3, <1>5, ApiResults
  <2> QED
    BY <1>2, <1>3, <1>5, <2>1 DEF Truthful, Classes
<1>6. CASE /\ reply = ConflictReply /\ ~Applied(cli.number)
           /\ cli.args.op # "status"
           /\ cli.args.key # None /\ cli.args.expected <= cli.since => Stale(cli.args)
  <2>1. result.class = "Typed"
    BY <1>3, <1>6, ApiResults
  <2> QED
    BY <1>2, <1>3, <1>6, <2>1 DEF Truthful, Classes
<1>7. CASE /\ cli.args.op = "status"
           /\ \E g \in 1 .. service.generation :
                 reply = Reply(200, [shape |-> "status", data |-> [desired |-> g,
                             observed_generation |-> g, conditions |-> {}]])
  <2>1. \A g \in 1 .. service.generation : g \in Nat
    BY DEF IInv, DoneInv
  <2>2. result.class = "Success"
    BY <1>3, <1>7, <2>1, ApiResults
  <2> QED
    BY <1>3, <1>7, <2>2 DEF Truthful, Classes
<1>8. CASE /\ cli.args.op # "status"
           /\ \E d \in service.done :
                 d.key = KeyOf(cli.number) /\ reply = Accepted(d.generation)
  <2>1. PICK d \in service.done :
          d.key = KeyOf(cli.number) /\ reply = Accepted(d.generation)
    BY <1>8
  <2>2. result = Success(RotateRecord(Accepted(d.generation).body.data))
    BY <1>3, <1>8, <2>1, ApiResults
  <2>3. result.class = "Success"
    BY <2>2 DEF Success
  <2> QED
    BY <1>3, <2>1, <2>2, <2>3 DEF Truthful, Classes
<1> QED
  BY <1>1, <1>4, <1>5, <1>6, <1>7, <1>8 DEF Answered

\* Every step keeps the invariant.
LEMMA NextInv == IInv /\ [Next]_vars => IInv'
<1> SUFFICES ASSUME IInv, [Next]_vars PROVE IInv'
  OBVIOUS
<1>1. ASSUME NEW a \in Invocations, Invoke(a) PROVE IInv'
  BY <1>1, InvokeStep
<1>2. CASE Discovered
  <2>1. /\ cli # None /\ cli.stage = "discovery" /\ conn = None
        /\ UNCHANGED <<now, windows, net, service>> /\ windows \subseteq 1 .. Number
    BY <1>2 DEF Discovered, Awaits, IInv, TypeOK, Number
  <2>2. PICK r \in DiscoveryReplies :
          IF discover(r).ok
          THEN Enter("authorize", None, LoginLimit) /\ UNCHANGED <<conn, reply, log>>
          ELSE End(discover(r).value)
    BY <1>2 DEF Discovered
  <2>3. CASE discover(r).ok
    BY <2>1, <2>2, <2>3, EnterStep, LimitsAssumption DEF Stages
  <2>4. CASE ~discover(r).ok
    BY <2>1, <2>2, <2>4, EndLogin, DiscoverFails
  <2> QED
    BY <2>3, <2>4
<1>3. CASE Authorize
  <2>1. /\ cli # None /\ cli.stage = "authorize" /\ conn = None
        /\ UNCHANGED <<now, net, service>> /\ windows \subseteq 1 .. Number
        /\ cli.number \in 1 .. Number
    BY <1>3 DEF Authorize, Awaits, IInv, TypeOK, LogTyped, Number
  <2>2. CASE /\ Enter("browser", None, BrowserLimit)
             /\ windows' = windows \union {cli.number}
             /\ UNCHANGED <<conn, reply, log>>
    BY <2>1, <2>2, EnterStep, LimitsAssumption DEF Stages
  <2>3. CASE End(Auth) /\ UNCHANGED windows
    BY <2>1, <2>3, EndLogin DEF LocalErrors
  <2> QED
    BY <1>3, <2>2, <2>3 DEF Authorize
<1>4. CASE Accept
  BY <1>4, AcceptStep
<1>5. CASE ReadCallback
  BY <1>5, ReadCallbackStep
<1>6. CASE CallbackConnectionTimeout
  BY <1>6, ConnStep DEF CallbackConnectionTimeout, ConnInv
<1>7. CASE Exchanged
  <2>1. /\ cli # None /\ cli.stage = "token" /\ conn = None
        /\ UNCHANGED <<now, windows, net, service>> /\ windows \subseteq 1 .. Number
    BY <1>7 DEF Exchanged, Awaits, IInv, TypeOK, Number
  <2>2. PICK r \in TokenReplies :
          IF exchange(r).ok
          THEN Enter("jwks", r.body.claims, LoginLimit) /\ UNCHANGED <<conn, reply, log>>
          ELSE End(exchange(r).value)
    BY <1>7 DEF Exchanged
  <2>3. CASE exchange(r).ok
    BY <2>1, <2>2, <2>3, EnterStep, LimitsAssumption DEF Stages
  <2>4. CASE ~exchange(r).ok
    BY <2>1, <2>2, <2>4, EndLogin, ExchangeFails
  <2> QED
    BY <2>3, <2>4
<1>8. CASE LoggedIn
  BY <1>8, LoggedInStep
<1>9. CASE ApiReplied
  BY <1>9, ApiRepliedStep
<1>10. CASE LoginTimeout
  <2>1. cli # None /\ cli.stage # "api" /\ End(Auth)
        /\ UNCHANGED <<now, windows, net, service>>
    BY <1>10 DEF LoginTimeout, LoginDue, IInv, Timers
  <2> QED
    BY <2>1, EndLogin DEF LocalErrors
<1>11. CASE CallTimeout
  <2>1. cli # None /\ End(Transport(TRUE)) /\ UNCHANGED <<now, windows, net, service>>
    BY <1>11 DEF CallTimeout
  <2>2. Transport(TRUE).class = "Transport" /\ Transport(TRUE).code = "local"
    BY DEF Transport, AppError
  <2>3. PICK result : result = Transport(TRUE)
    OBVIOUS
  <2>4. Truthful(cli.number, cli.args, cli.since, result) /\ result.class \in Classes
    BY <2>2, <2>3 DEF Truthful, Classes
  <2> QED
    BY <2>1, <2>3, <2>4, EndStep
<1>12. CASE Tick
  BY <1>12, TickStep
<1>13. CASE Service
  BY <1>13, ServiceStep
<1>14. CASE UNCHANGED vars
  <2>1. now' \in 0 .. MaxTime /\ Timers'
    BY <1>14 DEF vars, IInv, TypeOK, Timers
  <2> QED
    BY <1>14, <2>1, ClockStep DEF vars
<1>15. CASE BrowserOpened
  <2>1. /\ cli # None /\ cli.stage = "browser" /\ conn = None
        /\ UNCHANGED <<now, windows, net, service>> /\ windows \subseteq 1 .. Number
    BY <1>15 DEF BrowserOpened, Awaits, IInv, TypeOK, Number
  <2>2. CASE Enter("callback", None, LoginLimit) /\ UNCHANGED <<conn, reply, log>>
    BY <2>1, <2>2, EnterStep, LimitsAssumption DEF Stages
  <2>3. CASE End(Auth)
    BY <2>1, <2>3, EndLogin DEF LocalErrors
  <2> QED
    BY <1>15, <2>2, <2>3 DEF BrowserOpened
<1> QED
  BY <1>1, <1>2, <1>3, <1>4, <1>5, <1>6, <1>7, <1>8, <1>9, <1>10, <1>11, <1>12,
     <1>13, <1>14, <1>15 DEF Next

-----------------------------------------------------------------------------
(* The theorems. *)

\* The invariant holds in every state of every behaviour.
THEOREM Invariance == Spec => []IInv
BY InitInv, NextInv, PTL DEF Spec

\* Types, stages and exit codes are as declared, whatever the service, the
\* provider and the browser windows do.
THEOREM ControlTyped == Spec => []TypeOK
<1>1. IInv => TypeOK
  BY DEF IInv
<1> QED
  BY <1>1, Invariance, PTL

\* No invocation outlives the limit of a login plus the limit of a call plus
\* what its browser command blocks, however its stages share the time
\* (within_login_deadline, execute).
THEOREM BudgetKept == Spec => []InvocationBudget
<1>1. IInv => InvocationBudget
  <2> SUFFICES ASSUME IInv, cli # None
               PROVE  now <= cli.started + LoginLimit
                             + (IF cli.stage \in {"discovery", "authorize"}
                                THEN 0 ELSE BrowserLimit)
                             + (IF cli.stage = "api" THEN ApiLimit ELSE 0)
    BY DEF InvocationBudget
  <2>1. now \in Nat /\ cli.started \in Nat /\ cli.call \in Nat
    BY DEF IInv, TypeOK, Timers
  <2>2. CASE cli.stage = "api"
    BY <2>1, <2>2, LimitsAssumption DEF IInv, Timers
  <2>3. CASE cli.stage # "api"
    BY <2>1, <2>3, LimitsAssumption DEF IInv, Timers
  <2> QED
    BY <2>2, <2>3
<1> QED
  BY <1>1, Invariance, PTL

\* A request goes out only on the ID token of its own login, and only the code
\* of the own login is exchanged (parse_callback_request, validate_id_token).
THEOREM OwnLogin == Spec => []RequestsOfOwnLogin
<1>1. IInv => RequestsOfOwnLogin
  BY DEF IInv, NetInv, RequestOf, RunTyped, RequestsOfOwnLogin
<1> QED
  BY <1>1, Invariance, PTL

\* An invocation puts at most one mutation before the service.
THEOREM SingleMutation == Spec => []OneMutation
<1>1. ASSUME IInv, NEW n \in 1 .. MaxInvocations
      PROVE  Cardinality(Mutations(n)) <= 1
  <2>1. \A x, y \in Mutations(n) : x = y
    BY <1>1 DEF IInv, NetInv, DoneInv, Mutations
  <2>2. CASE Mutations(n) = {}
    BY <2>2, FS_EmptySet
  <2>3. CASE Mutations(n) # {}
    <3>1. PICK x : x \in Mutations(n)
      BY <2>3
    <3>2. \A y : y \in Mutations(n) <=> y \in {x}
      BY <2>1, <3>1
    <3>3. Mutations(n) = {x}
      BY <3>2, Zenon
    <3>4. Cardinality({x}) = 1
      BY FS_Singleton
    <3> QED
      BY <3>3, <3>4
  <2> QED
    BY <2>2, <2>3
<1>2. IInv => OneMutation
  BY <1>1 DEF OneMutation
<1> QED
  BY <1>2, Invariance, PTL

\* Exit codes 2, 3 and 4 are definite: nothing of the invocation is applied and
\* nothing of it is still on its way.
THEOREM DefiniteFailure == Spec => []DefiniteFailureUnapplied
<1>1. ASSUME IInv, NEW i \in DOMAIN log,
             exit_code(log[i].result.class) \in {2, 3, 4}
      PROVE  Mutations(i) = {}
  <2>1. log[i].result.class \in Classes
    BY <1>1 DEF IInv, LogTyped
  <2>2. \A c \in Classes : exit_code(c) \in {2, 3, 4} => c \in {"Input", "Auth", "Typed"}
    BY DEF exit_code, Classes
  <2> QED
    BY <1>1, <2>1, <2>2 DEF IInv, LogInv, Truthful
<1>2. IInv => DefiniteFailureUnapplied
  BY <1>1 DEF DefiniteFailureUnapplied
<1> QED
  BY <1>2, Invariance, PTL

\* A record that rotate prints is true of the service, and audit accepts it.
THEOREM PrintedApplied == Spec => []AcceptedIsApplied
<1>1. ASSUME IInv, NEW i \in Rotations, Printed(i)
      PROVE  /\ audit(log[i].result.value)
             /\ \E d \in service.done :
                   /\ d.generation = log[i].result.value.generation
                   /\ log[i].args.key # None => d.key = log[i].args.key
  <2>1. i \in DOMAIN log /\ Truthful(i, log[i].args, log[i].since, log[i].result)
        /\ log[i].args.op = "rotate" /\ log[i].result.class = "Success"
    BY <1>1 DEF IInv, LogInv, Rotations, Printed
  <2>2. PICK d \in service.done :
          /\ d.key = KeyOf(i)
          /\ log[i].result = Success(RotateRecord(Accepted(d.generation).body.data))
    BY <2>1 DEF Truthful
  <2>3. d.generation \in Nat /\ d.generation # 0
    BY <1>1, <2>2 DEF IInv, DoneInv, EntryOf
  <2>4. log[i].result.value = RotateRecord(Accepted(d.generation).body.data)
    BY <2>2 DEF Success
  <2>5. log[i].result.value =
          [operation |-> "rotate", outcome |-> "accepted",
           receipt |-> <<"receipt", d.generation>>, generation |-> d.generation,
           condition |-> "PendingDevice"]
    BY <2>4 DEF RotateRecord, Accepted, Reply
  <2>6. audit(log[i].result.value) /\ log[i].result.value.generation = d.generation
    BY <2>3, <2>5 DEF audit
  <2>7. log[i].args.key # None => d.key = log[i].args.key
    BY <2>1, <2>2 DEF KeyOf, ArgsOf
  <2> QED
    BY <2>2, <2>6, <2>7
<1>2. IInv => AcceptedIsApplied
  BY <1>1 DEF AcceptedIsApplied
<1> QED
  BY <1>2, Invariance, PTL

\* Repeating a rotation with its key is safe: the attempts never print different
\* generations, and none ends as a conflict while another is applied
\* (rotate_with_ports, prepare_policy_put).
THEOREM RetryAgrees == Spec => []KeyedRetryAgrees
<1>1. ASSUME IInv, NEW i \in Rotations, NEW j \in Rotations,
             log[i].args = log[j].args, log[i].args.key # None
      PROVE  /\ Printed(i) /\ Printed(j) => log[i].result = log[j].result
             /\ ~Printed(j) /\ log[j].result.code = "Conflict"
                /\ log[j].args.expected <= log[j].since =>
                  \A d \in service.done : d.from # i
  <2>1. /\ i \in DOMAIN log /\ j \in DOMAIN log
        /\ Truthful(i, log[i].args, log[i].since, log[i].result)
        /\ Truthful(j, log[j].args, log[j].since, log[j].result)
        /\ log[i].args.op = "rotate" /\ log[j].args.op = "rotate"
    BY <1>1 DEF IInv, LogInv, Rotations
  <2>2. KeyOf(i) = log[i].args.key /\ KeyOf(j) = log[i].args.key
        /\ ArgsOf(i) = log[i].args
    BY <1>1, <2>1 DEF KeyOf, ArgsOf
  <2>3. ASSUME Printed(i), Printed(j) PROVE log[i].result = log[j].result
    <3>1. PICK d \in service.done :
            /\ d.key = KeyOf(i)
            /\ log[i].result = Success(RotateRecord(Accepted(d.generation).body.data))
      BY <2>1, <2>3 DEF Truthful, Printed
    <3>2. PICK e \in service.done :
            /\ e.key = KeyOf(j)
            /\ log[j].result = Success(RotateRecord(Accepted(e.generation).body.data))
      BY <2>1, <2>3 DEF Truthful, Printed
    <3>3. d = e
      BY <1>1, <2>2, <3>1, <3>2 DEF IInv, DoneInv
    <3> QED
      BY <3>1, <3>2, <3>3
  <2>4. ASSUME ~Printed(j), log[j].result.code = "Conflict",
               log[j].args.expected <= log[j].since,
               NEW d \in service.done, d.from = i
        PROVE  FALSE
    <3>1. Stale(log[j].args)
      BY <1>1, <2>1, <2>4 DEF Truthful, Printed
    <3>2. d.key = log[i].args.key /\ d.generation = log[i].args.expected + 1
      BY <1>1, <2>2, <2>4 DEF IInv, DoneInv, EntryOf
    <3> QED
      BY <1>1, <3>1, <3>2 DEF Stale
  <2> QED
    BY <2>3, <2>4
<1>2. IInv => KeyedRetryAgrees
  BY <1>1 DEF KeyedRetryAgrees
<1> QED
  BY <1>2, Invariance, PTL

=============================================================================
