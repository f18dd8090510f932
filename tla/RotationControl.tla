-------------------------- MODULE RotationControl ---------------------------
(***************************************************************************)
(* The operator CLI, apps/rotation-control/src/lib.rs.  An operator runs   *)
(* one invocation after another; each network command logs in with its own *)
(* browser window, loopback listener and one deadline, then makes at most  *)
(* one call to the device security service.                                *)
(*                                                                         *)
(* Every invocation draws fresh state, nonce and PKCE verifier: its number *)
(* stands for all three, so a code or an ID token names the invocation it  *)
(* was issued to.  The identity provider, browser windows, other clients   *)
(* of the loopback port and the service are external; the service handles  *)
(* a request at any time, also after the caller has given up.  Timers are  *)
(* prompt: the clock does not pass a deadline that is due, except while    *)
(* the call that opens the browser blocks the thread that would see it.    *)
(***************************************************************************)
EXTENDS DeviceSecurityClient

CONSTANTS
  None,
  Device,
  Invocations,      \* command lines: [op, base, issuer, redirect, policy, expected, key]
  LoginLimit,       \* LOGIN_TIMEOUT
  ApiLimit,         \* API_TIMEOUT
  ConnectionLimit,  \* CALLBACK_CONNECTION_TIMEOUT
  BrowserLimit,     \* external: how long webbrowser::open blocks at most
  MaxInvocations,   \* bound of the model
  MaxTime           \* bound of the model: no invocation starts that may pass it

ASSUME LimitsAssumption ==
  /\ LoginLimit \in Nat \ {0} /\ ApiLimit \in Nat \ {0}
  /\ ConnectionLimit \in Nat \ {0} /\ BrowserLimit \in Nat
  /\ MaxInvocations \in Nat /\ MaxTime \in Nat
  /\ None \notin Nat

\* clap parses the expected generation as a u64.
ASSUME InvocationsAssumption ==
  \A a \in Invocations : a.expected \in 0 .. U64Max

VARIABLES
  now,
  cli,      \* the running invocation, or None
  conn,     \* the connection the listener is reading, or None
  windows,  \* invocations whose browser window may still redirect
  net,      \* requests on their way to the service
  reply,    \* the service's reply to the running call, or None
  service,  \* [generation, done]: the accepted policy and the keys handled
  log       \* how each ended invocation ended, in order: its command line, the
            \* generation of the service when it was started, its result

vars == <<now, cli, conn, windows, net, reply, service, log>>

-----------------------------------------------------------------------------
(* AppError.  code is kept for diagnostics of the service only. *)

AppError(class, code, retryable) ==
  [class |-> class, code |-> code, retryable |-> retryable]
Input == AppError("Input", "local", FALSE)
Auth == AppError("Auth", "local", FALSE)
Untrusted == AppError("Untrusted", "local", FALSE)
Transport(retryable) == AppError("Transport", "local", retryable)

from_diagnostic(d) ==
  AppError(CASE d.kind \in {"Unauthorized", "Forbidden"} -> "Auth"
             [] d.kind \in {"Validation", "NotFound", "Conflict"} -> "Typed"
             [] d.kind \in {"RateLimited", "Upstream"} -> "Transport"
             [] d.kind \in {"Malformed", "UnknownStatus"} -> "Untrusted",
           d.kind, d.retryable)

exit_code(class) ==
  CASE class = "Success" -> 0 [] class = "Input" -> 2 [] class = "Auth" -> 3
    [] class = "Typed" -> 4 [] class = "Transport" -> 5 [] class = "Untrusted" -> 6

-----------------------------------------------------------------------------
(* Checks of the command line. *)

\* https, or plain http to a loopback address where that is allowed.
secure_remote_url(url, allowLoopback) ==
  url.scheme = "https" \/ (url.scheme = "http" /\ allowLoopback /\ url.loopback)

validate_rss_base_url(url) == secure_remote_url(url, FALSE) /\ url.origin

\* The checks rotate, status and login make before the first request.
CommandLineValid(a) ==
  /\ a.op # "login" => validate_rss_base_url(a.base)
  /\ a.op = "rotate" => RotationPolicy(a.policy).ok
  /\ secure_remote_url(a.issuer, FALSE)
  /\ secure_remote_url(a.redirect, TRUE) /\ a.redirect.loopback

-----------------------------------------------------------------------------
(* HTTP. *)

Reply(status, body) == [got |-> "reply", status |-> status, body |-> body]
Failed == [got |-> "failed"]      \* the request or the read of the body fails
Oversize == [got |-> "oversize"]  \* more than MAX_RESPONSE_BYTES
Garbage == [shape |-> "garbage"]

\* ReqwestHttpPort::execute and bounded_bytes, the timeout apart.
execute(r) ==
  CASE r.got = "reply" -> Ok(r)
    [] r.got = "failed" -> Err(Transport(TRUE))
    [] r.got = "oversize" -> Err(Untrusted)

fetch_json(r) ==
  Then(execute(r),
    IF r.status # 200 THEN Err(Transport(FALSE))
    ELSE IF r.body = Garbage THEN Err(Untrusted)
    ELSE Ok(r.body))

\* The checks of authenticate_inner on the discovery document.
discover(r) ==
  Then(fetch_json(r),
    IF ~r.body.issuer_matches THEN Err(Auth)
    ELSE IF ~r.body.endpoints_parse THEN Err(Untrusted)
    ELSE IF ~r.body.endpoints_secure THEN Err(Input)
    ELSE Ok(r.body))

classify_token_response(status) ==
  CASE status = 200 -> Ok(status)
    [] status \in {400, 401, 403} -> Err(Auth)
    [] status = 429 \/ status \in 500 .. 599 -> Err(Transport(TRUE))
    [] OTHER -> Err(Untrusted)

exchange(r) ==
  Then(execute(r), Then(classify_token_response(r.status),
    IF r.body = Garbage THEN Err(Untrusted) ELSE Ok(r.body)))

\* Every key that states its operations is for verification only.
validate_jwks_key_operations(body) ==
  IF body = Garbage THEN Err(Untrusted)
  ELSE IF \E ops \in body.key_ops : ops # <<"verify">> THEN Err(Auth)
  ELSE Ok(body)

fetch_jwks(r) ==
  Then(execute(r),
    IF r.status # 200 THEN Err(Transport(FALSE))
    ELSE validate_jwks_key_operations(r.body))

\* verifies: RS256 signature, issuer, audience, expiry and issue time.
validate_id_token(claims, nonce) ==
  /\ claims.verifies /\ claims.nonce = nonce
  /\ claims.multiple => claims.party = "us"
  /\ claims.party \in {"us", None}
  /\ claims.tenant_matches

\* A mutation of parse_callback_request: any state will do.
ParseAnyState(request, expected) ==
  IF ~request.target \/ Len(request.states) # 1 THEN None
  ELSE IF request.error THEN [outcome |-> "Rejected"]
  ELSE IF Len(request.codes) = 1
  THEN [outcome |-> "Code", code |-> request.codes[1]] ELSE None

\* target: a GET of HTTP/1.1 for exactly the redirect URI, within 8 KiB.
parse_callback_request(request, expected) ==
  IF ~request.target \/ request.states # <<expected>> THEN None
  ELSE IF request.error THEN [outcome |-> "Rejected"]
  ELSE IF Len(request.codes) = 1 /\ request.codes[1] # None
  THEN [outcome |-> "Code", code |-> request.codes[1]] ELSE None

-----------------------------------------------------------------------------
(* One invocation.  stage is what it awaits; deadline is the login's, call *)
(* the limit of the HTTP call it awaits or of the browser that blocks it.  *)

\* A mutation of RotateRecord: the generation that was expected is printed.
RecordOfExpected(data) ==
  [operation |-> "rotate", outcome |-> "accepted", receipt |-> data.receipt,
   generation |-> data.generation - 1, condition |-> data.condition]

\* RotateRecord, as rotate prints it.
RotateRecord(data) ==
  [operation |-> "rotate", outcome |-> "accepted", receipt |-> data.receipt,
   generation |-> data.generation, condition |-> data.condition]

audit(record) ==
  /\ record.operation = "rotate" /\ record.outcome = "accepted"
  /\ record.generation # 0
  /\ record.condition \in {"Reconciling", "PendingDevice"}

Entry(args, since, result) == [args |-> args, since |-> since, result |-> result]

Success(value) == [class |-> "Success", value |-> value]

Init ==
  /\ now = 0
  /\ cli = None /\ conn = None
  /\ windows = {}
  /\ net = {} /\ reply = None
  /\ service = [generation |-> 1, done |-> {}]
  /\ log = << >>

\* Mutant: a failed login leaves its listener behind.
EndKeepsListener(result) ==
  /\ cli' = None /\ reply' = None
  /\ UNCHANGED conn
  /\ log' = Append(log, Entry(cli.args, cli.since, result))

\* main prints the result and exits; the listener goes with the process.
End(result) ==
  /\ cli' = None /\ conn' = None /\ reply' = None
  /\ log' = Append(log, Entry(cli.args, cli.since, result))

Invoke(a) ==
  /\ cli = None
  /\ Len(log) < MaxInvocations
  /\ now + LoginLimit + BrowserLimit + ApiLimit <= MaxTime
  /\ IF CommandLineValid(a)
     THEN /\ cli' = [number |-> Len(log) + 1, args |-> a, stage |-> "discovery",
                     started |-> now, deadline |-> now + LoginLimit,
                     call |-> now + LoginLimit, token |-> None,
                     since |-> service.generation]
          /\ UNCHANGED log
     ELSE /\ log' = Append(log, Entry(a, service.generation, Input))
          /\ UNCHANGED cli
  /\ UNCHANGED <<now, conn, windows, net, reply, service>>

Awaits(stage) == cli # None /\ cli.stage = stage

\* Mutant: every stage of the login gets the whole limit.
EnterRestarted(stage, token, limit) ==
  cli' = [cli EXCEPT !.stage = stage, !.token = token,
                     !.deadline = now + LoginLimit, !.call = now + limit]

\* The next stage of the login; its call has a limit of its own, the deadline
\* stays.
Enter(stage, token, limit) ==
  cli' = [cli EXCEPT !.stage = stage, !.token = token, !.call = now + limit]

DiscoveryReplies ==
  {Failed, Oversize, Reply(503, Garbage), Reply(200, Garbage)} \union
  {Reply(200, [shape |-> "discovery", issuer_matches |-> i,
               endpoints_parse |-> p, endpoints_secure |-> s]) :
     i, p, s \in BOOLEAN}

Discovered ==
  /\ Awaits("discovery")
  /\ \E r \in DiscoveryReplies :
        IF discover(r).ok
        THEN Enter("authorize", None, LoginLimit) /\ UNCHANGED <<conn, reply, log>>
        ELSE End(discover(r).value)
  /\ UNCHANGED <<now, windows, net, service>>

\* LoopbackCallback::authorize up to browser.open, which is not awaited: it
\* blocks, and the window may be there before it returns.
Authorize ==
  /\ Awaits("authorize")
  /\ \/ /\ Enter("browser", None, BrowserLimit)
        /\ windows' = windows \union {cli.number}
        /\ UNCHANGED <<conn, reply, log>>
     \/ End(Auth) /\ UNCHANGED windows  \* the port is taken
  /\ UNCHANGED <<now, net, service>>

\* browser.open returns, up to the first accept.
BrowserOpened ==
  /\ Awaits("browser")
  /\ \/ Enter("callback", None, LoginLimit) /\ UNCHANGED <<conn, reply, log>>
     \/ End(Auth)
  /\ UNCHANGED <<now, windows, net, service>>

\* What a browser window redirects with, and what else may reach the port.
WindowRequests ==
  {[target |-> TRUE, states |-> <<w>>, error |-> e,
    codes |-> IF e THEN << >> ELSE <<w>>] : w \in windows, e \in BOOLEAN}
StrayRequests ==
  {[target |-> FALSE, states |-> << >>, error |-> FALSE, codes |-> << >>],
   [target |-> TRUE, states |-> << >>, error |-> TRUE, codes |-> << >>]}

\* accept, or its failure; the request is read until its blank line, or stalls.
Accept ==
  /\ Awaits("callback") /\ conn = None
  /\ \/ /\ \E r \in WindowRequests \union StrayRequests \union {None} :
              conn' = [request |-> r, until |-> now + ConnectionLimit]
        /\ UNCHANGED <<cli, reply, log>>
     \/ End(Auth)
  /\ UNCHANGED <<now, windows, net, service>>

\* One turn of receive_callback: headers, parse, page.
ReadCallback ==
  /\ Awaits("callback") /\ conn # None /\ conn.request # None
  /\ \E o \in {parse_callback_request(conn.request, cli.number)} :
        \/ /\ o = None
           /\ conn' = None
           /\ UNCHANGED <<cli, reply, log>>
        \/ /\ o # None /\ o.outcome = "Rejected"
           /\ End(Auth)
        \/ /\ o # None /\ o.outcome = "Code"
           /\ Enter("token", o.code, LoginLimit) /\ conn' = None
           /\ UNCHANGED <<reply, log>>
  /\ UNCHANGED <<now, windows, net, service>>

CallbackConnectionTimeout ==
  /\ Awaits("callback") /\ conn # None /\ now >= conn.until
  /\ conn' = None
  /\ UNCHANGED <<now, cli, windows, net, reply, service, log>>

\* The provider refuses a code that was issued for another PKCE verifier; the
\* ID token it hands out may be of any invocation so far.
IdToken ==
  [verifies |-> TRUE, nonce |-> cli.number, multiple |-> FALSE, party |-> None,
   tenant_matches |-> TRUE]
Claims ==
  {[IdToken EXCEPT !.nonce = n] : n \in 1 .. cli.number} \union
  {[IdToken EXCEPT !.multiple = TRUE, !.party = p] : p \in {"us", None}} \union
  {[IdToken EXCEPT !.verifies = FALSE], [IdToken EXCEPT !.party = "other"],
   [IdToken EXCEPT !.tenant_matches = FALSE]}
TokenReplies ==
  {Failed, Oversize, Reply(400, Garbage), Reply(429, Garbage),
   Reply(302, Garbage), Reply(200, Garbage)} \union
  {Reply(200, [shape |-> "token", claims |-> c]) :
     c \in {d \in Claims : cli.token = cli.number}}

Exchanged ==
  /\ Awaits("token")
  /\ \E r \in TokenReplies :
        IF exchange(r).ok
        THEN Enter("jwks", r.body.claims, LoginLimit) /\ UNCHANGED <<conn, reply, log>>
        ELSE End(exchange(r).value)
  /\ UNCHANGED <<now, windows, net, service>>

-----------------------------------------------------------------------------
(* The call to the service. *)

\* Mutant: the caller's key is not used.
KeyAlwaysFresh == <<"fresh", cli.number>>

IdempotencyKey ==
  IF cli.args.key = None THEN <<"fresh", cli.number>> ELSE cli.args.key

Prepared ==
  IF cli.args.op = "status" THEN Ok(prepare_status_get(Device))
  ELSE prepare_policy_put(Device, cli.args.expected, IdempotencyKey, cli.args.policy)

\* send_api; the login is over and its deadline no longer applies.
SendApi(request) ==
  /\ net' = net \union
       {[from |-> cli.number, nonce |-> cli.token.nonce, request |-> request]}
  /\ cli' = [cli EXCEPT !.stage = "api", !.deadline = None,
                     !.call = now + ApiLimit, !.token = None]
  /\ UNCHANGED <<conn, reply, log>>

\* send_api where the URL cannot be built, or the access token or the tenant is no
\* value of a header: nothing is sent.
HeaderRefused == \E error \in {Auth, Input} : End(error) /\ UNCHANGED net

JwksReplies ==
  {Failed, Oversize, Reply(503, Garbage), Reply(200, Garbage)} \union
  {Reply(200, [shape |-> "jwks", key_ops |-> ops]) :
     ops \in {{}, {<<"verify">>}, {<<"verify">>, <<"sign">>}}}

LoggedIn ==
  /\ Awaits("jwks")
  /\ \E r \in JwksReplies :
        \/ /\ ~fetch_jwks(r).ok
           /\ End(fetch_jwks(r).value) /\ UNCHANGED net
        \/ /\ fetch_jwks(r).ok
           /\ IF ~validate_id_token(cli.token, cli.number)
              THEN End(Auth) /\ UNCHANGED net
              ELSE IF cli.args.op = "login"
              THEN End(Success("authenticated")) /\ UNCHANGED net
              ELSE IF ~Prepared.ok
              THEN End(Input) /\ UNCHANGED net
              ELSE SendApi(Prepared.value) \/ HeaderRefused
  /\ UNCHANGED <<now, windows, service>>

\* rotate and status from the reply on.
ApiResult(r) ==
  IF ~execute(r).ok THEN execute(r).value
  ELSE IF cli.args.op = "status"
  THEN IF decode_status_response(r.status, r.body).ok THEN Success(r.body.data)
       ELSE from_diagnostic(decode_status_response(r.status, r.body).value)
  ELSE IF decode_policy_response(r.status, r.body).ok
  THEN Success(RotateRecord(r.body.data))
  ELSE from_diagnostic(decode_policy_response(r.status, r.body).value)

ApiReplied ==
  /\ Awaits("api") /\ reply # None
  /\ End(ApiResult(reply))
  /\ UNCHANGED <<now, windows, net, service>>

-----------------------------------------------------------------------------
(* Deadlines and the clock. *)

\* The login's deadline is over, and the runtime gets to see it.
LoginDue ==
  /\ cli # None /\ cli.deadline # None /\ cli.stage # "browser"
  /\ now >= cli.deadline

\* within_login_deadline.
LoginTimeout ==
  /\ LoginDue
  /\ End(Auth)
  /\ UNCHANGED <<now, windows, net, service>>

\* Mutant: a call of the service that timed out is sent again.
CallTimeoutResends ==
  /\ cli # None /\ cli.stage \in {"discovery", "token", "jwks", "api"}
  /\ now >= cli.call
  /\ IF cli.stage = "api" /\ cli.call < cli.started + LoginLimit + BrowserLimit + ApiLimit
     THEN /\ net' = net \union {[from |-> cli.number, nonce |-> cli.number,
                                 request |-> Prepared.value]}
          /\ cli' = [cli EXCEPT !.call = now + ApiLimit]
          /\ UNCHANGED <<conn, reply, log>>
     ELSE End(Transport(TRUE)) /\ UNCHANGED net
  /\ UNCHANGED <<now, windows, service>>

\* Mutant: the call of the service has no limit.
CallTimeoutOfLogin ==
  /\ cli # None /\ cli.stage \in {"discovery", "token", "jwks"}
  /\ now >= cli.call
  /\ End(Transport(TRUE))
  /\ UNCHANGED <<now, windows, net, service>>

\* The limit of execute.
CallTimeout ==
  /\ cli # None /\ cli.stage \in {"discovery", "token", "jwks", "api"}
  /\ now >= cli.call
  /\ End(Transport(TRUE))
  /\ UNCHANGED <<now, windows, net, service>>

Due ==
  \/ LoginDue
  \/ /\ cli # None /\ cli.stage \in {"discovery", "browser", "token", "jwks", "api"}
     /\ now >= cli.call
  \/ conn # None /\ now >= conn.until

Tick ==
  /\ now < MaxTime /\ ~Due
  /\ now' = now + 1
  /\ UNCHANGED <<cli, conn, windows, net, reply, service, log>>

-----------------------------------------------------------------------------
(* The service.  A policy PUT is conditional on the expected generation,   *)
(* and a key it has handled gets the answer of the first time.             *)

Known(request) == {d \in service.done : d.key = request.key}
Accepts(request) == Known(request) # {} \/ request.expected = service.generation

Commit(q) ==
  IF Known(q.request) # {} \/ q.request.expected # service.generation
  THEN UNCHANGED service
  ELSE service' = [generation |-> service.generation + 1,
                   done |-> service.done \union
                     {[key |-> q.request.key, from |-> q.from,
                       generation |-> service.generation + 1]}]

Accepted(generation) ==
  Reply(200, [shape |-> "accepted", data |-> [receipt |-> <<"receipt", generation>>,
    generation |-> generation, condition |-> "PendingDevice"]])

\* The answer to a PUT as the service gives it.
PutAnswer(request) ==
  IF ~Accepts(request)
  THEN Reply(409, [shape |-> "conflict", retryable |-> FALSE])
  ELSE Accepted(IF Known(request) = {} THEN service.generation + 1
                ELSE (CHOOSE d \in Known(request) : TRUE).generation)

StatusAnswer ==
  Reply(200, [shape |-> "status", data |-> [desired |-> service.generation,
    observed_generation |-> service.generation, conditions |-> {}]])

\* A proxy or the connection spoils the answer after the fact.
Spoiled == {Failed, Oversize, Reply(200, Garbage), Reply(502, Garbage), Reply(302, Garbage)}

\* Refused before it has any effect.
Refused ==
  {Reply(400, [shape |-> "validation"]), Reply(404, [shape |-> "not_found"]),
   Reply(401, Garbage), Reply(403, Garbage), Reply(429, Garbage), Reply(503, Garbage)}

Answers(q, r) ==
  /\ net' = net \ {q}
  /\ reply' = IF Awaits("api") /\ cli.number = q.from THEN r ELSE reply

ServiceHandles(q) ==
  \/ /\ q.request.method = "PUT"
     /\ Commit(q)
     /\ \E r \in Spoiled \union {PutAnswer(q.request)} : Answers(q, r)
  \/ /\ q.request.method = "GET"
     /\ \E r \in Spoiled \union {StatusAnswer} : Answers(q, r)
     /\ UNCHANGED service
  \/ /\ \E r \in Refused \union {Failed} : Answers(q, r)
     /\ UNCHANGED service

Service ==
  /\ \E q \in net : ServiceHandles(q)
  /\ UNCHANGED <<now, cli, conn, windows, log>>

Next ==
  \/ \E a \in Invocations : Invoke(a)
  \/ Discovered \/ Authorize \/ BrowserOpened \/ Accept \/ ReadCallback
  \/ CallbackConnectionTimeout \/ Exchanged \/ LoggedIn \/ ApiReplied
  \/ LoginTimeout \/ CallTimeout \/ Tick \/ Service

\* The timers of the runtime fire, and the command that opens the browser
\* returns; nothing else is certain to happen.
Spec ==
  Init /\ [][Next]_vars /\ WF_vars(Tick) /\ WF_vars(LoginTimeout)
       /\ WF_vars(CallTimeout) /\ WF_vars(CallbackConnectionTimeout)
       /\ WF_vars(BrowserOpened)

-----------------------------------------------------------------------------
(* Properties. *)

Stages == {"discovery", "authorize", "browser", "callback", "token", "jwks", "api"}
Classes == {"Success", "Input", "Auth", "Typed", "Transport", "Untrusted"}

\* An invocation whose request is under way; Option::None is none of them.
Calling ==
  [number : Nat, args : Invocations, stage : {"api"}, started : Nat,
   deadline : {None}, call : Nat, token : {None}, since : Nat]
ASSUME NoneAssumption == None \notin Calling

\* The variables have their types: deadlines are of the running invocation,
\* a connection exists only while the listener does, and every ended
\* invocation has one of the six exit codes (lib.rs exit_code, main_entry).
TypeOK ==
  /\ now \in 0 .. MaxTime
  /\ cli # None => cli.stage \in Stages /\ cli.number = Len(log) + 1
  /\ conn # None => Awaits("callback")
  /\ reply # None => Awaits("api")
  /\ windows \subseteq 1 .. Len(log) + 1
  /\ \A i \in DOMAIN log : log[i].result.class \in Classes

\* "Login waits at most 120 seconds; API calls wait at most 30 seconds"
\* (rotation-control/README.md:25): discovery, stalled callback connections,
\* token exchange and JWKS share one deadline, whatever each of them takes, and
\* only the time that browser.open blocks can be added to it.
InvocationBudget ==
  cli # None =>
     now <= cli.started + LoginLimit
              + (IF cli.stage \in {"discovery", "authorize"} THEN 0 ELSE BrowserLimit)
              + (IF cli.stage = "api" THEN ApiLimit ELSE 0)

\* A window of an earlier, abandoned login can redirect to the listener of a
\* later one: no code of another login is exchanged, and no request goes out on
\* an ID token that was issued to another (parse_callback_request,
\* validate_id_token).
RequestsOfOwnLogin ==
  /\ \A q \in net : q.nonce = q.from
  /\ cli # None /\ cli.stage = "token" => cli.token = cli.number

\* The requests of one invocation.
Mutations(number) ==
  {q \in net : q.from = number /\ q.request.method = "PUT"}
    \union {d \in service.done : d.from = number}

\* "The CLI has no ... automatic mutation retry" (rotation-control/README.md:27):
\* whatever times out or gets lost, one invocation sends one PUT at most, so
\* the service never holds two for it, handled or waiting.
OneMutation == \A n \in 1 .. MaxInvocations : Cardinality(Mutations(n)) <= 1

\* An operator who reads exit code 2, 3 or 4 knows that this invocation changed
\* nothing and will not: a late commit, a spoiled answer or a lost one ends in 5
\* or 6 only (from_diagnostic, decode_policy_response, execute, login errors).
DefiniteFailureUnapplied ==
  \A i \in DOMAIN log :
     exit_code(log[i].result.class) \in {2, 3, 4} => Mutations(i) = {}

Rotations == {i \in DOMAIN log : log[i].args.op = "rotate"}
Printed(i) == log[i].result.class = "Success"

\* A record that rotate prints is true: the service did accept that generation,
\* for this key, and audit validates the record (rotate_with_ports, audit).
AcceptedIsApplied ==
  \A i \in Rotations : Printed(i) =>
     /\ audit(log[i].result.value)
     /\ \E d \in service.done :
           /\ d.generation = log[i].result.value.generation
           /\ log[i].args.key # None => d.key = log[i].args.key

\* A rotation repeated with the same key and expected generation, because the
\* outcome of the other is unknown, never prints another generation; and one
\* whose expected generation the service had reached when it was started never
\* ends as a conflict while the other is applied, then or later
\* (rotate_with_ports' idempotency_key, prepare_policy_put).
KeyedRetryAgrees ==
  \A i, j \in Rotations : log[i].args = log[j].args /\ log[i].args.key # None =>
     /\ Printed(i) /\ Printed(j) => log[i].result = log[j].result
     /\ ~Printed(j) /\ log[j].result.code = "Conflict"
        /\ log[j].args.expected <= log[j].since =>
          \A d \in service.done : d.from # i

\* Every invocation ends, though neither provider, browser window nor service
\* answers, if the command that opens the browser returns.
InvocationEnds == cli # None ~> cli = None

=============================================================================
