-------------------------- MODULE MCRotationControl -------------------------
(* Instances of RotationControl for TLC. *)
EXTENDS RotationControl

CONSTANT k1

Url(scheme, loopback, origin) ==
  [scheme |-> scheme, loopback |-> loopback, origin |-> origin]
Remote == Url("https", FALSE, TRUE)
Loopback == Url("http", TRUE, FALSE)

Policy(renew) ==
  [key_usages |-> <<"ClientAuth">>, validity |-> 86400, renew_before |-> renew,
   sans |-> << >>]

Rotate(expected, key) ==
  [op |-> "rotate", base |-> Remote, issuer |-> Remote, redirect |-> Loopback,
   policy |-> Policy(3600), expected |-> expected, key |-> key]

\* A keyed rotation, the same without a key, one from the generation after it,
\* a status query, and command lines that one of the checks refuses.
MCInvocations ==
  {Rotate(1, k1), Rotate(1, None), Rotate(2, None),
   [Rotate(1, None) EXCEPT !.op = "status"],
   [Rotate(1, None) EXCEPT !.op = "login"],
   Rotate(I64Max + 1, None),
   [Rotate(1, None) EXCEPT !.policy = Policy(86400)],
   [Rotate(1, None) EXCEPT !.base = Url("https", FALSE, FALSE)],
   [Rotate(1, None) EXCEPT !.redirect = Remote]}

=============================================================================
