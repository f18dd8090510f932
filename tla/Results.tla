------------------------------- MODULE Results -------------------------------
(* Rust's Result: Ok(value) or Err(error), and the ? operator. *)

Ok(value) == [ok |-> TRUE, value |-> value]
Err(error) == [ok |-> FALSE, value |-> error]

\* The ? operator: the second result counts only if the first is Ok.
Then(first, second) == IF first.ok THEN second ELSE first

=============================================================================
