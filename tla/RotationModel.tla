---------------------------- MODULE RotationModel ----------------------------
(***************************************************************************)
(* The product values of crates/rotation-model/src/lib.rs: which inputs    *)
(* each constructor accepts.  A constructor returns Ok(value) or           *)
(* Err(error), as its Rust Result does.                                    *)
(*                                                                         *)
(* A text is a model value; BlankTexts and ControlTexts are the texts that *)
(* are whitespace only and the ones that hold a control character.         *)
(* Integers keep their width: U64Max and I64Max are the largest values of  *)
(* the two integer types of the contract, scaled down for TLC.             *)
(***************************************************************************)
EXTENDS Results, Integers, FiniteSets, Sequences

CONSTANTS Texts, BlankTexts, ControlTexts, U64Max, I64Max

ASSUME RotationModelAssumption ==
  /\ BlankTexts \subseteq Texts /\ ControlTexts \subseteq Texts
  /\ I64Max \in Nat /\ U64Max \in Nat /\ I64Max < U64Max

-----------------------------------------------------------------------------
\* Every opaque reference: RotationId, DeviceRef, CommandRef, EventRef, ...
validate_reference(text) ==
  IF text \in BlankTexts THEN Err("EmptyReference")
  ELSE IF text \in ControlTexts THEN Err("ControlCharacter")
  ELSE Ok(text)

Generation(n) == IF n = 0 THEN Err("ZeroGeneration") ELSE Ok(n)
FenceEpoch(n) == IF n = 0 THEN Err("ZeroFenceEpoch") ELSE Ok(n)

Unique(s) == Cardinality({s[i] : i \in DOMAIN s}) = Len(s)

\* RotationPolicy::try_new.
RotationPolicy(p) ==
  IF /\ p.key_usages # << >> /\ Unique(p.key_usages)
     /\ 300 <= p.validity /\ p.validity <= 31536000
     /\ 60 <= p.renew_before /\ p.renew_before < p.validity
     /\ Len(p.sans) <= 32 /\ Unique(p.sans)
     /\ \A i \in DOMAIN p.sans : p.sans[i].length \in 1 .. 253 /\ ~p.sans[i].control
  THEN Ok(p) ELSE Err("InvalidPolicy")

=============================================================================
