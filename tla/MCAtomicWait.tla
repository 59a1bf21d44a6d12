----------------------------- MODULE MCAtomicWait -----------------------------
(* Two objects that share the condition, one of them stored by memcpy; a   *)
(* number with two representations, as 0.0 and -0.0.                       *)
EXTENDS AtomicWait, TLC
CONSTANTS a, b, zero, minusZero, one
MCNum == zero :> 0 @@ minusZero :> 0 @@ one :> 1
=============================================================================
