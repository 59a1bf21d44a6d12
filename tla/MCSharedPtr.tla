----------------------------- MODULE MCSharedPtr -----------------------------
(* Two threads: t1 has two shared_ptr (p1, q1) and two weak_ptr (w1, v1),  *)
(* t2 has one shared_ptr (p2); they share through the atomic slot.         *)
EXTENDS SharedPtr
CONSTANTS t1, t2, p1, q1, p2, w1, v1

MCOwner == [x \in Shared \cup Weaks |-> IF x = p2 THEN t2 ELSE t1]
=============================================================================
