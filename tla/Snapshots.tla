------------------------------ MODULE Snapshots ------------------------------
(***************************************************************************)
(* What a stack of transactions promises, whatever the way it keeps its    *)
(* promise: every open transaction stands for the state in which it was    *)
(* begun.  A change touches none of these states, a commit forgets the     *)
(* innermost one and no other, and a rollback goes back to it exactly.     *)
(***************************************************************************)
EXTENDS Sequences, SequencesExt

VARIABLES
    live,   \* the state the clients see
    saved   \* for every open transaction the state it would go back to

Init == saved = <<>>

Change == saved' = saved

Begin == saved' = Append(saved, live) /\ UNCHANGED live

Commit == saved # <<>> /\ saved' = Front(saved) /\ UNCHANGED live

Rollback == saved # <<>> /\ saved' = Front(saved) /\ live' = Last(saved)

Next == Change \/ Begin \/ Commit \/ Rollback

Spec == Init /\ [][Next]_<<live, saved>>
===============================================================================
