------------------------------- MODULE MCSpin -------------------------------
(* Three mutexes, one of which may throw, locked in several orders.         *)
EXTENDS Spin

CONSTANTS m1, m2, m3

MCThrowing == {m3}

MCArguments == {<<m3>>, <<m1, m2>>, <<m2, m1>>, <<m2, m3>>, <<m1, m3, m2>>}
=============================================================================
