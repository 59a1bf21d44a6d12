---------------------------- MODULE MCSpeculation ----------------------------
(* At most MaxSteps calls, after "int n1;" has been read.                  *)
EXTENDS Speculation

CONSTANTS n1, n2, MaxSteps

VARIABLE steps

First == [index |-> 1, gen |-> 1]

MCInit ==
    /\ graph = [names |-> <<n1>>, name_index |-> [n \in Names |-> IF n = n1 THEN First ELSE NoId],
                bindings |-> <<[name |-> n1, definition |-> FALSE, predecessor |-> NoId]>>,
                contexts |-> <<[NoContext EXCEPT !.bindings = <<First>>, !.index[n1] = First]>>,
                facts |-> [k \in Keys |-> NoFact]]
    /\ gens = [names |-> <<1>>, bindings |-> <<1>>, contexts |-> <<1>>]
    /\ transactions = <<>>
    /\ begun = <<>>
    /\ SessionInit
    /\ steps = 0

MCNext == Next /\ steps < MaxSteps /\ steps' = steps + 1

MCSpec == MCInit /\ [][MCNext]_<<vars, steps>>
===============================================================================
