--------------------------- MODULE SampleFunctions ---------------------------
(* Functions of four blocks whose bodies are taken from a few, on control  *)
(* flow graphs with joins, loops, forwarding blocks, unreachable loops,    *)
(* switches and indirect branches.                                         *)
EXTENDS Naturals, Sequences

None == <<"none", 0, 0>>
C(c) == <<"const", c, 0>>
L(b, k) == <<"load", b, k>>
Phi(b, k) == <<"phi", b, k>>

Load == [op |-> "load", val |-> None]
Store(v) == [op |-> "store", val |-> v]
Use(v) == [op |-> "use", val |-> v]
Other == [op |-> "other", val |-> None]
Input == [op |-> "input", val |-> None]

\* Bodies of block b: nothing, a store, a read, a store between two reads.
MCBodies(b) ==
    {<<>>, <<Store(C(b))>>, <<Load, Use(L(b, 1))>>,
     <<Load, Store(C(b)), Use(L(b, 1)), Load, Use(L(b, 4))>>}

MCEntries ==
    {<<>>, <<Store(C(1))>>, <<Store(C(1)), Load, Store(C(5))>>,
     <<Store(C(1)), Other>>}

\* A terminator: its operator, operand and calls, each a target and arguments.
T(op, val, calls) == [op |-> op, val |-> val, calls |-> calls]
To(b) == [to |-> b, args |-> <<>>]
With(b, v) == [to |-> b, args |-> <<v>>]
Jmp(c) == T("jump", None, <<c>>)
Ret(v) == T("ret", v, <<>>)

\* A branch on something computed at the end of the block.
On == <<"on", 0, 0>>

\* Graphs: terminators, parameters by block, values the blocks use, and labels.
G(terms) == [terms |-> terms, params |-> {}, uses |-> {}, labels |-> {}]

MCGraphs ==
    {\* a join
     G(<<T("br_if", On, <<To(2), To(3)>>), Jmp(To(4)), Jmp(To(4)), Ret(None)>>),
     \* a loop inside a loop
     G(<<Jmp(To(2)), Jmp(To(3)), T("switch", On, <<To(3), To(2), To(4)>>),
         Jmp(To(2))>>),
     \* a loop with two entries behind a branch with both edges to one block
     [G(<<T("br_if", On, <<With(2, C(0)), With(2, C(1))>>),
          T("br_if", On, <<To(3), To(4)>>), Jmp(To(4)), Jmp(To(3))>>)
        EXCEPT !.params = {2}, !.uses = {<<3, Phi(2, 1)>>}],
     \* a parameter forwarded into a loop and used in it
     [G(<<T("br_if", On, <<With(2, C(1)), With(2, C(0))>>),
          Jmp(With(3, Phi(2, 1))), T("br_if", On, <<With(3, Phi(3, 1)), To(4)>>),
          Ret(Phi(3, 1))>>)
        EXCEPT !.params = {2, 3}, !.uses = {<<3, Phi(2, 1)>>}],
     \* two forwarding blocks that disagree
     [G(<<T("br_if", On, <<With(2, C(1)), To(3)>>),
          Jmp(With(4, Phi(2, 1))), Jmp(With(4, C(0))),
          T("br_if", Phi(4, 1), <<To(3), With(4, C(0))>>)>>)
        EXCEPT !.params = {2, 4}],
     \* a loop that is left by a branch never taken
     G(<<T("br_if", C(0), <<To(3), To(2)>>), Ret(None),
         T("br_if", On, <<To(4), To(2)>>), T("br_if", On, <<To(3), To(2)>>)>>),
     \* a switch into blocks that pass arguments
     [G(<<T("switch", On, <<To(2), To(3)>>), Jmp(With(4, C(2))),
          Jmp(With(4, C(3))), Ret(Phi(4, 1))>>)
        EXCEPT !.params = {4}],
     \* an indirect branch
     [G(<<T("br_indirect", On, <<To(2), To(3)>>), Jmp(To(4)), Jmp(To(4)), Ret(None)>>)
        EXCEPT !.labels = {2}]}

\* The function with these bodies on graph g.
Fn(g, bodies) ==
    LET used(b) == SelectSeq(<<Phi(2, 1), Phi(3, 1)>>, LAMBDA v : <<b, v>> \in g.uses)
        mine(b) == [k \in DOMAIN used(b) |-> Use(used(b)[k])]
        all(b) == bodies[b] \o mine(b) \o (IF g.terms[b].val = On THEN <<Input>> ELSE <<>>)
        callId(b, k) == <<b, k>>
        callIds == UNION {{b} \X DOMAIN g.terms[b].calls : b \in 1 .. 4}
    IN  [order |-> <<1, 2, 3, 4>>,
         insts |-> [b \in 1 .. 4 |-> [k \in DOMAIN all(b) |->
             [op |-> all(b)[k].op, val |-> all(b)[k].val, id |-> <<b, k>>]]],
         params |-> [b \in 1 .. 4 |-> IF b \in g.params THEN <<Phi(b, 1)>> ELSE <<>>],
         term |-> [b \in 1 .. 4 |->
             [op |-> g.terms[b].op,
              val |-> IF g.terms[b].val = On THEN <<"input", b, Len(all(b))>>
                      ELSE g.terms[b].val,
              calls |-> [k \in DOMAIN g.terms[b].calls |-> callId(b, k)]]],
         calls |-> [c \in callIds |-> g.terms[c[1]].calls[c[2]]],
         labels |-> g.labels]

\* The value of the entry's load is used in the last block too.
MCLast(entry) == IF Len(entry) < 3 THEN <<>> ELSE <<Use(L(1, 2))>>

MCFunctions ==
    {Fn(g, <<e, b, c, d \o MCLast(e)>>) :
        g \in MCGraphs, e \in MCEntries, b \in MCBodies(2), c \in MCBodies(3),
        d \in MCBodies(4)}

\* A store of what was just loaded, as in x = x.
MCSelfStores ==
    {Fn(g, <<<<Store(C(1))>>, <<Load, Store(L(2, 1))>> \o t, <<>>, <<>> >>) :
        g \in {G(<<Jmp(To(2)), Ret(None), Ret(None), Ret(None)>>)},
        t \in {<<>>, <<Load, Use(L(2, 3))>>}}
===============================================================================
