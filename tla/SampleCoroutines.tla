--------------------------- MODULE SampleCoroutines ---------------------------
(* A coroutine whose body is a loop around a conditional expression and an   *)
(* await, with a value defined and used anywhere and a block parameter used  *)
(* after the await.                                                          *)
EXTENDS Naturals, Sequences, FiniteSets, TLC

v == "v"
p == "p"

Blank(kind, to) ==
    [code |-> <<>>, kind |-> kind, uses |-> {}, reloads |-> {}, to |-> to,
     unwind |-> 0, index |-> 0, final |-> FALSE, throws |-> FALSE]
I(kind) == [kind |-> kind, def |-> "none", uses |-> {}, reloads |-> {}, stored |-> FALSE,
            final |-> FALSE, index |-> 0]
SaveAt(k, f) == <<[I("save") EXCEPT !.index = k, !.final = f]>>
B(kind, to, code) == [Blank(kind, to) EXCEPT !.code = code]
S(k, f, to) == [Blank("suspend", to) EXCEPT !.index = k, !.final = f]

\* The blocks of the body unwind to the handler.
Body(b) == [b EXCEPT !.unwind = 14]

\* What finish_coroutine_function puts around the body, and what emit_await makes of
\* an await: a test of await_ready, the save and await_suspend, the suspension.
Skeleton ==
    << B("branch", <<2>>, <<>>),                           \*  1 allocation of the frame
       B("cond", <<4, 17>>, <<I("begin")>>),               \*  2 initial suspend: ready?
       S(0, FALSE, <<4, 12>>),                             \*  3
       Body(B("cond", <<5, 6>>, <<>>)),                    \*  4 c ? a : b
       Body(B("branch", <<7>>, <<>>)),                     \*  5
       Body(B("branch", <<7>>, <<>>)),                     \*  6
       Body(B("cond", <<10, 8>>, <<>>)),                   \*  7 await: ready?
       Body(B("cond", <<9, 10>>, SaveAt(2, FALSE))),       \*  8 await_suspend returns bool
       Body(S(2, FALSE, <<10, 12>>)),                      \*  9
       Body(B("cond", <<4, 11>>, <<>>)),                   \* 10 await_resume, end of the loop
       B("cond", <<12, 18>>, <<>>),                        \* 11 final suspend: ready?
       B("end", <<>>, <<>>),                               \* 12 cleanup
       S(1, TRUE, <<16, 12>>),                             \* 13
       [B("branch", <<11>>, SaveAt(1, TRUE)) EXCEPT !.throws = TRUE], \* 14 handler
       B("return", <<>>, <<>>),                            \* 15 return of the ramp
       B("unreachable", <<>>, <<>>),                       \* 16 final suspend resumed
       B("branch", <<3>>, SaveAt(0, FALSE)),               \* 17 await_suspend returns void
       B("cond", <<13, 12>>, SaveAt(1, TRUE)) >>           \* 18 await_suspend returns bool

Op(d, us) == [I("op") EXCEPT !.def = d, !.uses = us]

\* v is defined in block d, p is the parameter of block 7; they are used, together
\* or not, in the blocks of uv and up.
Coroutine(d, uv, up, place) ==
    [blocks |-> [b \in DOMAIN Skeleton |->
         LET defs == (IF b = 7 THEN <<Op(p, {})>> ELSE <<>>)
                        \o (IF b = d THEN <<Op(v, {})>> ELSE <<>>)
             used == (IF b \in uv THEN {v} ELSE {}) \cup (IF b \in up THEN {p} ELSE {})
         IN  [Skeleton[b] EXCEPT !.code = @ \o defs \o (IF used = {} \/ Skeleton[b].kind = "cond" THEN <<>>
                                                        ELSE <<Op("none", used)>>),
                                 !.uses = IF Skeleton[b].kind = "cond" THEN used ELSE {}]],
     ramp_return |-> 15,
     place |-> v :> place @@ p :> FALSE]

\* The blocks in which a value defined in block d may be used, as it dominates
\* them, but for those that only suspend or return.
Below(d) ==
    CASE d = 1 -> {1, 2, 4, 5, 6, 7, 8, 10, 11, 12, 14}
      [] d = 2 -> {2, 4, 5, 6, 7, 8, 10, 11, 12, 14}
      [] d = 4 -> {4, 5, 6, 7, 8, 10, 11, 14}
      [] d = 7 -> {7, 8, 10}
      [] OTHER -> {d}

MCCoroutines ==
    UNION {{Coroutine(d, uv, {10}, place) :
              uv \in {u \in SUBSET Below(d) : Cardinality(u) \in 1 .. 2}, place \in BOOLEAN} :
           d \in Below(1)}
===============================================================================
