----------------------------- MODULE MCEdgeStores -----------------------------
(* Two targets with two parameters each, and two values from elsewhere.    *)
EXTENDS EdgeStores
CONSTANTS p, q, r, s, x, y

Pairs(S) == {<<u, v>> : u \in S, v \in S}

Term(style, args1, args2, live1, live2) ==
    [style |-> style, params |-> <<<<p, q>>, <<r, s>>>>, args |-> <<args1, args2>>,
     live |-> <<live1, live2>>]

\* After mem2reg: the first target is the header of the loop the branch is
\* in, so its parameters may be passed back to it and read after the loop.
MCLoops ==
    {Term(style, args1, <<x, y>>, {p, q, x, y}, {p, q, x, y}) :
        style \in Styles, args1 \in Pairs({p, q, x, y})}
=============================================================================
