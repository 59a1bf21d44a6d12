----------------------------- MODULE CirProofs -----------------------------
(***************************************************************************)
(* Proofs about what happens to CIR: the transactions of the file it is    *)
(* kept in, and the split of coroutines.                                   *)
(*                                                                         *)
(* About Speculation, for any number of names, records and nested          *)
(* transactions: the journals of the file give back the graph in which a   *)
(* transaction was begun, the undo actions of the session give back the    *)
(* memos, nothing live refers to what was rolled back, and an id that has  *)
(* become stale stays so.                                                  *)
(*                                                                         *)
(* The invariant says of every open transaction what its journal makes of  *)
(* the state in which the next one was begun, or of the live graph in case *)
(* of the innermost one.                                                   *)
(*                                                                         *)
(* About CoroSplit, for every coroutine that meets CoroAssumption, however *)
(* often it is suspended, resumed and destroyed: what an instruction reads *)
(* is what was computed last, and a clone goes on where the coroutine      *)
(* stopped.                                                                *)
(***************************************************************************)
EXTENDS Speculation, CoroSplit, SequenceTheorems, FiniteSetTheorems, WellFoundedInduction,
        TLAPS

-----------------------------------------------------------------------------
(* Types. *)

MaybeId == Ids \cup {NoId}

Bindings == [name : Names, definition : BOOLEAN, predecessor : MaybeId]

Contexts == [bindings : Seq(Ids), children : Seq(Ids), using : Seq(Ids),
             index : [Names -> MaybeId], inline : BOOLEAN]

Graphs == [names : Seq(Names), name_index : [Names -> MaybeId],
           bindings : Seq(Bindings), contexts : Seq(Contexts),
           facts : [Keys -> Facts \cup {NoFact}]]

Deltas == [context : Nat, kind : {"bindings", "children", "using"}]
          \cup [context : Nat, kind : {"index"}, name : Names, previous : MaybeId]

(* What keeps values of V under some of the keys in K. *)
Journals(K, V) == UNION {[D -> V] : D \in SUBSET K}

Transactions ==
    [names_size : Nat, bindings_size : Nat, contexts_size : Nat,
     inserted : SUBSET Names,
     binding_mutations : Journals(Nat, Bindings),
     context_mutations : Journals(Nat, Contexts),
     deltas : Seq(Deltas),
     fact_mutations : Journals(Keys, Facts \cup {NoFact})]

Mentions(ds, c) == \E k \in DOMAIN ds : ds[k].context = c

(* Only what is older than the transaction is journalled. *)
OnlyOlder(t) ==
    /\ DOMAIN t.binding_mutations \subseteq 1 .. t.bindings_size
    /\ DOMAIN t.context_mutations \subseteq 1 .. t.contexts_size
    /\ \A c : Mentions(t.deltas, c) => c \in 1 .. t.contexts_size

Gens == Seq(Nat \ {0})

AllGens == [names : Gens, bindings : Gens, contexts : Gens]

-----------------------------------------------------------------------------
(* The journal of transaction t, applied to graph g, gives graph h.        *)

NamesBack(t, g, h) ==
    /\ Len(h.names) = t.names_size /\ t.names_size <= Len(g.names)
    /\ \A i \in 1 .. t.names_size : h.names[i] = g.names[i]
    /\ \A n \in Names : h.name_index[n] = IF n \in t.inserted THEN NoId ELSE g.name_index[n]

BindingsBack(t, g, h) ==
    /\ Len(h.bindings) = t.bindings_size /\ t.bindings_size <= Len(g.bindings)
    /\ \A b \in 1 .. t.bindings_size :
          h.bindings[b] = IF b \in DOMAIN t.binding_mutations
                          THEN t.binding_mutations[b] ELSE g.bindings[b]

ContextsBack(t, g, h) ==
    /\ Len(h.contexts) = t.contexts_size /\ t.contexts_size <= Len(g.contexts)
    /\ \A c \in 1 .. t.contexts_size :
          h.contexts[c] = UndoDeltas(c, IF c \in DOMAIN t.context_mutations
                                        THEN t.context_mutations[c] ELSE g.contexts[c],
                                     t.deltas)

FactsBack(t, g, h) ==
    \A k \in Keys : h.facts[k] = IF k \in DOMAIN t.fact_mutations
                                 THEN t.fact_mutations[k] ELSE g.facts[k]

Undone(t, g, h) ==
    NamesBack(t, g, h) /\ BindingsBack(t, g, h) /\ ContextsBack(t, g, h) /\ FactsBack(t, g, h)

(* The graph at the end of transaction i, as far as it has got. *)
EndOf(i) == IF i = Len(begun) THEN graph ELSE begun[i + 1]

-----------------------------------------------------------------------------
(* The invariant. *)

FileOK ==
    /\ graph \in Graphs
    /\ gens \in AllGens
    /\ begun \in Seq(Graphs)
    /\ transactions \in Seq(Transactions)
    /\ Len(begun) = Len(transactions)

(* Every slot of a table, used or given up, has a generation. *)
Generated ==
    /\ Len(graph.names) <= Len(gens.names)
    /\ Len(graph.bindings) <= Len(gens.bindings)
    /\ Len(graph.contexts) <= Len(gens.contexts)

Journalled ==
    \A i \in DOMAIN transactions :
        OnlyOlder(transactions[i]) /\ Undone(transactions[i], EndOf(i), begun[i])

(* What a transaction has saved as a whole, no transaction around it has deltas of. *)
InOrder ==
    \A i \in DOMAIN transactions : \A j \in 1 .. i :
        \A c \in DOMAIN transactions[i].context_mutations : ~Mentions(transactions[j].deltas, c)

Within(g, h) ==
    /\ Len(g.names) <= Len(h.names)
    /\ Len(g.bindings) <= Len(h.bindings)
    /\ Len(g.contexts) <= Len(h.contexts)

(* Tables only grow inside a transaction. *)
Nested ==
    /\ \A i \in DOMAIN begun : Within(begun[i], graph)
    /\ \A i, j \in DOMAIN begun : i <= j => Within(begun[i], begun[j])

(* The ids in a context are those of records of graph g, by generations e. *)
ContextSound(x, g, e) ==
    /\ \A i \in DOMAIN x.bindings : Valid(x.bindings[i], g.bindings, e.bindings)
    /\ \A i \in DOMAIN x.children : Valid(x.children[i], g.contexts, e.contexts)
    /\ \A i \in DOMAIN x.using : Valid(x.using[i], g.contexts, e.contexts)
    /\ \A n \in Names : x.index[n] # NoId => Valid(x.index[n], g.bindings, e.bindings)

NamesSound(g, e) ==
    \A i \in DOMAIN g.names : g.name_index[g.names[i]] = [index |-> i, gen |-> e.names[i]]

Sound(g, e) ==
    /\ \A c \in DOMAIN g.contexts : ContextSound(g.contexts[c], g, e)
    /\ \A b \in DOMAIN g.bindings : g.bindings[b].predecessor # NoId =>
          Valid(g.bindings[b].predecessor, g.bindings, e.bindings)
    /\ NamesSound(g, e)

AllSound == Sound(graph, gens) /\ \A i \in DOMAIN begun : Sound(begun[i], gens)

FileInv == FileOK /\ Generated /\ Journalled /\ InOrder /\ Nested /\ AllSound

Guards == [file_transaction : Nat, memo_rollbacks : Seq([name : Names, entity : Ids])]

SessionOK ==
    /\ memo \in [Names -> MaybeId]
    /\ leaked \subseteq Names
    /\ snapshots \in Seq(Guards)
    /\ recalled \in Seq([Names -> MaybeId])
    /\ Len(recalled) = Len(snapshots)
    /\ \A k \in DOMAIN snapshots : snapshots[k].file_transaction \in 1 .. Len(transactions)
    /\ \A k, l \in DOMAIN snapshots :
          k < l => snapshots[k].file_transaction < snapshots[l].file_transaction

(* The graph in which guard k was made. *)
Base(k) == begun[snapshots[k].file_transaction]

Holds(g, e, id) == Valid(id, g.bindings, e.bindings)

(* A guard, k or one inside it, undoes the memo of name n. *)
Tracked(k, n) ==
    \E l \in k .. Len(snapshots) :
        [name |-> n, entity |-> memo[n]] \in Range(snapshots[l].memo_rollbacks)

(* A memo is of a live record, unless a transaction without a guard was    *)
(* rolled back, and what a guard would take the record of is tracked.      *)
MemosLive ==
    \A n \in Names : memo[n] # NoId /\ n \notin leaked =>
        /\ Holds(graph, gens, memo[n])
        /\ \A k \in DOMAIN snapshots : ~Holds(Base(k), gens, memo[n]) => Tracked(k, n)

(* A memo that could be used when a guard was made is untouched, and one   *)
(* that could not is tracked, or still of no use.                          *)
MemosKept ==
    \A k \in DOMAIN snapshots : \A n \in Names :
        IF recalled[k][n] # NoId
        THEN /\ memo[n] = recalled[k][n] /\ Holds(Base(k), gens, memo[n])
             /\ \A l \in k .. Len(snapshots) :
                   \A a \in Range(snapshots[l].memo_rollbacks) : a.name # n
        ELSE Holds(Base(k), gens, memo[n]) => Tracked(k, n)

SessionInv == SessionOK /\ MemosLive /\ MemosKept

IInv == FileInv /\ SessionInv

-----------------------------------------------------------------------------
(* What undoing a list of deltas does to a context.                        *)

\* A nonempty set of naturals has a least element.
LEMMA LeastNat ==
    ASSUME NEW S, S \subseteq Nat, S # {}
    PROVE  \E x \in S : \A y \in S : x <= y
<1>1. PICK x \in S : \A y \in S : ~(<<y, x>> \in OpToRel(<, Nat))
  BY NatLessThanWellFounded, WFMin, Zenon
<1>2. \A y \in S : ~(y < x)
  BY <1>1 DEF OpToRel
<1> QED
  BY <1>2

(* f lists the states of context x on the way back through ds. *)
Way(f, c, x, ds) ==
    f = [i \in 0 .. Len(ds) |-> IF i = Len(ds) THEN x ELSE UndoDelta(c, f[i + 1], ds[i + 1])]

\* There is a way back, whatever the deltas.
LEMMA WayExists ==
    ASSUME NEW c, NEW x, NEW ds, Len(ds) \in Nat
    PROVE  \E f : Way(f, c, x, ds)
<1> DEFINE n == Len(ds)
           Fills(f, k) == f = [i \in (n - k) .. n |->
                                IF i = n THEN x ELSE UndoDelta(c, f[i + 1], ds[i + 1])]
           Bad == {k \in Nat : k <= n /\ ~\E f : Fills(f, k)}
<1>1. Bad = {}
  <2> SUFFICES ASSUME Bad # {} PROVE FALSE
    OBVIOUS
  <2>1. PICK k \in Bad : \A l \in Bad : k <= l
    BY LeastNat
  <2>2. k # 0
    <3>1. Fills([i \in n .. n |-> x], 0)
      OBVIOUS
    <3> QED
      BY <3>1
  <2>3. k - 1 \in Nat /\ k - 1 <= n /\ k - 1 \notin Bad
    <3>1. k \in Nat /\ k <= n
      OBVIOUS
    <3>2. k - 1 \in Nat /\ k - 1 <= n /\ ~(k <= k - 1)
      BY <2>2, <3>1
    <3> HIDE DEF Bad
    <3> QED
      BY <2>1, <3>2
  <2>4. PICK f : Fills(f, k - 1)
    BY <2>3
  <2> DEFINE g == [i \in (n - k) .. n |->
                     IF i = n - k THEN UndoDelta(c, f[i + 1], ds[i + 1]) ELSE f[i]]
  <2>5. \A i \in (n - k) .. n : g[i] = IF i = n THEN x ELSE UndoDelta(c, g[i + 1], ds[i + 1])
    <3> SUFFICES ASSUME NEW i \in (n - k) .. n
                 PROVE  g[i] = IF i = n THEN x ELSE UndoDelta(c, g[i + 1], ds[i + 1])
      OBVIOUS
    <3>1. CASE i = n - k
      <4>1. i # n /\ i + 1 \in (n - (k - 1)) .. n /\ i + 1 # n - k
        BY <2>2, <3>1
      <4>2. g[i + 1] = f[i + 1]
        BY <4>1
      <4>3. g[i] = UndoDelta(c, f[i + 1], ds[i + 1])
        BY <3>1
      <4> QED
        BY <4>1, <4>2, <4>3
    <3>2. CASE i # n - k
      <4>1. i \in (n - (k - 1)) .. n
        BY <3>2
      <4>2. g[i] = f[i]
        BY <3>2
      <4>3. f[i] = IF i = n THEN x ELSE UndoDelta(c, f[i + 1], ds[i + 1])
        BY <2>4, <4>1
      <4>4. i # n => g[i + 1] = f[i + 1]
        BY <3>2
      <4> QED
        BY <4>2, <4>3, <4>4
    <3> QED
      BY <3>1, <3>2
  <2>6. Fills(g, k)
    BY <2>5
  <2> QED
    BY <2>1, <2>6
<1>2. n \notin Bad
  BY <1>1
<1>3. PICK f : Fills(f, n)
  BY <1>2
<1>4. Way(f, c, x, ds)
  BY <1>3 DEF Way
<1> QED
  BY <1>4

\* The way back is unique.
LEMMA WayUnique ==
    ASSUME NEW c, NEW x, NEW ds, Len(ds) \in Nat,
           NEW f, Way(f, c, x, ds), NEW g, Way(g, c, x, ds)
    PROVE  f[0] = g[0]
<1> DEFINE n == Len(ds)
           Bad == {k \in Nat : k <= n /\ f[n - k] # g[n - k]}
<1>1. Bad = {}
  <2> SUFFICES ASSUME Bad # {} PROVE FALSE
    OBVIOUS
  <2>1. PICK k \in Bad : \A l \in Bad : k <= l
    BY LeastNat
  <2>2. k # 0
    BY DEF Way
  <2>3. f[(n - k) + 1] = g[(n - k) + 1]
    <3>1. k - 1 \in Nat /\ k - 1 <= n /\ k - 1 \notin Bad
      BY <2>1, <2>2
    <3>2. n - (k - 1) = (n - k) + 1
      OBVIOUS
    <3> QED
      BY <3>1, <3>2
  <2>4. n - k \in 0 .. n /\ n - k # n
    BY <2>2
  <2>5. f[n - k] = UndoDelta(c, f[(n - k) + 1], ds[(n - k) + 1])
    BY <2>4 DEF Way
  <2>6. g[n - k] = UndoDelta(c, g[(n - k) + 1], ds[(n - k) + 1])
    BY <2>4 DEF Way
  <2> QED
    BY <2>3, <2>5, <2>6
<1>2. n \notin Bad
  BY <1>1
<1>3. n - n = 0
  OBVIOUS
<1> QED
  BY <1>2, <1>3

\* UndoDeltas gives the context at the end of the way back.
LEMMA WayEnd ==
    ASSUME NEW c, NEW x, NEW ds, Len(ds) \in Nat, NEW f, Way(f, c, x, ds)
    PROVE  UndoDeltas(c, x, ds) = f[0]
<1> DEFINE u == CHOOSE w : w = [i \in 0 .. Len(ds) |->
                   IF i = Len(ds) THEN x ELSE UndoDelta(c, w[i + 1], ds[i + 1])]
<1>1. Way(u, c, x, ds)
  BY DEF Way
<1>2. UndoDeltas(c, x, ds) = u[0]
  BY DEF UndoDeltas
<1> QED
  BY <1>1, <1>2, WayUnique

\* Nothing to undo.
LEMMA UndoNone == ASSUME NEW c, NEW x PROVE UndoDeltas(c, x, <<>>) = x
<1>1. PICK f : Way(f, c, x, <<>>)
  BY WayExists
<1>2. f[0] = x
  BY <1>1 DEF Way
<1> QED
  BY <1>1, <1>2, WayEnd

\* The deltas of other contexts do not matter.
LEMMA UndoOthers ==
    ASSUME NEW c, NEW x, NEW ds, Len(ds) \in Nat, DOMAIN ds = 1 .. Len(ds), ~Mentions(ds, c)
    PROVE  UndoDeltas(c, x, ds) = x
<1> DEFINE f == [i \in 0 .. Len(ds) |-> x]
<1>1. \A i \in 0 .. Len(ds) : i # Len(ds) => UndoDelta(c, f[i + 1], ds[i + 1]) = x
  BY SMTT(30) DEF UndoDelta, Mentions
<1>2. Way(f, c, x, ds)
  BY <1>1, Zenon DEF Way
<1> QED
  BY <1>2, WayEnd

\* The deltas at the end are undone first.
LEMMA UndoConcat ==
    ASSUME NEW c, NEW x, NEW S, NEW a \in Seq(S), NEW b \in Seq(S)
    PROVE  UndoDeltas(c, x, a \o b) = UndoDeltas(c, UndoDeltas(c, x, b), a)
<1>0. Len(a) \in Nat /\ Len(b) \in Nat
  OBVIOUS
<1>1. PICK g : Way(g, c, x, b)
  BY <1>0, WayExists
<1>2. PICK f : Way(f, c, g[0], a)
  BY <1>0, WayExists
<1>3. UndoDeltas(c, x, b) = g[0] /\ UndoDeltas(c, g[0], a) = f[0]
  BY <1>0, <1>1, <1>2, WayEnd
<1>4. /\ Len(a \o b) = Len(a) + Len(b)
      /\ \A i \in 1 .. Len(a) + Len(b) : (a \o b)[i] = IF i <= Len(a) THEN a[i] ELSE b[i - Len(a)]
  BY ConcatProperties
<1> DEFINE m == Len(a)
           n == Len(a) + Len(b)
           h == [i \in 0 .. n |-> IF i < m THEN f[i] ELSE g[i - m]]
<1>5. \A i \in 0 .. n : h[i] = IF i = n THEN x ELSE UndoDelta(c, h[i + 1], (a \o b)[i + 1])
  <2> SUFFICES ASSUME NEW i \in 0 .. n
               PROVE  h[i] = IF i = n THEN x ELSE UndoDelta(c, h[i + 1], (a \o b)[i + 1])
    OBVIOUS
  <2>1. CASE i = n
    <3>1. h[i] = g[Len(b)]
      BY <1>0, <2>1
    <3>2. g[Len(b)] = x
      BY <1>0, <1>1 DEF Way
    <3> QED
      BY <2>1, <3>1, <3>2
  <2>2. CASE i >= m /\ i # n
    <3>1. i - m \in 0 .. Len(b) /\ i - m # Len(b) /\ (i + 1) - m = (i - m) + 1
          /\ i + 1 \in 1 .. n /\ ~(i < m) /\ ~(i + 1 < m) /\ ~(i + 1 <= m)
      BY <1>0, <2>2
    <3>2. g[i - m] = UndoDelta(c, g[(i - m) + 1], b[(i - m) + 1])
      BY <1>1, <3>1 DEF Way
    <3>3. h[i] = g[i - m] /\ h[i + 1] = g[(i - m) + 1]
      BY <3>1
    <3>4. (a \o b)[i + 1] = b[(i - m) + 1]
      BY <1>4, <3>1
    <3> QED
      BY <2>2, <3>2, <3>3, <3>4
  <2>3. CASE i < m
    <3>1. i \in 0 .. m /\ i # m /\ i # n /\ i + 1 \in 1 .. n /\ i + 1 <= m /\ i + 1 \in 0 .. n
      BY <1>0, <2>3
    <3>2. f[i] = UndoDelta(c, f[i + 1], a[i + 1])
      BY <1>2, <3>1 DEF Way
    <3>3. h[i + 1] = f[i + 1]
      <4>1. CASE i + 1 < m
        BY <3>1, <4>1
      <4>2. CASE i + 1 = m
        <5>1. h[i + 1] = g[0]
          BY <1>0, <3>1, <4>2
        <5>2. f[m] = g[0]
          BY <1>0, <1>2 DEF Way
        <5> QED
          BY <4>2, <5>1, <5>2
      <4> QED
        BY <1>0, <3>1, <4>1, <4>2
    <3>4. (a \o b)[i + 1] = a[i + 1]
      BY <1>4, <3>1
    <3>5. h[i] = f[i]
      BY <2>3
    <3>6. h[i] = UndoDelta(c, h[i + 1], (a \o b)[i + 1])
      BY <3>2, <3>3, <3>4, <3>5
    <3> QED
      BY <3>1, <3>6
  <2>4. i = n \/ (i >= m /\ i # n) \/ i < m
    BY <1>0
  <2> HIDE DEF h, n, m
  <2> QED
    BY <2>1, <2>2, <2>3, <2>4
<1>6. Way(h, c, x, a \o b)
  BY <1>4, <1>5 DEF Way
<1>7. Len(a \o b) \in Nat
  BY <1>0, <1>4
<1>8. UndoDeltas(c, x, a \o b) = h[0]
  BY <1>6, <1>7, WayEnd
<1>9. h[0] = f[0]
  <2>1. CASE m > 0
    BY <1>0, <2>1
  <2>2. CASE m = 0
    <3>1. h[0] = g[0]
      BY <1>0, <2>2
    <3>2. f[0] = g[0]
      BY <1>2, <2>2 DEF Way
    <3> QED
      BY <3>1, <3>2
  <2> QED
    BY <1>0, <2>1, <2>2
<1> QED
  BY <1>3, <1>8, <1>9

\* Undoing one delta.
LEMMA UndoOne == ASSUME NEW c, NEW x, NEW d PROVE UndoDeltas(c, x, <<d>>) = UndoDelta(c, x, d)
<1>1. PICK f : Way(f, c, x, <<d>>)
  BY WayExists
<1>2. f[1] = x /\ f[0] = UndoDelta(c, f[1], d)
  BY <1>1 DEF Way
<1> QED
  BY <1>1, <1>2, WayEnd

\* Undoing a list that has got one delta more.
LEMMA UndoAppend ==
    ASSUME NEW c, NEW x, NEW S, NEW ds \in Seq(S), NEW d \in S
    PROVE  UndoDeltas(c, x, Append(ds, d)) = UndoDeltas(c, UndoDelta(c, x, d), ds)
<1> DEFINE e == <<d>>
<1>1. Append(ds, d) = ds \o e
  BY AppendIsConcat
<1>2. e \in Seq(S)
  BY EmptySeq, AppendProperties, Append(<<>>, d) = <<d>>
<1>3. UndoDeltas(c, x, e) = UndoDelta(c, x, d)
  BY UndoOne
<1> HIDE DEF e
<1>4. UndoDeltas(c, x, ds \o e) = UndoDeltas(c, UndoDeltas(c, x, e), ds)
  BY <1>2, UndoConcat
<1> QED
  BY <1>1, <1>3, <1>4

\* Undoing two deltas, the second one first.
LEMMA UndoTwo ==
    ASSUME NEW c, NEW x, NEW d, NEW e
    PROVE  UndoDeltas(c, x, <<d, e>>) = UndoDelta(c, UndoDelta(c, x, e), d)
<1>1. PICK f : Way(f, c, x, <<d, e>>)
  BY WayExists
<1>2. f[2] = x
  BY <1>1 DEF Way
<1>3. f[1] = UndoDelta(c, f[2], e)
  BY <1>1 DEF Way
<1>4. f[0] = UndoDelta(c, f[1], d)
  BY <1>1 DEF Way
<1> QED
  BY <1>1, <1>2, <1>3, <1>4, WayEnd

-----------------------------------------------------------------------------
(* Which deltas of a committed transaction are pushed to its parent.       *)

(* f lists what base is on the way through ds, when the deltas of the      *)
(* contexts in K are pushed to it.                                         *)
Pushing(f, base, K, ds) ==
    f = [i \in 0 .. Len(ds) |->
            IF i = 0 THEN base
            ELSE IF ds[i].context \in K THEN Append(f[i - 1], ds[i]) ELSE f[i - 1]]

\* Pushing is defined for every list.
LEMMA PushingExists ==
    ASSUME NEW base, NEW K, NEW ds, Len(ds) \in Nat
    PROVE  \E f : Pushing(f, base, K, ds)
<1> DEFINE n == Len(ds)
           Fills(f, k) == f = [i \in 0 .. k |->
                                IF i = 0 THEN base
                                ELSE IF ds[i].context \in K THEN Append(f[i - 1], ds[i])
                                ELSE f[i - 1]]
           Bad == {k \in Nat : k <= n /\ ~\E f : Fills(f, k)}
<1>1. Bad = {}
  <2> SUFFICES ASSUME Bad # {} PROVE FALSE
    OBVIOUS
  <2>1. PICK k \in Bad : \A l \in Bad : k <= l
    BY LeastNat
  <2>2. k # 0
    <3>1. Fills([i \in 0 .. 0 |-> base], 0)
      OBVIOUS
    <3> QED
      BY <3>1
  <2>3. k - 1 \in Nat /\ k - 1 <= n /\ k - 1 \notin Bad
    <3>1. k \in Nat /\ k <= n
      OBVIOUS
    <3>2. k - 1 \in Nat /\ k - 1 <= n /\ ~(k <= k - 1)
      BY <2>2, <3>1
    <3> HIDE DEF Bad
    <3> QED
      BY <2>1, <3>2
  <2>4. PICK f : Fills(f, k - 1)
    BY <2>3
  <2> DEFINE e == IF ds[k].context \in K THEN Append(f[k - 1], ds[k]) ELSE f[k - 1]
             g == [i \in 0 .. k |-> IF i = k THEN e ELSE f[i]]
  <2>5. \A i \in 0 .. k :
            g[i] = IF i = 0 THEN base
                   ELSE IF ds[i].context \in K THEN Append(g[i - 1], ds[i]) ELSE g[i - 1]
    <3> SUFFICES ASSUME NEW i \in 0 .. k
                 PROVE  g[i] = IF i = 0 THEN base
                               ELSE IF ds[i].context \in K THEN Append(g[i - 1], ds[i])
                               ELSE g[i - 1]
      OBVIOUS
    <3>1. i # 0 => g[i - 1] = f[i - 1]
      OBVIOUS
    <3>2. CASE i = k
      <4>1. g[i] = e
        BY <3>2
      <4> QED
        BY <2>2, <3>1, <3>2, <4>1
    <3>3. CASE i # k
      <4>1. i \in 0 .. (k - 1) /\ g[i] = f[i]
        BY <3>3
      <4>2. f[i] = IF i = 0 THEN base
                   ELSE IF ds[i].context \in K THEN Append(f[i - 1], ds[i]) ELSE f[i - 1]
        BY <2>4, <4>1
      <4> HIDE DEF g
      <4> QED
        BY <3>1, <4>1, <4>2
    <3> QED
      BY <3>2, <3>3
  <2>6. Fills(g, k)
    BY <2>5
  <2> QED
    BY <2>1, <2>6
<1>2. n \notin Bad
  BY <1>1
<1>3. PICK f : Fills(f, n)
  BY <1>2
<1>4. Pushing(f, base, K, ds)
  BY <1>3 DEF Pushing
<1> QED
  BY <1>4

(* r is base followed by as much of ds as the contexts in K need. *)
IsPushed(r, base, K, ds) ==
    /\ \A c : Mentions(r, c) => Mentions(base, c) \/ (c \in K /\ Mentions(ds, c))
    /\ \A c, x : UndoDeltas(c, x, r) =
          IF c \in K THEN UndoDeltas(c, UndoDeltas(c, x, ds), base)
          ELSE UndoDeltas(c, x, base)

\* What is pushed is undone as the whole list would be, as far as the contexts in K
\* are concerned.
LEMMA PushingUndo ==
    ASSUME NEW S, NEW base \in Seq(S), NEW K, NEW ds \in Seq(S),
           NEW f, Pushing(f, base, K, ds)
    PROVE  f[Len(ds)] \in Seq(S) /\ IsPushed(f[Len(ds)], base, K, ds)
<1> DEFINE n == Len(ds)
           Typed(k) == f[k] \in Seq(S)
           Named(k) == \A c : Mentions(f[k], c) =>
                          Mentions(base, c) \/ (c \in K /\ Mentions(ds, c))
           Same(k) == \A c, x : UndoDeltas(c, x, f[k]) =
                         IF c \in K THEN UndoDeltas(c, UndoDeltas(c, x, SubSeq(ds, 1, k)), base)
                         ELSE UndoDeltas(c, x, base)
           Good(k) == Typed(k) /\ Named(k) /\ Same(k)
           Bad == {k \in Nat : k <= n /\ ~Good(k)}
<1>0. n \in Nat
  OBVIOUS
<1>1. Good(0)
  <2>1. f[0] = base
    BY <1>0 DEF Pushing
  <2>2. SubSeq(ds, 1, 0) = <<>>
    BY SubSeqEmpty
  <2> QED
    BY <2>1, <2>2, UndoNone
<1>2. ASSUME NEW k \in Nat, k # 0, k <= n, Good(k - 1) PROVE Good(k)
  <2> DEFINE d == ds[k]
             a == SubSeq(ds, 1, k - 1)
  <2>0. k \in 1 .. n /\ k \in 0 .. n
    BY <1>0, <1>2
  <2>1. f[k] = IF d.context \in K THEN Append(f[k - 1], d) ELSE f[k - 1]
    BY <1>2, <2>0 DEF Pushing
  <2>2. d \in S /\ k \in DOMAIN ds
    BY <2>0
  <2>3. a \in Seq(S) /\ SubSeq(ds, 1, k) = Append(a, d)
    <3>1. \A i \in 1 .. k - 1 : ds[i] \in S
      BY <1>0, <2>0
    <3>2. a \in Seq(S)
      BY <2>0, <3>1, SubSeqProperties
    <3>3. 1 \in 1 .. Len(ds) /\ k \in 1 .. Len(ds)
      BY <1>0, <2>0
    <3>4. SubSeq(ds, 1, k) = SubSeq(ds, 1, k - 1) \o <<ds[k]>>
      BY <3>3, SubSeqRecursiveSecond
    <3>5. Append(a, d) = a \o <<d>>
      BY <2>2, <3>2, AppendIsConcat
    <3> QED
      BY <3>2, <3>4, <3>5
  <2> HIDE DEF a
  <2>4. \A c, x : d.context # c => UndoDelta(c, x, d) = x
    BY DEF UndoDelta
  <2>5. \A c, x : UndoDeltas(c, x, SubSeq(ds, 1, k)) = UndoDeltas(c, UndoDelta(c, x, d), a)
    <3> SUFFICES ASSUME NEW c, NEW x
                 PROVE  UndoDeltas(c, x, Append(a, d)) = UndoDeltas(c, UndoDelta(c, x, d), a)
      BY <2>3
    <3> QED
      BY <2>2, <2>3, UndoAppend
  <2> HIDE DEF d
  <2>6. CASE d.context \in K
    <3>1. f[k] = Append(f[k - 1], d)
      BY <2>1, <2>6
    <3>2. Typed(k)
      BY <1>2, <2>2, <3>1, AppendProperties
    <3>3. Named(k)
      <4> SUFFICES ASSUME NEW c, Mentions(f[k], c)
                   PROVE  Mentions(base, c) \/ (c \in K /\ Mentions(ds, c))
        OBVIOUS
      <4>1. Mentions(f[k - 1], c) \/ d.context = c
        <5>1. PICK i \in DOMAIN f[k] : f[k][i].context = c
          BY DEF Mentions
        <5>2. /\ DOMAIN f[k] = 1 .. Len(f[k - 1]) + 1
              /\ DOMAIN f[k - 1] = 1 .. Len(f[k - 1])
              /\ Len(f[k - 1]) \in Nat
              /\ \A j \in 1 .. Len(f[k - 1]) : f[k][j] = f[k - 1][j]
              /\ f[k][Len(f[k - 1]) + 1] = d
          BY <1>2, <2>2, <3>1
        <5>3. i \in 1 .. Len(f[k - 1]) \/ i = Len(f[k - 1]) + 1
          BY <5>1, <5>2
        <5> QED
          BY <5>1, <5>2, <5>3 DEF Mentions
      <4>2. CASE Mentions(f[k - 1], c)
        BY <1>2, <4>2
      <4>3. CASE d.context = c
        BY <2>2, <2>6, <4>3 DEF Mentions, d
      <4> QED
        BY <4>1, <4>2, <4>3
    <3>4. Same(k)
      <4> SUFFICES ASSUME NEW c, NEW x
                   PROVE  UndoDeltas(c, x, f[k]) =
                            IF c \in K
                            THEN UndoDeltas(c, UndoDeltas(c, x, SubSeq(ds, 1, k)), base)
                            ELSE UndoDeltas(c, x, base)
        OBVIOUS
      <4> DEFINE y == UndoDelta(c, x, d)
      <4>1. UndoDeltas(c, x, f[k]) = UndoDeltas(c, y, f[k - 1])
        BY <1>2, <2>2, <3>1, UndoAppend
      <4>2. UndoDeltas(c, y, f[k - 1]) =
              IF c \in K THEN UndoDeltas(c, UndoDeltas(c, y, a), base)
              ELSE UndoDeltas(c, y, base)
        BY <1>2 DEF a
      <4>3. c \notin K => y = x
        BY <2>4, <2>6
      <4>4. UndoDeltas(c, x, SubSeq(ds, 1, k)) = UndoDeltas(c, y, a)
        BY <2>5
      <4> HIDE DEF y
      <4> QED
        BY <4>1, <4>2, <4>3, <4>4
    <3> QED
      BY <3>2, <3>3, <3>4
  <2>7. CASE d.context \notin K
    <3>1. f[k] = f[k - 1]
      BY <2>1, <2>7
    <3>2. Same(k)
      <4> SUFFICES ASSUME NEW c, NEW x
                   PROVE  UndoDeltas(c, x, f[k]) =
                            IF c \in K
                            THEN UndoDeltas(c, UndoDeltas(c, x, SubSeq(ds, 1, k)), base)
                            ELSE UndoDeltas(c, x, base)
        OBVIOUS
      <4>1. UndoDeltas(c, x, f[k - 1]) =
              IF c \in K THEN UndoDeltas(c, UndoDeltas(c, x, a), base)
              ELSE UndoDeltas(c, x, base)
        BY <1>2 DEF a
      <4>2. c \in K => UndoDelta(c, x, d) = x
        BY <2>4, <2>7
      <4>3. UndoDeltas(c, x, SubSeq(ds, 1, k)) = UndoDeltas(c, UndoDelta(c, x, d), a)
        BY <2>5
      <4> QED
        BY <3>1, <4>1, <4>2, <4>3
    <3> QED
      BY <1>2, <3>1, <3>2
  <2> QED
    BY <2>6, <2>7
<1>3. Bad = {}
  <2> SUFFICES ASSUME Bad # {} PROVE FALSE
    OBVIOUS
  <2> HIDE DEF Good
  <2>1. PICK k \in Bad : \A l \in Bad : k <= l
    BY LeastNat
  <2>2. k \in Nat /\ k <= n /\ ~Good(k) /\ k # 0
    BY <1>1
  <2>3. k - 1 \in Nat /\ k - 1 <= n /\ ~(k <= k - 1)
    BY <2>2
  <2>4. Good(k - 1)
    BY <2>1, <2>3
  <2> QED
    BY <1>2, <2>2, <2>4
<1>4. Good(n)
  BY <1>0, <1>3
<1>5. SubSeq(ds, 1, n) = ds
  BY SubSeqFull
<1> QED
  BY <1>4, <1>5 DEF IsPushed

(* The same, when K are the contexts that parent p needs deltas of. *)
PushedTo(p, whole, ds, r) ==
    /\ \A c : Mentions(r, c) =>
          \/ Mentions(p.deltas, c)
          \/ c <= p.contexts_size /\ c \notin DOMAIN whole /\ Mentions(ds, c)
    /\ \A c \in Nat : \A x : UndoDeltas(c, x, r) =
          IF c <= p.contexts_size /\ c \notin DOMAIN whole
          THEN UndoDeltas(c, UndoDeltas(c, x, ds), p.deltas)
          ELSE UndoDeltas(c, x, p.deltas)

\* What is pushed to the parent is undone there as it would be in the transaction
\* that has ended, unless the parent does not need it.
LEMMA PushedDeltas ==
    ASSUME NEW S, NEW p, p.deltas \in Seq(S), NEW whole, NEW ds \in Seq(S),
           \A i \in DOMAIN ds : ds[i].context \in Nat
    PROVE  /\ PushDeltas(p, whole, ds) \in Seq(S)
           /\ PushedTo(p, whole, ds, PushDeltas(p, whole, ds))
<1> DEFINE K == {c \in Nat : c <= p.contexts_size /\ c \notin DOMAIN whole}
           u == CHOOSE w : w = [i \in 0 .. Len(ds) |->
                   IF i = 0 THEN p.deltas
                   ELSE IF ds[i].context <= p.contexts_size /\ ds[i].context \notin DOMAIN whole
                   THEN Append(w[i - 1], ds[i])
                   ELSE w[i - 1]]
<1>1. PushDeltas(p, whole, ds) = u[Len(ds)]
  BY DEF PushDeltas
<1>2. \A w : Pushing(w, p.deltas, K, ds) <=>
               w = [i \in 0 .. Len(ds) |->
                   IF i = 0 THEN p.deltas
                   ELSE IF ds[i].context <= p.contexts_size /\ ds[i].context \notin DOMAIN whole
                   THEN Append(w[i - 1], ds[i])
                   ELSE w[i - 1]]
  <2>1. \A i \in 0 .. Len(ds) : i # 0 =>
           (ds[i].context \in K <=>
              ds[i].context <= p.contexts_size /\ ds[i].context \notin DOMAIN whole)
    OBVIOUS
  <2> HIDE DEF K
  <2> QED
    BY <2>1 DEF Pushing
<1>3. Pushing(u, p.deltas, K, ds)
  <2> HIDE DEF K
  <2>1. \E w : Pushing(w, p.deltas, K, ds)
    BY Len(ds) \in Nat, PushingExists
  <2> QED
    BY <1>2, <2>1
<1> HIDE DEF u
<1>4. u[Len(ds)] \in Seq(S) /\ IsPushed(u[Len(ds)], p.deltas, K, ds)
  <2> HIDE DEF K
  <2> QED
    BY <1>3, PushingUndo
<1>5. \A c \in Nat : c \in K <=> c <= p.contexts_size /\ c \notin DOMAIN whole
  OBVIOUS
<1>6. \A c : c \in K => c <= p.contexts_size /\ c \notin DOMAIN whole
  OBVIOUS
<1> HIDE DEF K
<1> QED
  BY <1>1, <1>4, <1>5, <1>6 DEF IsPushed, PushedTo

-----------------------------------------------------------------------------
(* What the journal records.                                               *)

\* What a journal is.
LEMMA IsJournal ==
    ASSUME NEW K, NEW V, NEW f
    PROVE  f \in Journals(K, V) <=> (DOMAIN f \subseteq K /\ f \in [DOMAIN f -> V])
BY DEF Journals

(* e is f with an entry for k, which is v unless there was one. *)
IsEmplaced(e, f, k, v) ==
    /\ DOMAIN e = DOMAIN f \cup {k}
    /\ \A i \in DOMAIN f : e[i] = f[i]
    /\ k \notin DOMAIN f => e[k] = v

\* emplace keeps what was there.
LEMMA Emplaced ==
    ASSUME NEW K, NEW V, NEW f \in Journals(K, V), NEW k \in K, NEW v \in V
    PROVE  Emplace(f, k, v) \in Journals(K, V) /\ IsEmplaced(Emplace(f, k, v), f, k, v)
<1> DEFINE e == Emplace(f, k, v)
<1>1. DOMAIN f \subseteq K /\ f \in [DOMAIN f -> V]
  BY IsJournal
<1>2. DOMAIN e = DOMAIN f \cup {k}
  BY DEF Emplace
<1>3. \A i \in DOMAIN f \cup {k} : e[i] = IF i \in DOMAIN f THEN f[i] ELSE v
  BY DEF Emplace
<1>4. e \in [DOMAIN f \cup {k} -> V]
  BY <1>1 DEF Emplace
<1> HIDE DEF e
<1>5. e \in Journals(K, V)
  BY <1>1, <1>2, <1>4, IsJournal
<1> QED
  BY <1>2, <1>3, <1>5 DEF e, IsEmplaced

(* Journals t and u agree but for the fields in D. *)
SameBut(t, u, D) ==
    /\ t.names_size = u.names_size /\ t.bindings_size = u.bindings_size
    /\ t.contexts_size = u.contexts_size
    /\ "inserted" \notin D => t.inserted = u.inserted
    /\ "binding_mutations" \notin D => t.binding_mutations = u.binding_mutations
    /\ "context_mutations" \notin D => t.context_mutations = u.context_mutations
    /\ "deltas" \notin D => t.deltas = u.deltas
    /\ "fact_mutations" \notin D => t.fact_mutations = u.fact_mutations

\* record_binding_mutation saves what is changed next.
LEMMA RecordBindingBack ==
    ASSUME graph \in Graphs, NEW t \in Transactions, OnlyOlder(t),
           NEW b \in DOMAIN graph.bindings, NEW h, BindingsBack(t, graph, h),
           NEW g, Len(g.bindings) = Len(graph.bindings),
           \A i \in DOMAIN graph.bindings : i # b => g.bindings[i] = graph.bindings[i]
    PROVE  /\ RecordBinding(t, b) \in Transactions
           /\ OnlyOlder(RecordBinding(t, b))
           /\ BindingsBack(RecordBinding(t, b), g, h)
           /\ SameBut(RecordBinding(t, b), t, {"binding_mutations"})
<1> DEFINE n == Len(graph.bindings)
           m == Emplace(t.binding_mutations, b, graph.bindings[b])
           u == [t EXCEPT !.binding_mutations = m]
<1>0. n \in Nat /\ DOMAIN graph.bindings = 1 .. n /\ b \in 1 .. n /\ b \in Nat
      /\ graph.bindings[b] \in Bindings
  BY DEF Graphs
<1>1. t.binding_mutations \in Journals(Nat, Bindings) /\ t.bindings_size \in Nat
  BY DEF Transactions
<1>2. CASE b > t.bindings_size
  <2>1. RecordBinding(t, b) = t
    BY <1>2 DEF RecordBinding
  <2>2. \A i \in 1 .. t.bindings_size : i # b /\ (t.bindings_size <= n => i \in 1 .. n)
    BY <1>0, <1>1, <1>2
  <2>3. BindingsBack(t, g, h)
    BY <1>0, <2>2 DEF BindingsBack
  <2> QED
    BY <2>1, <2>3 DEF SameBut
<1>3. CASE ~(b > t.bindings_size)
  <2>1. RecordBinding(t, b) = u
    BY <1>3 DEF RecordBinding
  <2>2. /\ m \in Journals(Nat, Bindings)
        /\ IsEmplaced(m, t.binding_mutations, b, graph.bindings[b])
    BY <1>0, <1>1, Emplaced
  <2> USE DEF IsEmplaced
  <2> HIDE DEF m
  <2>3. u \in Transactions /\ u.binding_mutations = m /\ SameBut(u, t, {"binding_mutations"})
    BY <2>2 DEF Transactions, SameBut
  <2>4. b \in 1 .. t.bindings_size
    BY <1>0, <1>1, <1>3
  <2> HIDE DEF u
  <2>5. OnlyOlder(u)
    BY <2>2, <2>3, <2>4 DEF OnlyOlder, SameBut
  <2>6. \A i \in 1 .. t.bindings_size : t.bindings_size <= n => i \in 1 .. n
    BY <1>0, <1>1
  <2>7. BindingsBack(u, g, h)
    <3>1. u.bindings_size = t.bindings_size
      BY <2>3 DEF SameBut
    <3>2. Len(h.bindings) = t.bindings_size /\ t.bindings_size <= n
      BY DEF BindingsBack
    <3>3. ASSUME NEW i \in 1 .. t.bindings_size
          PROVE  h.bindings[i] = IF i \in DOMAIN m THEN m[i] ELSE g.bindings[i]
      <4>1. h.bindings[i] = IF i \in DOMAIN t.binding_mutations
                            THEN t.binding_mutations[i] ELSE graph.bindings[i]
        BY <3>3 DEF BindingsBack
      <4> QED
        BY <1>0, <2>2, <2>6, <3>2, <3>3, <4>1
    <3> QED
      BY <2>3, <3>1, <3>2, <3>3 DEF BindingsBack
  <2> QED
    BY <2>1, <2>3, <2>5, <2>7
<1> QED
  BY <1>2, <1>3

\* record_record_facts_mutation saves what is changed next.
LEMMA RecordFactBack ==
    ASSUME graph \in Graphs, NEW t \in Transactions, OnlyOlder(t),
           NEW k \in Keys, NEW h, FactsBack(t, graph, h),
           NEW g, \A i \in Keys : i # k => g.facts[i] = graph.facts[i]
    PROVE  /\ RecordFact(t, k) \in Transactions
           /\ OnlyOlder(RecordFact(t, k))
           /\ FactsBack(RecordFact(t, k), g, h)
           /\ SameBut(RecordFact(t, k), t, {"fact_mutations"})
<1> DEFINE V == Facts \cup {NoFact}
           m == Emplace(t.fact_mutations, k, graph.facts[k])
           u == [t EXCEPT !.fact_mutations = m]
<1>1. t.fact_mutations \in Journals(Keys, V) /\ graph.facts[k] \in V
  BY DEF Transactions, Graphs
<1>2. /\ m \in Journals(Keys, V)
      /\ IsEmplaced(m, t.fact_mutations, k, graph.facts[k])
  <2> HIDE DEF V
  <2> QED
    BY <1>1, Emplaced
<1>3. RecordFact(t, k) = u
  BY DEF RecordFact
<1> HIDE DEF m
<1>4. u \in Transactions /\ u.fact_mutations = m /\ SameBut(u, t, {"fact_mutations"})
  BY <1>2 DEF Transactions, SameBut
<1> HIDE DEF u
<1>5. OnlyOlder(u)
  BY <1>4 DEF OnlyOlder, SameBut
<1>6. FactsBack(u, g, h)
  BY <1>2, <1>4 DEF FactsBack, IsEmplaced
<1> QED
  BY <1>3, <1>4, <1>5, <1>6

\* record_decl_context_mutation saves what is changed next.
LEMMA RecordContextBack ==
    ASSUME graph \in Graphs, NEW t \in Transactions, OnlyOlder(t),
           NEW c \in DOMAIN graph.contexts, NEW h, ContextsBack(t, graph, h),
           NEW g, Len(g.contexts) = Len(graph.contexts),
           \A i \in DOMAIN graph.contexts : i # c => g.contexts[i] = graph.contexts[i]
    PROVE  /\ RecordContext(t, c) \in Transactions
           /\ OnlyOlder(RecordContext(t, c))
           /\ ContextsBack(RecordContext(t, c), g, h)
           /\ SameBut(RecordContext(t, c), t, {"context_mutations"})
           /\ \A i \in DOMAIN RecordContext(t, c).context_mutations :
                 i \in DOMAIN t.context_mutations \/ (i = c /\ c <= t.contexts_size)
<1> DEFINE n == Len(graph.contexts)
           m == Emplace(t.context_mutations, c, graph.contexts[c])
           u == [t EXCEPT !.context_mutations = m]
<1>0. n \in Nat /\ DOMAIN graph.contexts = 1 .. n /\ c \in 1 .. n /\ c \in Nat
      /\ graph.contexts[c] \in Contexts
  BY DEF Graphs
<1>1. t.context_mutations \in Journals(Nat, Contexts) /\ t.contexts_size \in Nat
  BY DEF Transactions
<1>2. CASE c > t.contexts_size
  <2>1. RecordContext(t, c) = t
    BY <1>2 DEF RecordContext
  <2>2. \A i \in 1 .. t.contexts_size : i # c /\ (t.contexts_size <= n => i \in 1 .. n)
    BY <1>0, <1>1, <1>2
  <2>3. ContextsBack(t, g, h)
    BY <1>0, <2>2 DEF ContextsBack
  <2> QED
    BY <2>1, <2>3 DEF SameBut
<1>3. CASE ~(c > t.contexts_size)
  <2>1. RecordContext(t, c) = u
    BY <1>3 DEF RecordContext
  <2>2. /\ m \in Journals(Nat, Contexts)
        /\ IsEmplaced(m, t.context_mutations, c, graph.contexts[c])
    BY <1>0, <1>1, Emplaced
  <2> USE DEF IsEmplaced
  <2> HIDE DEF m
  <2>3. u \in Transactions /\ u.context_mutations = m /\ SameBut(u, t, {"context_mutations"})
    BY <2>2 DEF Transactions, SameBut
  <2>4. c \in 1 .. t.contexts_size
    BY <1>0, <1>1, <1>3
  <2> HIDE DEF u
  <2>5. OnlyOlder(u)
    BY <2>2, <2>3, <2>4 DEF OnlyOlder, SameBut
  <2>6. \A i \in 1 .. t.contexts_size : t.contexts_size <= n => i \in 1 .. n
    BY <1>0, <1>1
  <2>7. ContextsBack(u, g, h)
    <3>1. u.contexts_size = t.contexts_size /\ u.deltas = t.deltas
      BY <2>3 DEF SameBut
    <3>2. Len(h.contexts) = t.contexts_size /\ t.contexts_size <= n
      BY DEF ContextsBack
    <3>3. ASSUME NEW i \in 1 .. t.contexts_size
          PROVE  h.contexts[i] =
                    UndoDeltas(i, IF i \in DOMAIN m THEN m[i] ELSE g.contexts[i], t.deltas)
      <4>1. h.contexts[i] = UndoDeltas(i, IF i \in DOMAIN t.context_mutations
                                          THEN t.context_mutations[i] ELSE graph.contexts[i],
                                       t.deltas)
        BY <3>3 DEF ContextsBack
      <4>2. (IF i \in DOMAIN t.context_mutations THEN t.context_mutations[i]
             ELSE graph.contexts[i]) = IF i \in DOMAIN m THEN m[i] ELSE g.contexts[i]
        BY <1>0, <2>2, <2>6, <3>2, <3>3
      <4> QED
        BY <4>1, <4>2
    <3> QED
      BY <2>3, <3>1, <3>2, <3>3 DEF ContextsBack
  <2> QED
    BY <1>3, <2>1, <2>2, <2>3, <2>4, <2>5, <2>7
<1> QED
  BY <1>2, <1>3

(* u may have deltas of context c besides those of t, which has not saved it. *)
MentionedToo(u, t, c) ==
    \A e : Mentions(u.deltas, e) =>
        Mentions(t.deltas, e) \/ (e = c /\ c \notin DOMAIN t.context_mutations)

\* decl_context_delta_journal saves what is needed to undo the change.
LEMMA RecordDeltasBack ==
    ASSUME graph \in Graphs, NEW t \in Transactions, OnlyOlder(t),
           NEW c \in DOMAIN graph.contexts, NEW h, ContextsBack(t, graph, h),
           NEW ds \in Seq(Deltas), \A i \in DOMAIN ds : ds[i].context = c,
           NEW g, Len(g.contexts) \in Nat, Len(graph.contexts) <= Len(g.contexts),
           \A i \in DOMAIN graph.contexts : i # c => g.contexts[i] = graph.contexts[i],
           UndoDeltas(c, g.contexts[c], ds) = graph.contexts[c]
    PROVE  /\ RecordDeltas(t, c, ds) \in Transactions
           /\ OnlyOlder(RecordDeltas(t, c, ds))
           /\ ContextsBack(RecordDeltas(t, c, ds), g, h)
           /\ SameBut(RecordDeltas(t, c, ds), t, {"deltas"})
           /\ MentionedToo(RecordDeltas(t, c, ds), t, c)
<1> DEFINE n == Len(graph.contexts)
           M == t.context_mutations
           u == [t EXCEPT !.deltas = t.deltas \o ds]
<1>0. n \in Nat /\ DOMAIN graph.contexts = 1 .. n /\ c \in 1 .. n /\ c \in Nat
  BY DEF Graphs
<1>1. t.deltas \in Seq(Deltas) /\ t.contexts_size \in Nat
  BY DEF Transactions
<1>2. Len(h.contexts) = t.contexts_size /\ t.contexts_size <= n
  BY DEF ContextsBack
<1>3. \A i \in 1 .. t.contexts_size : i \in 1 .. n
  BY <1>0, <1>1, <1>2
<1>4. t.contexts_size <= Len(g.contexts)
  BY <1>0, <1>1, <1>2
<1>5. ASSUME NEW i \in 1 .. t.contexts_size
      PROVE  h.contexts[i] = UndoDeltas(i, IF i \in DOMAIN M THEN M[i] ELSE graph.contexts[i],
                                        t.deltas)
  BY <1>5 DEF ContextsBack
<1>6. CASE c > t.contexts_size \/ c \in DOMAIN M
  <2>1. RecordDeltas(t, c, ds) = t
    BY <1>6 DEF RecordDeltas
  <2>2. ASSUME NEW i \in 1 .. t.contexts_size
        PROVE  (IF i \in DOMAIN M THEN M[i] ELSE graph.contexts[i]) =
               IF i \in DOMAIN M THEN M[i] ELSE g.contexts[i]
    <3>1. i = c => i \in DOMAIN M
      BY <1>0, <1>1, <1>6
    <3> QED
      BY <1>0, <1>3, <3>1
  <2>3. ContextsBack(t, g, h)
    BY <1>2, <1>4, <1>5, <2>2 DEF ContextsBack
  <2> QED
    BY <2>1, <2>3 DEF SameBut, MentionedToo
<1>7. CASE ~(c > t.contexts_size \/ c \in DOMAIN M)
  <2>1. RecordDeltas(t, c, ds) = u
    BY <1>7 DEF RecordDeltas
  <2>2. /\ t.deltas \o ds \in Seq(Deltas)
        /\ Len(t.deltas \o ds) = Len(t.deltas) + Len(ds)
        /\ \A i \in 1 .. Len(t.deltas) + Len(ds) : (t.deltas \o ds)[i] =
              IF i <= Len(t.deltas) THEN t.deltas[i] ELSE ds[i - Len(t.deltas)]
    BY <1>1, ConcatProperties
  <2>3. u \in Transactions /\ u.deltas = t.deltas \o ds /\ SameBut(u, t, {"deltas"})
    BY <2>2 DEF Transactions, SameBut
  <2>4. c \in 1 .. t.contexts_size /\ c \notin DOMAIN M
    BY <1>0, <1>1, <1>7
  <2>5. ASSUME NEW e, Mentions(u.deltas, e)
        PROVE  Mentions(t.deltas, e) \/ e = c
    <3>0. Len(t.deltas) \in Nat /\ Len(ds) \in Nat /\ DOMAIN ds = 1 .. Len(ds)
          /\ DOMAIN t.deltas = 1 .. Len(t.deltas)
          /\ DOMAIN (t.deltas \o ds) = 1 .. Len(t.deltas) + Len(ds)
      BY <1>1, <2>2
    <3>1. PICK i \in 1 .. Len(t.deltas) + Len(ds) : (t.deltas \o ds)[i].context = e
      BY <2>3, <2>5, <3>0 DEF Mentions
    <3>2. CASE i <= Len(t.deltas)
      <4>1. i \in DOMAIN t.deltas /\ (t.deltas \o ds)[i] = t.deltas[i]
        BY <2>2, <3>0, <3>2
      <4> QED
        BY <3>1, <4>1 DEF Mentions
    <3>3. CASE ~(i <= Len(t.deltas))
      <4>1. i - Len(t.deltas) \in 1 .. Len(ds)
        BY <3>0, <3>3
      <4>2. (t.deltas \o ds)[i] = ds[i - Len(t.deltas)]
        BY <2>2, <3>3
      <4> QED
        BY <3>0, <3>1, <4>1, <4>2
    <3> QED
      BY <3>2, <3>3
  <2>6. ASSUME NEW i \in 1 .. t.contexts_size
        PROVE  h.contexts[i] = UndoDeltas(i, IF i \in DOMAIN M THEN M[i] ELSE g.contexts[i],
                                          t.deltas \o ds)
    <3> DEFINE x == IF i \in DOMAIN M THEN M[i] ELSE g.contexts[i]
    <3>1. UndoDeltas(i, x, t.deltas \o ds) = UndoDeltas(i, UndoDeltas(i, x, ds), t.deltas)
      <4> HIDE DEF x
      <4> QED
        BY <1>1, UndoConcat
    <3>2. UndoDeltas(i, x, ds) = IF i \in DOMAIN M THEN M[i] ELSE graph.contexts[i]
      <4>1. CASE i = c
        BY <2>4, <4>1
      <4>2. CASE i # c
        <5>1. ~Mentions(ds, i) /\ Len(ds) \in Nat /\ DOMAIN ds = 1 .. Len(ds)
          BY <4>2 DEF Mentions
        <5>2. UndoDeltas(i, x, ds) = x
          <6> HIDE DEF x
          <6> QED
            BY <5>1, UndoOthers
        <5> QED
          BY <1>0, <1>3, <4>2, <5>2
      <4> QED
        BY <4>1, <4>2
    <3> QED
      BY <1>5, <3>1, <3>2
  <2> HIDE DEF u
  <2>7. OnlyOlder(u)
    <3>1. \A e : Mentions(u.deltas, e) => e \in 1 .. t.contexts_size
      BY <2>4, <2>5 DEF OnlyOlder
    <3> QED
      BY <2>3, <3>1 DEF OnlyOlder, SameBut
  <2>8. ContextsBack(u, g, h)
    <3>1. u.contexts_size = t.contexts_size /\ u.context_mutations = M
      BY <2>3 DEF SameBut
    <3> QED
      BY <1>2, <1>4, <2>3, <2>6, <3>1 DEF ContextsBack
  <2> QED
    BY <2>1, <2>3, <2>4, <2>5, <2>7, <2>8 DEF MentionedToo
<1> QED
  BY <1>6, <1>7

\* An element appended to a sequence is its last one.
LEMMA FrontOfAppend ==
    ASSUME NEW S, NEW s \in Seq(S), NEW e \in S
    PROVE  Append(s, e) # <<>> /\ Front(Append(s, e)) = s
<1> DEFINE a == Append(s, e)
<1>1. a \in Seq(S) /\ Len(a) = Len(s) + 1 /\ \A i \in 1 .. Len(s) : a[i] = s[i]
  OBVIOUS
<1>2. Len(s) \in Nat
  OBVIOUS
<1> HIDE DEF a
<1>3. Front(a) = SubSeq(a, 1, Len(s))
  BY <1>1, <1>2 DEF Front
<1>4. \A i \in 1 .. Len(s) : a[i] \in S
  BY <1>1
<1>5. SubSeq(a, 1, Len(s)) \in Seq(S) /\ Len(SubSeq(a, 1, Len(s))) = Len(s)
      /\ \A i \in 1 .. Len(s) : SubSeq(a, 1, Len(s))[i] = a[i]
  BY <1>1, <1>2, <1>4
<1>6. SubSeq(a, 1, Len(s)) = s
  BY <1>1, <1>5, SeqEqual
<1>7. a # <<>>
  BY <1>1, <1>2
<1> QED
  BY <1>3, <1>6, <1>7 DEF a

\* pop_back undoes push_back, for each of the three lists of a context.
LEMMA UndoAppended ==
    ASSUME NEW c, NEW x \in Contexts, NEW id \in Ids
    PROVE  /\ UndoDelta(c, [x EXCEPT !.bindings = Append(x.bindings, id)],
                        Appended(c, "bindings")) = x
           /\ UndoDelta(c, [x EXCEPT !.children = Append(x.children, id)],
                        Appended(c, "children")) = x
           /\ UndoDelta(c, [x EXCEPT !.using = Append(x.using, id)],
                        Appended(c, "using")) = x
<1>0. x.bindings \in Seq(Ids) /\ x.children \in Seq(Ids) /\ x.using \in Seq(Ids)
  BY DEF Contexts
<1>1. UndoDelta(c, [x EXCEPT !.bindings = Append(x.bindings, id)], Appended(c, "bindings")) = x
  <2> DEFINE a == Append(x.bindings, id)
             y == [x EXCEPT !.bindings = a]
  <2>1. a # <<>> /\ Front(a) = x.bindings
    BY <1>0, FrontOfAppend
  <2>2. UndoDelta(c, y, Appended(c, "bindings")) =
           [y EXCEPT !.bindings = IF @ = <<>> THEN @ ELSE Front(@)]
    BY DEF UndoDelta, Appended
  <2> HIDE DEF a
  <2>3. UndoDelta(c, y, Appended(c, "bindings")) = x
    BY <2>1, <2>2 DEF Contexts
  <2> QED
    BY <2>3 DEF a
<1>2. UndoDelta(c, [x EXCEPT !.children = Append(x.children, id)], Appended(c, "children")) = x
  <2> DEFINE a == Append(x.children, id)
             y == [x EXCEPT !.children = a]
  <2>1. a # <<>> /\ Front(a) = x.children
    BY <1>0, FrontOfAppend
  <2>2. UndoDelta(c, y, Appended(c, "children")) =
           [y EXCEPT !.children = IF @ = <<>> THEN @ ELSE Front(@)]
    BY DEF UndoDelta, Appended
  <2> HIDE DEF a
  <2>3. UndoDelta(c, y, Appended(c, "children")) = x
    BY <2>1, <2>2 DEF Contexts
  <2> QED
    BY <2>3 DEF a
<1>3. UndoDelta(c, [x EXCEPT !.using = Append(x.using, id)], Appended(c, "using")) = x
  <2> DEFINE a == Append(x.using, id)
             y == [x EXCEPT !.using = a]
  <2>1. a # <<>> /\ Front(a) = x.using
    BY <1>0, FrontOfAppend
  <2>2. UndoDelta(c, y, Appended(c, "using")) =
           [y EXCEPT !.using = IF @ = <<>> THEN @ ELSE Front(@)]
    BY DEF UndoDelta, Appended
  <2> HIDE DEF a
  <2>3. UndoDelta(c, y, Appended(c, "using")) = x
    BY <2>1, <2>2, ZenonT(30) DEF Contexts
  <2> QED
    BY <2>3 DEF a
<1> QED
  BY <1>1, <1>2, <1>3

\* The previous entry undoes the assignment of an index entry.
LEMMA UndoIndexAssigned ==
    ASSUME NEW c, NEW x \in Contexts, NEW n \in Names, NEW v, NEW d,
           d = [context |-> c, kind |-> "index", name |-> n, previous |-> x.index[n]]
    PROVE  UndoDelta(c, [x EXCEPT !.index = [x.index EXCEPT ![n] = v]], d) = x
<1> DEFINE y == [x EXCEPT !.index = [x.index EXCEPT ![n] = v]]
<1>1. UndoDelta(c, y, d) = [y EXCEPT !.index = [y.index EXCEPT ![n] = x.index[n]]]
  BY DEF UndoDelta
<1>2. x.index \in [Names -> MaybeId]
  BY DEF Contexts
<1>3. [[x.index EXCEPT ![n] = v] EXCEPT ![n] = x.index[n]] = x.index
  BY <1>2
<1> QED
  BY <1>1, <1>3, ZenonT(30) DEF Contexts

-----------------------------------------------------------------------------
(* Ids and generations.                                                    *)

(* Generations e and f agree on the slots that graph g uses. *)
Agree(g, e, f) ==
    /\ \A i \in 1 .. Len(g.names) : f.names[i] = e.names[i]
    /\ \A i \in 1 .. Len(g.bindings) : f.bindings[i] = e.bindings[i]
    /\ \A i \in 1 .. Len(g.contexts) : f.contexts[i] = e.contexts[i]

(* Every new record has a generation its slot has not had. *)
Fresh ==
    \A i \in DOMAIN gens.bindings :
        /\ i \in DOMAIN gens'.bindings /\ gens.bindings[i] <= gens'.bindings[i]
        /\ i \in 1 .. Len(graph'.bindings) /\ i \notin 1 .. Len(graph.bindings) =>
              gens.bindings[i] < gens'.bindings[i]

\* An id stays valid while the table grows.
LEMMA ValidGrows ==
    ASSUME NEW id, NEW t, NEW e, Valid(id, t, e), NEW u, NEW f,
           Len(t) \in Nat, Len(u) \in Nat, Len(t) <= Len(u), \A i \in 1 .. Len(t) : f[i] = e[i]
    PROVE  Valid(id, u, f)
BY DEF Valid

\* Other slots do not matter.
LEMMA ValidSame ==
    ASSUME NEW id, NEW t, NEW e, NEW f, \A i \in 1 .. Len(t) : f[i] = e[i]
    PROVE  Valid(id, t, e) <=> Valid(id, t, f)
BY DEF Valid

\* The lengths of the tables are numbers.
LEMMA Lengths ==
    ASSUME NEW g \in Graphs
    PROVE  /\ Len(g.names) \in Nat /\ DOMAIN g.names = 1 .. Len(g.names)
           /\ Len(g.bindings) \in Nat /\ DOMAIN g.bindings = 1 .. Len(g.bindings)
           /\ Len(g.contexts) \in Nat /\ DOMAIN g.contexts = 1 .. Len(g.contexts)
BY DEF Graphs

\* A context keeps its ids while the tables grow.
LEMMA ContextGrows ==
    ASSUME NEW x, NEW g \in Graphs, NEW e, NEW h \in Graphs, NEW f,
           ContextSound(x, g, e), Within(g, h), Agree(g, e, f)
    PROVE  ContextSound(x, h, f)
<1>1. /\ Len(g.bindings) \in Nat /\ Len(h.bindings) \in Nat /\ Len(g.bindings) <= Len(h.bindings)
      /\ Len(g.contexts) \in Nat /\ Len(h.contexts) \in Nat /\ Len(g.contexts) <= Len(h.contexts)
  BY Lengths DEF Within
<1>2. \A id : Valid(id, g.bindings, e.bindings) => Valid(id, h.bindings, f.bindings)
  BY <1>1, ValidGrows DEF Agree
<1>3. \A id : Valid(id, g.contexts, e.contexts) => Valid(id, h.contexts, f.contexts)
  BY <1>1, ValidGrows DEF Agree
<1> QED
  BY <1>2, <1>3 DEF ContextSound

\* Other slots do not matter for a graph either.
LEMMA SoundSame ==
    ASSUME NEW g \in Graphs, NEW e, NEW f, Sound(g, e), Agree(g, e, f)
    PROVE  Sound(g, f)
<1>1. Within(g, g)
  BY Lengths DEF Within
<1>2. \A c \in DOMAIN g.contexts : ContextSound(g.contexts[c], g, f)
  BY <1>1, ContextGrows DEF Sound
<1>3. \A b \in DOMAIN g.bindings : g.bindings[b].predecessor # NoId =>
          Valid(g.bindings[b].predecessor, g.bindings, f.bindings)
  BY ValidSame DEF Sound, Agree
<1>4. NamesSound(g, f)
  BY Lengths DEF Sound, NamesSound, Agree
<1> QED
  BY <1>2, <1>3, <1>4 DEF Sound

\* A slot that is used again gets a generation it has not had, and no other slot is
\* touched.
LEMMA NewGeneration ==
    ASSUME NEW t, Len(t) \in Nat, NEW e \in Gens, Len(t) <= Len(e)
    PROVE  LET f == Generations(t, e)
           IN  /\ NextGeneration(t, e) \in Nat \ {0}
               /\ f \in Gens
               /\ Len(t) + 1 <= Len(f)
               /\ \A i \in 1 .. Len(t) : f[i] = e[i]
               /\ f[Len(t) + 1] = NextGeneration(t, e)
               /\ \A i \in 1 .. Len(e) : i \in 1 .. Len(f) /\ e[i] <= f[i]
               /\ Len(t) + 1 \in 1 .. Len(e) => e[Len(t) + 1] < f[Len(t) + 1]
<1> DEFINE k == Len(t) + 1
           v == NextGeneration(t, e)
<1>0. Len(e) \in Nat /\ e \in Seq(Nat \ {0}) /\ k \in Nat /\ \A i \in 1 .. Len(e) : e[i] \in Nat \ {0}
  BY DEF Gens
<1>1. CASE Len(t) < Len(e)
  <2>1. k \in 1 .. Len(e) /\ v = e[k] + 1 /\ Generations(t, e) = [e EXCEPT ![k] = v]
    BY <1>0, <1>1 DEF NextGeneration, Generations
  <2>2. v \in Nat \ {0} /\ e[k] < v
    BY <1>0, <2>1
  <2> DEFINE f == [e EXCEPT ![k] = v]
  <2> HIDE DEF v
  <2>3. /\ f \in Seq(Nat \ {0}) /\ Len(f) = Len(e)
        /\ \A j \in 1 .. Len(e) : f[j] = IF j = k THEN v ELSE e[j]
    BY <1>0, <2>1, <2>2, ExceptSeq
  <2> HIDE DEF f
  <2>4. \A i \in 1 .. Len(t) : i \in 1 .. Len(e) /\ i # k
    BY <1>0, <1>1
  <2>5. k <= Len(f)
    BY <2>1, <2>3
  <2>6. \A i \in 1 .. Len(e) : i \in 1 .. Len(f) /\ e[i] <= f[i]
    BY <1>0, <2>2, <2>3
  <2> QED
    BY <2>1, <2>2, <2>3, <2>4, <2>5, <2>6 DEF Gens, f, v
<1>2. CASE ~(Len(t) < Len(e))
  <2>1. k = Len(e) + 1 /\ v = 1 /\ Generations(t, e) = Append(e, v)
    BY <1>0, <1>2 DEF NextGeneration, Generations
  <2> DEFINE f == Append(e, v)
  <2>2. v \in Nat \ {0}
    BY <2>1
  <2> HIDE DEF v
  <2>3. /\ f \in Seq(Nat \ {0}) /\ Len(f) = Len(e) + 1
        /\ \A j \in 1 .. Len(e) : f[j] = e[j]
        /\ f[Len(e) + 1] = v
    BY <1>0, <2>2, AppendProperties
  <2> HIDE DEF f
  <2>4. \A i \in 1 .. Len(t) : i \in 1 .. Len(e)
    BY <1>0, <2>1
  <2>5. k <= Len(f) /\ k \notin 1 .. Len(e)
    BY <1>0, <2>1, <2>3
  <2>6. \A i \in 1 .. Len(e) : i \in 1 .. Len(f) /\ e[i] <= f[i]
    BY <1>0, <2>3
  <2> QED
    BY <2>1, <2>2, <2>3, <2>4, <2>5, <2>6 DEF Gens, f, v
<1> QED
  BY <1>1, <1>2

-----------------------------------------------------------------------------
(* What every operation on the graph does.                                 *)

(* What t has saved as a whole, neither it nor a transaction around it has deltas of. *)
Ordered(t) ==
    \A c \in DOMAIN t.context_mutations :
        /\ ~Mentions(t.deltas, c)
        /\ \A j \in 1 .. Len(transactions) - 1 : ~Mentions(transactions[j].deltas, c)

(* t is the journal of the innermost transaction after the step. *)
Recorded(t) ==
    /\ t \in Transactions
    /\ transactions' = [transactions EXCEPT ![Len(transactions)] = t]
    /\ OnlyOlder(t)
    /\ Undone(t, graph', begun[Len(begun)])
    /\ Ordered(t)

Stepped ==
    /\ graph' \in Graphs /\ gens' \in AllGens /\ Generated'
    /\ Within(graph, graph') /\ Agree(graph, gens, gens') /\ Fresh
    /\ Sound(graph', gens')
    /\ begun' = begun
    /\ IF transactions = <<>> THEN transactions' = <<>> ELSE \E t : Recorded(t)

\* Being within is transitive.
LEMMA WithinWithin ==
    ASSUME NEW f \in Graphs, NEW g \in Graphs, NEW h \in Graphs, Within(f, g), Within(g, h)
    PROVE  Within(f, h)
BY Lengths, SMTT(30) DEF Within

\* Generations that agree for a graph agree for a smaller one.
LEMMA AgreeWithin ==
    ASSUME NEW f \in Graphs, NEW g \in Graphs, NEW d, NEW e, Within(f, g), Agree(g, d, e)
    PROVE  Agree(f, d, e)
<1>1. /\ \A i \in 1 .. Len(f.names) : i \in 1 .. Len(g.names)
      /\ \A i \in 1 .. Len(f.bindings) : i \in 1 .. Len(g.bindings)
      /\ \A i \in 1 .. Len(f.contexts) : i \in 1 .. Len(g.contexts)
  BY Lengths DEF Within
<1> QED
  BY <1>1 DEF Agree

\* A step that is journalled preserves the invariant of the file.
LEMMA SteppedInv == FileInv /\ Stepped => FileInv'
<1> SUFFICES ASSUME FileInv, Stepped PROVE FileInv'
  OBVIOUS
<1> DEFINE n == Len(transactions)
<1>0. /\ n \in Nat /\ DOMAIN transactions = 1 .. n /\ Len(begun) = n /\ DOMAIN begun = 1 .. n
      /\ \A i \in 1 .. n : begun[i] \in Graphs
      /\ graph \in Graphs /\ graph' \in Graphs /\ begun' = begun
  BY DEF FileInv, FileOK, Stepped
<1>1. \/ n = 0 /\ transactions = <<>> /\ transactions' = <<>>
      \/ n \in 1 .. n /\ \E t : Recorded(t)
  <2>1. n = 0 <=> transactions = <<>>
    BY EmptySeq DEF FileInv, FileOK
  <2> QED
    BY <1>0, <2>1 DEF Stepped
<1>2. /\ transactions' \in Seq(Transactions) /\ Len(transactions') = n
      /\ DOMAIN transactions' = 1 .. n
      /\ \A i \in 1 .. n : i # n => transactions'[i] = transactions[i]
  <2>1. CASE n = 0 /\ transactions = <<>> /\ transactions' = <<>>
    BY <2>1, SMTT(30)
  <2>2. CASE n \in 1 .. n /\ \E t : Recorded(t)
    <3>1. PICK t : Recorded(t)
      BY <2>2
    <3>2. t \in Transactions /\ transactions' = [transactions EXCEPT ![n] = t]
      BY <3>1 DEF Recorded
    <3>3. transactions \in Seq(Transactions) /\ n \in 1 .. Len(transactions)
      BY <2>2 DEF FileInv, FileOK
    <3>4. /\ [transactions EXCEPT ![n] = t] \in Seq(Transactions)
          /\ Len([transactions EXCEPT ![n] = t]) = Len(transactions)
          /\ \A j \in 1 .. Len(transactions) :
                [transactions EXCEPT ![n] = t][j] = IF j = n THEN t ELSE transactions[j]
      BY <3>2, <3>3, ExceptSeq
    <3> DEFINE u == [transactions EXCEPT ![n] = t]
    <3>5. DOMAIN u = 1 .. n
      BY <1>0, Zenon
    <3> HIDE DEF u
    <3>6. transactions' = u /\ u \in Seq(Transactions) /\ Len(u) = n
          /\ \A j \in 1 .. n : j # n => u[j] = transactions[j]
      BY <3>2, <3>4, Zenon DEF u
    <3> QED
      BY <3>5, <3>6, Zenon
  <2> QED
    BY <1>1, <2>1, <2>2
<1>3. FileOK'
  <2>1. gens' \in AllGens /\ begun \in Seq(Graphs)
    BY DEF Stepped, FileInv, FileOK
  <2> QED
    BY <1>0, <1>2, <2>1, Zenon DEF FileOK
<1>4. Generated'
  BY DEF Stepped
<1>5. ASSUME n \in 1 .. n
      PROVE  /\ OnlyOlder(transactions'[n]) /\ Undone(transactions'[n], graph', begun[n])
             /\ \A c \in DOMAIN transactions'[n].context_mutations :
                   /\ ~Mentions(transactions'[n].deltas, c)
                   /\ \A j \in 1 .. n - 1 : ~Mentions(transactions[j].deltas, c)
  <2>1. PICK t : Recorded(t)
    BY <1>1, <1>5
  <2>2. transactions'[n] = t
    BY <1>0, <1>5, <2>1 DEF Recorded
  <2> QED
    BY <1>0, <2>1, <2>2 DEF Recorded, Ordered
<1>6. Journalled'
  <2> SUFFICES ASSUME NEW i \in 1 .. n
               PROVE  OnlyOlder(transactions'[i]) /\ Undone(transactions'[i], EndOf(i)', begun[i])
    BY <1>0, <1>2, Zenon DEF Journalled
  <2>1. CASE i = n
    <3>1. EndOf(i)' = graph'
      BY <1>0, <2>1, Zenon DEF EndOf
    <3> QED
      BY <1>5, <2>1, <3>1
  <2>2. CASE i # n
    <3>1. EndOf(i)' = EndOf(i)
      BY <1>0, <2>2, Zenon DEF EndOf
    <3>2. OnlyOlder(transactions[i]) /\ Undone(transactions[i], EndOf(i), begun[i])
      BY <1>0 DEF FileInv, Journalled
    <3> QED
      BY <1>2, <2>2, <3>1, <3>2, Zenon
  <2> QED
    BY <2>1, <2>2, SMTT(30)
<1>7. InOrder'
  <2> SUFFICES ASSUME NEW i \in 1 .. n, NEW j \in 1 .. i,
                      NEW c \in DOMAIN transactions'[i].context_mutations
               PROVE  ~Mentions(transactions'[j].deltas, c)
    BY <1>2, Zenon DEF InOrder
  <2>0. n \in Nat /\ i \in Nat /\ j \in Nat /\ i <= n /\ 1 <= j /\ j <= i
    BY <1>0
  <2>1. j \in 1 .. n /\ (i # n => j # n) /\ (j # n => j \in 1 .. n - 1)
    <3> HIDE DEF n
    <3> QED
      BY <2>0, SMTT(30)
  <2>2. CASE i = n
    BY <1>2, <1>5, <2>1, <2>2, Zenon
  <2>3. CASE i # n
    <3>1. transactions'[i] = transactions[i] /\ transactions'[j] = transactions[j]
      BY <1>2, <2>1, <2>3, Zenon
    <3> QED
      BY <1>0, <3>1, Zenon DEF FileInv, InOrder
  <2> QED
    BY <2>2, <2>3, SMTT(30)
<1>8. Nested'
  <2>1. \A i \in 1 .. n : Within(begun[i], graph')
    BY <1>0, WithinWithin DEF FileInv, Nested, Stepped
  <2>2. \A i, j \in 1 .. n : i <= j => Within(begun[i], begun[j])
    BY <1>0 DEF FileInv, Nested
  <2> QED
    BY <1>0, <2>1, <2>2 DEF Nested
<1>9. AllSound'
  <2>1. \A i \in 1 .. n : Sound(begun[i], gens')
    <3> SUFFICES ASSUME NEW i \in 1 .. n PROVE Sound(begun[i], gens')
      OBVIOUS
    <3>1. Within(begun[i], graph) /\ Sound(begun[i], gens) /\ Agree(graph, gens, gens')
      BY <1>0 DEF FileInv, Nested, AllSound, Stepped
    <3>2. Agree(begun[i], gens, gens')
      BY <1>0, <3>1, AgreeWithin
    <3> QED
      BY <1>0, <3>1, <3>2, SoundSame
  <2> QED
    BY <1>0, <2>1 DEF AllSound, Stepped
<1> QED
  BY <1>3, <1>4, <1>6, <1>7, <1>8, <1>9 DEF FileInv

\* What the invariant says of the innermost transaction.
LEMMA TopFacts ==
    ASSUME FileInv, transactions # <<>>
    PROVE  /\ Top \in Transactions /\ OnlyOlder(Top)
           /\ Undone(Top, graph, begun[Len(begun)])
           /\ Ordered(Top)
<1> DEFINE n == Len(transactions)
<1>1. /\ n \in Nat \ {0} /\ DOMAIN transactions = 1 .. n /\ n \in 1 .. n
      /\ \A i \in 1 .. n : transactions[i] \in Transactions
  BY EmptySeq DEF FileInv, FileOK
<1>2. Top = transactions[n] /\ Len(begun) = n
  BY DEF Top, Last, FileInv, FileOK
<1>3. EndOf(n) = graph
  BY <1>2 DEF EndOf
<1>4. OnlyOlder(transactions[n]) /\ Undone(transactions[n], EndOf(n), begun[n])
  BY <1>1 DEF FileInv, Journalled
<1>5. \A j \in 1 .. n : \A c \in DOMAIN transactions[n].context_mutations :
          ~Mentions(transactions[j].deltas, c)
  BY <1>1 DEF FileInv, InOrder
<1>6. \A j \in 1 .. n - 1 : j \in 1 .. n
  BY <1>1
<1> QED
  BY <1>1, <1>2, <1>3, <1>4, <1>5, <1>6 DEF Ordered

\* A step is journalled when the journal of the innermost transaction fits.
LEMMA JournalStep ==
    ASSUME FileInv, NEW t, transactions' = Journal(t),
           transactions # <<>> =>
              /\ t \in Transactions /\ OnlyOlder(t)
              /\ Undone(t, graph', begun[Len(begun)])
              /\ Ordered(t)
    PROVE  IF transactions = <<>> THEN transactions' = <<>> ELSE \E u : Recorded(u)
<1>1. CASE transactions = <<>>
  BY <1>1 DEF Journal
<1>2. CASE transactions # <<>>
  <2>1. Recorded(t)
    BY <1>2 DEF Journal, Recorded
  <2> QED
    BY <1>2, <2>1
<1> QED
  BY <1>1, <1>2

\* A step that adds no record.
LEMMA NothingAdded ==
    ASSUME FileInv, graph' \in Graphs, gens' = gens,
           Len(graph'.names) = Len(graph.names), Len(graph'.bindings) = Len(graph.bindings),
           Len(graph'.contexts) = Len(graph.contexts)
    PROVE  gens' \in AllGens /\ Generated' /\ Within(graph, graph')
           /\ Agree(graph, gens, gens') /\ Fresh
<1>1. graph \in Graphs /\ gens \in AllGens /\ Generated
  BY DEF FileInv, FileOK
<1>2. Within(graph, graph')
  BY <1>1, Lengths DEF Within
<1>3. Fresh
  <2>1. \A i \in DOMAIN gens.bindings : gens.bindings[i] <= gens.bindings[i]
    BY <1>1 DEF AllGens, Gens
  <2> QED
    BY <2>1 DEF Fresh
<1> QED
  BY <1>1, <1>2, <1>3 DEF Generated, Agree

\* set_record_facts and its likes.
LEMMA SetFactSteps ==
    ASSUME FileInv, NEW k \in Keys, NEW f \in Facts, SetFact(k, f), begun' = begun
    PROVE  Stepped
<1>0. graph \in Graphs /\ Sound(graph, gens)
  BY DEF FileInv, FileOK, AllSound
<1>1. /\ graph'.names = graph.names /\ graph'.name_index = graph.name_index
      /\ graph'.bindings = graph.bindings /\ graph'.contexts = graph.contexts
      /\ graph'.facts = [graph.facts EXCEPT ![k] = f]
      /\ graph' \in Graphs
  BY <1>0 DEF SetFact, Graphs
<1>2. gens' = gens /\ transactions' = Journal(RecordFact(Top, k))
  BY DEF SetFact
<1>3. gens' \in AllGens /\ Generated' /\ Within(graph, graph')
      /\ Agree(graph, gens, gens') /\ Fresh
  BY <1>1, <1>2, NothingAdded
<1>4. Sound(graph', gens')
  BY <1>0, <1>1, <1>2 DEF Sound, ContextSound, NamesSound
<1>5. IF transactions = <<>> THEN transactions' = <<>> ELSE \E u : Recorded(u)
  <2> DEFINE u == RecordFact(Top, k)
             h == begun[Len(begun)]
  <2>1. ASSUME transactions # <<>>
        PROVE  /\ u \in Transactions /\ OnlyOlder(u) /\ Undone(u, graph', h)
               /\ Ordered(u)
    <3>1. /\ Top \in Transactions /\ OnlyOlder(Top) /\ Undone(Top, graph, h)
          /\ Ordered(Top)
      BY <2>1, TopFacts
    <3>2. \A i \in Keys : i # k => graph'.facts[i] = graph.facts[i]
      BY <1>0, <1>1 DEF Graphs
    <3>3. FactsBack(Top, graph, h)
      BY <3>1 DEF Undone
    <3> HIDE DEF h
    <3>4. u \in Transactions /\ OnlyOlder(u) /\ FactsBack(u, graph', h)
          /\ SameBut(u, Top, {"fact_mutations"})
      BY <1>0, <3>1, <3>2, <3>3, RecordFactBack
    <3> HIDE DEF u
    <3>5. NamesBack(u, graph', h) /\ BindingsBack(u, graph', h) /\ ContextsBack(u, graph', h)
      BY <1>1, <3>1, <3>4 DEF Undone, NamesBack, BindingsBack, ContextsBack, SameBut
    <3> QED
      BY <3>1, <3>4, <3>5 DEF Undone, SameBut, Ordered
  <2> HIDE DEF u
  <2> QED
    BY <1>2, <2>1, JournalStep DEF u
<1> QED
  BY <1>1, <1>3, <1>4, <1>5 DEF Stepped

\* A record that is changed in place, to one whose predecessor is valid.
LEMMA RecordChanged ==
    ASSUME FileInv, NEW b \in DOMAIN graph.bindings, NEW r \in Bindings,
           r.predecessor # NoId => Valid(r.predecessor, graph.bindings, gens.bindings),
           graph' = [graph EXCEPT !.bindings[b] = r], gens' = gens
    PROVE  /\ graph'.names = graph.names /\ graph'.name_index = graph.name_index
           /\ graph'.contexts = graph.contexts /\ graph'.facts = graph.facts
           /\ Len(graph'.bindings) = Len(graph.bindings)
           /\ \A i \in DOMAIN graph.bindings : i # b => graph'.bindings[i] = graph.bindings[i]
           /\ graph' \in Graphs
           /\ gens' \in AllGens /\ Generated' /\ Within(graph, graph')
           /\ Agree(graph, gens, gens') /\ Fresh
           /\ Sound(graph', gens')
<1>0. graph \in Graphs /\ Sound(graph, gens) /\ graph.bindings \in Seq(Bindings)
  BY DEF FileInv, FileOK, AllSound, Graphs
<1> DEFINE s == [graph.bindings EXCEPT ![b] = r]
<1>1. /\ graph'.names = graph.names /\ graph'.name_index = graph.name_index
      /\ graph'.bindings = s /\ graph'.contexts = graph.contexts
      /\ graph'.facts = graph.facts
  BY <1>0 DEF Graphs
<1>2. /\ s \in Seq(Bindings) /\ Len(s) = Len(graph.bindings)
      /\ \A i \in 1 .. Len(graph.bindings) : s[i] = IF i = b THEN r ELSE graph.bindings[i]
  BY <1>0, Lengths, ExceptSeq
<1>3. graph' \in Graphs
  <2>1. graph' = [graph EXCEPT !.bindings = s]
    BY <1>0 DEF Graphs
  <2> HIDE DEF s
  <2> QED
    BY <1>0, <1>2, <2>1 DEF Graphs
<1> HIDE DEF s
<1>4. gens' \in AllGens /\ Generated' /\ Within(graph, graph')
      /\ Agree(graph, gens, gens') /\ Fresh
  BY <1>1, <1>2, <1>3, NothingAdded
<1>5. Sound(graph', gens')
  <2>1. \A id : Valid(id, s, gens.bindings) <=> Valid(id, graph.bindings, gens.bindings)
    BY <1>2 DEF Valid
  <2>2. \A c \in DOMAIN graph'.contexts : ContextSound(graph'.contexts[c], graph', gens')
    BY <1>0, <1>1, <2>1 DEF Sound, ContextSound
  <2>3. NamesSound(graph', gens')
    BY <1>0, <1>1 DEF Sound, NamesSound
  <2>4. \A i \in DOMAIN s : s[i].predecessor # NoId =>
            Valid(s[i].predecessor, s, gens.bindings)
    <3>1. DOMAIN s = 1 .. Len(graph.bindings) /\ DOMAIN graph.bindings = 1 .. Len(graph.bindings)
      BY <1>0, <1>2
    <3> QED
      BY <1>0, <1>2, <2>1, <3>1 DEF Sound
  <2> QED
    BY <1>1, <2>2, <2>3, <2>4 DEF Sound
<1> QED
  BY <1>0, <1>1, <1>2, <1>3, <1>4, <1>5, Lengths

\* The journal of such a change.
LEMMA ChangeRecorded ==
    ASSUME FileInv, transactions # <<>>, NEW b \in DOMAIN graph.bindings,
           graph'.names = graph.names, graph'.name_index = graph.name_index,
           graph'.contexts = graph.contexts, graph'.facts = graph.facts,
           Len(graph'.bindings) = Len(graph.bindings),
           \A i \in DOMAIN graph.bindings : i # b => graph'.bindings[i] = graph.bindings[i]
    PROVE  LET u == RecordBinding(Top, b)
               h == begun[Len(begun)]
           IN  /\ u \in Transactions /\ OnlyOlder(u) /\ Undone(u, graph', h) /\ Ordered(u)
               /\ ContextsBack(u, graph, h)
<1> DEFINE u == RecordBinding(Top, b)
           h == begun[Len(begun)]
<1>0. graph \in Graphs
  BY DEF FileInv, FileOK
<1>1. Top \in Transactions /\ OnlyOlder(Top) /\ Undone(Top, graph, h) /\ Ordered(Top)
  BY TopFacts
<1>2. BindingsBack(Top, graph, h)
  BY <1>1 DEF Undone
<1> HIDE DEF h
<1>3. u \in Transactions /\ OnlyOlder(u) /\ BindingsBack(u, graph', h)
      /\ SameBut(u, Top, {"binding_mutations"})
  BY <1>0, <1>1, <1>2, RecordBindingBack
<1> HIDE DEF u
<1>4. NamesBack(u, graph', h) /\ FactsBack(u, graph', h) /\ ContextsBack(u, graph', h)
      /\ ContextsBack(u, graph, h)
  BY <1>1, <1>3 DEF Undone, NamesBack, FactsBack, ContextsBack, SameBut
<1>5. Ordered(u)
  BY <1>1, <1>3 DEF Ordered, SameBut
<1> QED
  BY <1>3, <1>4, <1>5 DEF Undone, u, h

\* binding_mut, and the registration of a declaration with C linkage.
LEMMA ChangeSteps ==
    ASSUME FileInv, NEW b \in DOMAIN graph.bindings, NEW r \in Bindings,
           r.predecessor # NoId => Valid(r.predecessor, graph.bindings, gens.bindings),
           graph' = [graph EXCEPT !.bindings[b] = r], gens' = gens, begun' = begun,
           transactions' = Journal(RecordBinding(Top, b))
    PROVE  Stepped
<1>1. /\ graph'.names = graph.names /\ graph'.name_index = graph.name_index
      /\ graph'.contexts = graph.contexts /\ graph'.facts = graph.facts
      /\ Len(graph'.bindings) = Len(graph.bindings)
      /\ \A i \in DOMAIN graph.bindings : i # b => graph'.bindings[i] = graph.bindings[i]
      /\ graph' \in Graphs
      /\ gens' \in AllGens /\ Generated' /\ Within(graph, graph')
      /\ Agree(graph, gens, gens') /\ Fresh
      /\ Sound(graph', gens')
  BY RecordChanged
<1> DEFINE u == RecordBinding(Top, b)
<1>2. transactions # <<>> =>
         u \in Transactions /\ OnlyOlder(u) /\ Undone(u, graph', begun[Len(begun)]) /\ Ordered(u)
  BY <1>1, ChangeRecorded
<1>3. transactions' = Journal(u)
  OBVIOUS
<1> HIDE DEF u
<1>4. IF transactions = <<>> THEN transactions' = <<>> ELSE \E t : Recorded(t)
  BY <1>2, <1>3, JournalStep
<1> QED
  BY <1>1, <1>4 DEF Stepped

\* binding_mut.
LEMMA BindingMutSteps ==
    ASSUME FileInv, NEW b \in DOMAIN graph.bindings, BindingMut(b), begun' = begun
    PROVE  Stepped
<1> DEFINE r == [graph.bindings[b] EXCEPT !.definition = ~@]
<1>0. graph \in Graphs /\ Sound(graph, gens) /\ graph.bindings[b] \in Bindings
  BY DEF FileInv, FileOK, AllSound, Graphs
<1>1. r \in Bindings /\ r.predecessor = graph.bindings[b].predecessor
  BY <1>0 DEF Bindings
<1>2. graph' = [graph EXCEPT !.bindings[b] = r]
  BY DEF BindingMut
<1>3. gens' = gens /\ transactions' = Journal(RecordBinding(Top, b))
  BY DEF BindingMut
<1> HIDE DEF r
<1>4. r.predecessor # NoId => Valid(r.predecessor, graph.bindings, gens.bindings)
  BY <1>0, <1>1 DEF Sound
<1> QED
  BY <1>1, <1>2, <1>3, <1>4, ChangeSteps

\* register_c_language_entity records the binding whether it changes it or not.
LEMMA RegisterSteps ==
    ASSUME FileInv, memo \in [Names -> MaybeId],
           NEW b \in DOMAIN graph.bindings, RegisterCLanguageEntity(b)
    PROVE  Stepped
<1> DEFINE n == graph.bindings[b].name
           r == [graph.bindings[b] EXCEPT !.predecessor = memo[n]]
<1>0. graph \in Graphs /\ Sound(graph, gens) /\ graph.bindings[b] \in Bindings
      /\ graph.bindings \in Seq(Bindings)
  BY DEF FileInv, FileOK, AllSound, Graphs
<1>1. gens' = gens /\ begun' = begun /\ transactions' = Journal(RecordBinding(Top, b))
  BY DEF RegisterCLanguageEntity
<1>2. CASE graph' = graph
  <2> DEFINE q == graph.bindings[b]
  <2>1. graph' = [graph EXCEPT !.bindings[b] = q]
    BY <1>0, <1>2 DEF Graphs
  <2>2. q \in Bindings /\
        (q.predecessor # NoId => Valid(q.predecessor, graph.bindings, gens.bindings))
    BY <1>0 DEF Sound
  <2> HIDE DEF q
  <2> QED
    BY <1>1, <2>1, <2>2, ChangeSteps
<1>3. CASE ValidBinding(memo[n]) /\ graph' = [graph EXCEPT !.bindings[b].predecessor = memo[n]]
  <2>1. r \in Bindings /\ r.predecessor = memo[n]
    <3>1. memo[n] \in MaybeId
      BY <1>0 DEF Bindings
    <3> QED
      BY <1>0, <3>1 DEF Bindings
  <2>2. graph' = [graph EXCEPT !.bindings[b] = r]
    BY <1>3
  <2>3. Valid(r.predecessor, graph.bindings, gens.bindings)
    BY <1>3, <2>1 DEF ValidBinding
  <2> HIDE DEF r
  <2> QED
    BY <1>1, <2>1, <2>2, <2>3, ChangeSteps
<1> QED
  BY <1>2, <1>3 DEF RegisterCLanguageEntity

\* The journal of a change to one context that deltas undo.
LEMMA DeltasRecorded ==
    ASSUME graph \in Graphs, graph' \in Graphs, Within(graph, graph'),
           NEW t \in Transactions, OnlyOlder(t), Ordered(t),
           NEW h, ContextsBack(t, graph, h),
           NamesBack(t, graph', h), BindingsBack(t, graph', h), FactsBack(t, graph', h),
           NEW c \in DOMAIN graph.contexts,
           NEW ds \in Seq(Deltas), \A i \in DOMAIN ds : ds[i].context = c,
           \A i \in DOMAIN graph.contexts : i # c => graph'.contexts[i] = graph.contexts[i],
           UndoDeltas(c, graph'.contexts[c], ds) = graph.contexts[c]
    PROVE  LET u == RecordDeltas(t, c, ds)
           IN  u \in Transactions /\ OnlyOlder(u) /\ Undone(u, graph', h) /\ Ordered(u)
<1> DEFINE u == RecordDeltas(t, c, ds)
           g == graph'
<1>1. Len(g.contexts) \in Nat /\ Len(graph.contexts) <= Len(g.contexts)
  BY Lengths DEF Within
<1>2. /\ \A i \in DOMAIN graph.contexts : i # c => g.contexts[i] = graph.contexts[i]
      /\ UndoDeltas(c, g.contexts[c], ds) = graph.contexts[c]
  OBVIOUS
<1> HIDE DEF g
<1>3. /\ u \in Transactions /\ OnlyOlder(u) /\ ContextsBack(u, g, h)
      /\ SameBut(u, t, {"deltas"}) /\ MentionedToo(u, t, c)
  BY <1>1, <1>2, RecordDeltasBack
<1> HIDE DEF u
<1>4. NamesBack(u, g, h) /\ FactsBack(u, g, h) /\ BindingsBack(u, g, h)
  BY <1>3 DEF NamesBack, FactsBack, BindingsBack, SameBut, g
<1>5. Ordered(u)
  BY <1>3 DEF Ordered, SameBut, MentionedToo
<1> QED
  BY <1>3, <1>4, <1>5 DEF Undone, u, g

\* What is put together of one delta.
LEMMA OneDelta ==
    ASSUME NEW c, NEW d \in Deltas, d.context = c
    PROVE  <<d>> \in Seq(Deltas) /\ \A i \in DOMAIN <<d>> : <<d>>[i].context = c
<1>1. <<d>> \in Seq(Deltas)
  BY EmptySeq, AppendProperties, Append(<<>>, d) = <<d>>
<1> QED
  BY <1>1

\* bind_callable_overload: the index gets the entry it has.
LEMMA BindOverloadSteps ==
    ASSUME FileInv, NEW c \in DOMAIN graph.contexts, NEW n \in Names, BindOverload(c, n),
           begun' = begun
    PROVE  Stepped
<1> DEFINE x == graph.contexts[c]
           b == x.index[n].index
           r == [graph.bindings[b] EXCEPT !.definition = TRUE]
           d == IndexAssigned(c, n)
           ds == <<d>>
           t == RecordBinding(Top, b)
           u == RecordDeltas(t, c, ds)
           h == begun[Len(begun)]
<1>0. graph \in Graphs /\ Sound(graph, gens) /\ x \in Contexts /\ c \in Nat
  BY DEF FileInv, FileOK, AllSound, Graphs
<1>a. x.index \in [Names -> MaybeId]
  BY <1>0 DEF Contexts
<1>1. b \in DOMAIN graph.bindings /\ graph.bindings[b] \in Bindings
  BY <1>0, SMTT(30) DEF BindOverload, ValidBinding, Valid, Graphs
<1>2. gens' = gens /\ transactions' = Journal(u) /\ graph' = [graph EXCEPT !.bindings[b] = r]
  BY Zenon DEF BindOverload
<1>3. r \in Bindings /\ r.predecessor = graph.bindings[b].predecessor
  BY <1>1, Zenon DEF Bindings
<1>4. d \in Deltas /\ d.context = c /\ d = [context |-> c, kind |-> "index", name |-> n, previous |-> x.index[n]]
  BY <1>0, <1>a DEF IndexAssigned, Deltas
<1>5. UndoDelta(c, x, d) = x
  <2>1. UndoDelta(c, [x EXCEPT !.index = [x.index EXCEPT ![n] = x.index[n]]], d) = x
    <3> HIDE DEF x, d
    <3> QED
      BY <1>0, <1>4, UndoIndexAssigned
  <2>2. [x.index EXCEPT ![n] = x.index[n]] = x.index
    BY <1>a
  <2>3. [x EXCEPT !.index = x.index] = x
    BY <1>0 DEF Contexts
  <2> HIDE DEF x, d
  <2> QED
    BY <2>1, <2>2, <2>3
<1>6. r.predecessor # NoId => Valid(r.predecessor, graph.bindings, gens.bindings)
  <2> HIDE DEF r, b
  <2> QED
    BY <1>0, <1>1, <1>3 DEF Sound
<1> HIDE DEF r, b, d
<1>7. /\ graph'.names = graph.names /\ graph'.name_index = graph.name_index
      /\ graph'.contexts = graph.contexts /\ graph'.facts = graph.facts
      /\ Len(graph'.bindings) = Len(graph.bindings)
      /\ \A i \in DOMAIN graph.bindings : i # b => graph'.bindings[i] = graph.bindings[i]
      /\ graph' \in Graphs
      /\ gens' \in AllGens /\ Generated' /\ Within(graph, graph')
      /\ Agree(graph, gens, gens') /\ Fresh
      /\ Sound(graph', gens')
  BY <1>1, <1>2, <1>3, <1>6, RecordChanged
<1>8. ASSUME transactions # <<>>
      PROVE  u \in Transactions /\ OnlyOlder(u) /\ Undone(u, graph', h) /\ Ordered(u)
  <2>1. t \in Transactions /\ OnlyOlder(t) /\ Undone(t, graph', h) /\ Ordered(t)
        /\ ContextsBack(t, graph, h)
    BY <1>1, <1>7, <1>8, ChangeRecorded
  <2>2. ds \in Seq(Deltas) /\ \A i \in DOMAIN ds : ds[i].context = c
    BY <1>4, OneDelta
  <2>3. UndoDeltas(c, graph'.contexts[c], ds) = graph.contexts[c]
    BY <1>5, <1>7, UndoOne
  <2>4. \A i \in DOMAIN graph.contexts : i # c => graph'.contexts[i] = graph.contexts[i]
    BY <1>7
  <2>5. NamesBack(t, graph', h) /\ BindingsBack(t, graph', h) /\ FactsBack(t, graph', h)
    BY <2>1 DEF Undone
  <2> HIDE DEF t, ds, h, x
  <2> QED
    BY <1>0, <1>7, <2>1, <2>2, <2>3, <2>4, <2>5, DeltasRecorded
<1> HIDE DEF u, h
<1>9. IF transactions = <<>> THEN transactions' = <<>> ELSE \E v : Recorded(v)
  BY <1>2, <1>8, JournalStep DEF h
<1> QED
  BY <1>2, <1>7, <1>9 DEF Stepped

\* A context that is changed in place, to one whose ids are valid.
LEMMA ContextChanged ==
    ASSUME FileInv, NEW c \in DOMAIN graph.contexts, NEW x \in Contexts,
           ContextSound(x, graph, gens),
           graph' = [graph EXCEPT !.contexts[c] = x], gens' = gens
    PROVE  /\ graph'.names = graph.names /\ graph'.name_index = graph.name_index
           /\ graph'.bindings = graph.bindings /\ graph'.facts = graph.facts
           /\ Len(graph'.contexts) = Len(graph.contexts)
           /\ graph'.contexts[c] = x
           /\ \A i \in DOMAIN graph.contexts : i # c => graph'.contexts[i] = graph.contexts[i]
           /\ graph' \in Graphs
           /\ gens' \in AllGens /\ Generated' /\ Within(graph, graph')
           /\ Agree(graph, gens, gens') /\ Fresh
           /\ Sound(graph', gens')
<1>0. graph \in Graphs /\ Sound(graph, gens) /\ graph.contexts \in Seq(Contexts)
  BY DEF FileInv, FileOK, AllSound, Graphs
<1> DEFINE s == [graph.contexts EXCEPT ![c] = x]
<1>1. /\ graph'.names = graph.names /\ graph'.name_index = graph.name_index
      /\ graph'.bindings = graph.bindings /\ graph'.contexts = s
      /\ graph'.facts = graph.facts
  BY <1>0 DEF Graphs
<1>2. /\ s \in Seq(Contexts) /\ Len(s) = Len(graph.contexts)
      /\ \A i \in 1 .. Len(graph.contexts) : s[i] = IF i = c THEN x ELSE graph.contexts[i]
  BY <1>0, Lengths, ExceptSeq
<1>3. graph' \in Graphs
  <2>1. graph' = [graph EXCEPT !.contexts = s]
    BY <1>0 DEF Graphs
  <2> HIDE DEF s
  <2> QED
    BY <1>0, <1>2, <2>1 DEF Graphs
<1> HIDE DEF s
<1>4. gens' \in AllGens /\ Generated' /\ Within(graph, graph')
      /\ Agree(graph, gens, gens') /\ Fresh
  BY <1>1, <1>2, <1>3, NothingAdded
<1>5. Sound(graph', gens')
  <2>1. \A y : ContextSound(y, graph, gens) => ContextSound(y, graph', gens)
    <3>1. Agree(graph, gens, gens)
      BY DEF Agree
    <3> QED
      BY <1>0, <1>3, <1>4, <3>1, ContextGrows
  <2>2. \A i \in DOMAIN s : ContextSound(s[i], graph', gens)
    <3>1. DOMAIN s = 1 .. Len(graph.contexts) /\ DOMAIN graph.contexts = 1 .. Len(graph.contexts)
      BY <1>0, <1>2
    <3>2. \A i \in 1 .. Len(graph.contexts) : ContextSound(s[i], graph, gens)
      BY <1>0, <1>2, <3>1 DEF Sound
    <3> QED
      BY <2>1, <3>1, <3>2
  <2>3. NamesSound(graph', gens')
    BY <1>0, <1>1 DEF Sound, NamesSound
  <2> QED
    BY <1>0, <1>1, <2>2, <2>3 DEF Sound
<1>6. c \in 1 .. Len(graph.contexts) /\ DOMAIN graph.contexts = 1 .. Len(graph.contexts)
  BY <1>0, Lengths
<1> QED
  BY <1>1, <1>2, <1>3, <1>4, <1>5, <1>6

\* add_using_directive.
LEMMA AddUsingSteps ==
    ASSUME FileInv, NEW c \in DOMAIN graph.contexts, NEW target \in DOMAIN graph.contexts,
           AddUsingDirective(c, target), begun' = begun
    PROVE  Stepped
<1> DEFINE w == graph.contexts[c]
           id == ContextId(target)
           x == [w EXCEPT !.using = Append(w.using, id)]
           d == Appended(c, "using")
           ds == <<d>>
           u == RecordDeltas(Top, c, ds)
           h == begun[Len(begun)]
<1>0. graph \in Graphs /\ Sound(graph, gens) /\ w \in Contexts /\ c \in Nat
      /\ target \in 1 .. Len(graph.contexts) /\ gens.contexts \in Seq(Nat \ {0})
      /\ Len(graph.contexts) <= Len(gens.contexts) /\ Len(graph.contexts) \in Nat
  BY Lengths DEF FileInv, FileOK, AllSound, Graphs, AllGens, Gens, Generated
<1>1. id \in Ids /\ Valid(id, graph.contexts, gens.contexts)
  <2>1. target \in 1 .. Len(gens.contexts) /\ target \in Nat
    BY <1>0
  <2>2. gens.contexts[target] \in Nat
    BY <1>0, <2>1
  <2>3. id \in Ids /\ id.index = target /\ id.gen = gens.contexts[target]
    BY <2>1, <2>2 DEF ContextId, Ids
  <2>4. id # NoId
    BY <2>3, CirFileAssumption
  <2> HIDE DEF id
  <2> QED
    BY <1>0, <2>3, <2>4 DEF Valid
<1>2. gens' = gens /\ transactions' = Journal(u) /\ graph' = [graph EXCEPT !.contexts[c] = x]
  BY DEF AddUsingDirective
<1> HIDE DEF id, w
<1>3. Append(w.using, id) \in Seq(Ids) /\ Len(Append(w.using, id)) = Len(w.using) + 1
      /\ \A i \in 1 .. Len(w.using) : Append(w.using, id)[i] = w.using[i]
      /\ Append(w.using, id)[Len(w.using) + 1] = id
      /\ w.using \in Seq(Ids)
  <2>1. w.using \in Seq(Ids)
    BY <1>0 DEF Contexts
  <2> QED
    BY <1>1, <2>1, AppendProperties
<1>4. x \in Contexts
  BY <1>0, <1>3 DEF Contexts
<1>5. ContextSound(x, graph, gens)
  <2>1. ContextSound(w, graph, gens)
    BY <1>0 DEF Sound, w
  <2>2. x.using = Append(w.using, id) /\ x.bindings = w.bindings /\ x.children = w.children
        /\ x.index = w.index
    BY <1>0 DEF Contexts
  <2>3. \A i \in DOMAIN x.using : i = Len(w.using) + 1 \/ i \in DOMAIN w.using
    BY <1>3, <2>2
  <2>4. \A i \in DOMAIN x.using : x.using[i] = id \/ (i \in DOMAIN w.using /\ x.using[i] = w.using[i])
    BY <1>3, <2>2, <2>3
  <2> HIDE DEF x
  <2> QED
    BY <1>1, <2>1, <2>2, <2>4 DEF ContextSound
<1>6. UndoDelta(c, x, d) = w
  BY <1>0, <1>1, UndoAppended
<1> HIDE DEF x
<1>7. /\ graph'.names = graph.names /\ graph'.name_index = graph.name_index
      /\ graph'.bindings = graph.bindings /\ graph'.facts = graph.facts
      /\ Len(graph'.contexts) = Len(graph.contexts)
      /\ graph'.contexts[c] = x
      /\ \A i \in DOMAIN graph.contexts : i # c => graph'.contexts[i] = graph.contexts[i]
      /\ graph' \in Graphs
      /\ gens' \in AllGens /\ Generated' /\ Within(graph, graph')
      /\ Agree(graph, gens, gens') /\ Fresh
      /\ Sound(graph', gens')
  BY <1>2, <1>4, <1>5, ContextChanged
<1>8. ASSUME transactions # <<>>
      PROVE  u \in Transactions /\ OnlyOlder(u) /\ Undone(u, graph', h) /\ Ordered(u)
  <2>1. Top \in Transactions /\ OnlyOlder(Top) /\ Undone(Top, graph, h) /\ Ordered(Top)
    BY <1>8, TopFacts
  <2>2. d \in Deltas /\ d.context = c
    BY <1>0 DEF Appended, Deltas
  <2>3. ds \in Seq(Deltas) /\ \A i \in DOMAIN ds : ds[i].context = c
    <3> HIDE DEF d
    <3> QED
      BY <2>2, OneDelta
  <2>4. UndoDeltas(c, graph'.contexts[c], ds) = graph.contexts[c]
    BY <1>6, <1>7, UndoOne DEF w
  <2>5. NamesBack(Top, graph', h) /\ BindingsBack(Top, graph', h) /\ FactsBack(Top, graph', h)
        /\ ContextsBack(Top, graph, h)
    BY <1>7, <2>1 DEF Undone, NamesBack, BindingsBack, FactsBack
  <2> DEFINE t == Top
  <2>6. t \in Transactions /\ OnlyOlder(t) /\ Ordered(t) /\ u = RecordDeltas(t, c, ds)
        /\ NamesBack(t, graph', h) /\ BindingsBack(t, graph', h) /\ FactsBack(t, graph', h)
        /\ ContextsBack(t, graph, h)
    BY <2>1, <2>5
  <2> HIDE DEF t, ds, h, u
  <2> QED
    BY <1>0, <1>7, <2>6, <2>3, <2>4, DeltasRecorded
<1> HIDE DEF u, h
<1>9. IF transactions = <<>> THEN transactions' = <<>> ELSE \E v : Recorded(v)
  BY <1>2, <1>8, JournalStep DEF h
<1> QED
  BY <1>2, <1>7, <1>9 DEF Stepped

\* decl_context_mut, when it is called in order.
LEMMA ContextMutSteps ==
    ASSUME FileInv, NEW c \in DOMAIN graph.contexts, ContextMut(c), begun' = begun
    PROVE  Stepped
<1> DEFINE w == graph.contexts[c]
           x == [w EXCEPT !.inline = ~@]
           u == RecordContext(Top, c)
           h == begun[Len(begun)]
           n == Len(transactions)
<1>0. graph \in Graphs /\ Sound(graph, gens) /\ w \in Contexts /\ c \in Nat
      /\ DOMAIN transactions = 1 .. n /\ n \in Nat
  BY DEF FileInv, FileOK, AllSound, Graphs
<1>2. gens' = gens /\ transactions' = Journal(u) /\ graph' = [graph EXCEPT !.contexts[c] = x]
  BY DEF ContextMut
<1>3. x \in Contexts /\ x.using = w.using /\ x.bindings = w.bindings /\ x.children = w.children
      /\ x.index = w.index
  BY <1>0 DEF Contexts
<1> HIDE DEF x
<1>4. ContextSound(x, graph, gens)
  BY <1>0, <1>3 DEF ContextSound, Sound
<1>5. /\ graph'.names = graph.names /\ graph'.name_index = graph.name_index
      /\ graph'.bindings = graph.bindings /\ graph'.facts = graph.facts
      /\ Len(graph'.contexts) = Len(graph.contexts)
      /\ graph'.contexts[c] = x
      /\ \A i \in DOMAIN graph.contexts : i # c => graph'.contexts[i] = graph.contexts[i]
      /\ graph' \in Graphs
      /\ gens' \in AllGens /\ Generated' /\ Within(graph, graph')
      /\ Agree(graph, gens, gens') /\ Fresh
      /\ Sound(graph', gens')
  BY <1>2, <1>3, <1>4, ContextChanged
<1>6. ASSUME transactions # <<>>
      PROVE  u \in Transactions /\ OnlyOlder(u) /\ Undone(u, graph', h) /\ Ordered(u)
  <2>1. Top \in Transactions /\ OnlyOlder(Top) /\ Undone(Top, graph, h) /\ Ordered(Top)
        /\ ContextsBack(Top, graph, h)
    BY <1>6, TopFacts DEF Undone
  <2> HIDE DEF h
  <2>2. /\ u \in Transactions /\ OnlyOlder(u) /\ ContextsBack(u, graph', h)
        /\ SameBut(u, Top, {"context_mutations"})
        /\ \A i \in DOMAIN u.context_mutations :
              i \in DOMAIN Top.context_mutations \/ (i = c /\ c <= Top.contexts_size)
    BY <1>0, <1>5, <2>1, RecordContextBack
  <2> HIDE DEF u
  <2>3. NamesBack(u, graph', h) /\ FactsBack(u, graph', h) /\ BindingsBack(u, graph', h)
    BY <1>5, <2>1, <2>2 DEF Undone, NamesBack, FactsBack, BindingsBack, SameBut
  <2>4. Ordered(u)
    <3>1. c <= Top.contexts_size => ~(c > Top.contexts_size)
      BY <1>0, <2>1 DEF Transactions
    <3>2. c <= Top.contexts_size => \A i \in 1 .. n : ~Mentions(transactions[i].deltas, c)
      BY <1>0, <1>6, <3>1 DEF ContextMut, CalledInOrder, Mentions
    <3>3. Top = transactions[n] /\ n \in 1 .. n /\ \A j \in 1 .. n - 1 : j \in 1 .. n
      BY <1>0, <1>6 DEF Top, Last, FileInv, FileOK
    <3>4. c <= Top.contexts_size => /\ ~Mentions(Top.deltas, c)
                                    /\ \A j \in 1 .. n - 1 : ~Mentions(transactions[j].deltas, c)
      BY <3>2, <3>3
    <3>5. u.deltas = Top.deltas
      BY <2>2 DEF SameBut
    <3> QED
      BY <2>1, <2>2, <3>4, <3>5 DEF Ordered
  <2> QED
    BY <2>2, <2>3, <2>4 DEF Undone
<1> HIDE DEF u, h
<1>7. IF transactions = <<>> THEN transactions' = <<>> ELSE \E v : Recorded(v)
  BY <1>2, <1>6, JournalStep DEF h
<1> QED
  BY <1>2, <1>5, <1>7 DEF Stepped

\* intern_name: the spelling was not found, so no live name has it.
LEMMA InternNameSteps ==
    ASSUME FileInv, NEW n \in Names, InternName(n), begun' = begun
    PROVE  Stepped
<1> DEFINE s == graph.names
           k == Len(s) + 1
           id == NewId(s, gens.names)
           f == Generations(s, gens.names)
           u == [Top EXCEPT !.inserted = @ \cup {n}]
           h == begun[Len(begun)]
<1>0. /\ graph \in Graphs /\ Sound(graph, gens) /\ gens \in AllGens /\ Generated
      /\ s \in Seq(Names) /\ gens.names \in Gens /\ Len(s) \in Nat /\ Len(s) <= Len(gens.names)
      /\ graph.name_index \in [Names -> MaybeId]
      /\ graph.name_index[n] = NoId
  BY DEF FileInv, FileOK, AllSound, Graphs, AllGens, Generated, InternName
<1>1. /\ NextGeneration(s, gens.names) \in Nat \ {0}
      /\ f \in Gens
      /\ Len(s) + 1 <= Len(f)
      /\ \A i \in 1 .. Len(s) : f[i] = gens.names[i]
      /\ f[Len(s) + 1] = NextGeneration(s, gens.names)
  <2> HIDE DEF s
  <2> QED
    BY <1>0, NewGeneration
<1>2. id = [index |-> k, gen |-> f[k]] /\ id \in Ids
  BY <1>0, <1>1 DEF NewId, Ids
<1> HIDE DEF id, f
<1>3. /\ graph'.names = Append(s, n) /\ graph'.name_index = [graph.name_index EXCEPT ![n] = id]
      /\ graph'.bindings = graph.bindings /\ graph'.contexts = graph.contexts
      /\ graph'.facts = graph.facts
      /\ graph' = [graph EXCEPT !.names = Append(s, n),
                                !.name_index = [graph.name_index EXCEPT ![n] = id]]
  BY <1>0 DEF InternName, Graphs, id
<1>4. /\ gens'.names = f /\ gens'.bindings = gens.bindings /\ gens'.contexts = gens.contexts
      /\ gens' \in AllGens /\ transactions' = Journal(u)
  BY <1>0, <1>1 DEF InternName, AllGens, f
<1>5. /\ Append(s, n) \in Seq(Names) /\ Len(Append(s, n)) = k
      /\ \A i \in 1 .. Len(s) : Append(s, n)[i] = s[i]
      /\ Append(s, n)[k] = n
      /\ DOMAIN Append(s, n) = 1 .. k
  BY <1>0, AppendProperties
<1>6. graph' \in Graphs
  <2>1. [graph.name_index EXCEPT ![n] = id] \in [Names -> MaybeId]
    BY <1>0, <1>2 DEF MaybeId
  <2> QED
    BY <1>0, <1>3, <1>5, <2>1 DEF Graphs
<1>7. Within(graph, graph') /\ Agree(graph, gens, gens') /\ Generated'
  BY <1>0, <1>1, <1>3, <1>4, <1>5, Lengths DEF Within, Agree, Generated
<1>8. Fresh
  <2>1. \A i \in DOMAIN gens.bindings : gens.bindings[i] <= gens.bindings[i]
    BY <1>0 DEF AllGens, Gens
  <2> QED
    BY <1>3, <1>4, <2>1 DEF Fresh
<1>9. Sound(graph', gens')
  <2>1. \A c \in DOMAIN graph'.contexts : ContextSound(graph'.contexts[c], graph', gens')
    BY <1>0, <1>3, <1>4 DEF Sound, ContextSound
  <2>2. \A b \in DOMAIN graph'.bindings : graph'.bindings[b].predecessor # NoId =>
            Valid(graph'.bindings[b].predecessor, graph'.bindings, gens'.bindings)
    BY <1>0, <1>3, <1>4 DEF Sound
  <2>3. \A i \in 1 .. Len(s) : /\ s[i] \in Names /\ s[i] # n /\ gens.names[i] \in Nat
                               /\ graph.name_index[s[i]] = [index |-> i, gen |-> gens.names[i]]
    <3> SUFFICES ASSUME NEW i \in 1 .. Len(s)
                 PROVE  /\ s[i] \in Names /\ s[i] # n /\ gens.names[i] \in Nat
                        /\ graph.name_index[s[i]] = [index |-> i, gen |-> gens.names[i]]
      OBVIOUS
    <3>1. i \in DOMAIN graph.names /\ s[i] \in Names
      BY <1>0
    <3>2. i \in Nat /\ i \in 1 .. Len(gens.names)
      BY <1>0 DEF Gens
    <3>3. gens.names[i] \in Nat
      BY <1>0, <3>2 DEF Gens
    <3>4. graph.name_index[s[i]] = [index |-> i, gen |-> gens.names[i]]
      BY <1>0, <3>1 DEF Sound, NamesSound
    <3>5. [index |-> i, gen |-> gens.names[i]] # NoId
      BY <3>2, <3>3, CirFileAssumption DEF Ids
    <3> QED
      BY <1>0, <3>1, <3>3, <3>4, <3>5
  <2>4. NamesSound(graph', gens')
    <3> SUFFICES ASSUME NEW i \in 1 .. k
                 PROVE  [graph.name_index EXCEPT ![n] = id][Append(s, n)[i]] =
                           [index |-> i, gen |-> f[i]]
      BY <1>3, <1>4, <1>5 DEF NamesSound
    <3>1. CASE i = k
      BY <1>0, <1>2, <1>5, <3>1
    <3>2. CASE i # k
      <4>1. i \in 1 .. Len(s)
        BY <1>0, <3>2
      <4> QED
        BY <1>0, <1>1, <1>5, <2>3, <4>1
    <3> QED
      BY <3>1, <3>2
  <2> QED
    BY <2>1, <2>2, <2>4 DEF Sound
<1>10. ASSUME transactions # <<>>
       PROVE  u \in Transactions /\ OnlyOlder(u) /\ Undone(u, graph', h) /\ Ordered(u)
  <2>1. Top \in Transactions /\ OnlyOlder(Top) /\ Undone(Top, graph, h) /\ Ordered(Top)
    BY <1>10, TopFacts
  <2> HIDE DEF h
  <2>2. u \in Transactions /\ SameBut(u, Top, {"inserted"}) /\ u.inserted = Top.inserted \cup {n}
    BY <2>1 DEF Transactions, SameBut
  <2> HIDE DEF u
  <2>3. BindingsBack(u, graph', h) /\ ContextsBack(u, graph', h) /\ FactsBack(u, graph', h)
    BY <1>3, <2>1, <2>2 DEF Undone, BindingsBack, ContextsBack, FactsBack, SameBut
  <2>4. NamesBack(u, graph', h)
    <3>1. /\ Len(h.names) = Top.names_size /\ Top.names_size <= Len(s)
          /\ \A i \in 1 .. Top.names_size : h.names[i] = s[i]
          /\ \A m \in Names : h.name_index[m] = IF m \in Top.inserted THEN NoId
                                               ELSE graph.name_index[m]
      BY <2>1 DEF Undone, NamesBack
    <3>2. Top.names_size \in Nat /\ u.names_size = Top.names_size
      BY <2>1, <2>2 DEF Transactions, SameBut
    <3>3. Top.names_size <= Len(graph'.names) /\ \A i \in 1 .. Top.names_size : i \in 1 .. Len(s)
      BY <1>0, <1>3, <1>5, <3>1, <3>2
    <3>4. \A i \in 1 .. Top.names_size : h.names[i] = graph'.names[i]
      BY <1>3, <1>5, <3>1, <3>3
    <3>5. \A m \in Names : h.name_index[m] = IF m \in u.inserted THEN NoId
                                             ELSE graph'.name_index[m]
      BY <1>0, <1>3, <2>2, <3>1
    <3> QED
      BY <3>1, <3>2, <3>3, <3>4, <3>5 DEF NamesBack
  <2>5. OnlyOlder(u) /\ Ordered(u)
    BY <2>1, <2>2 DEF OnlyOlder, Ordered, SameBut
  <2> QED
    BY <2>2, <2>3, <2>4, <2>5 DEF Undone
<1> HIDE DEF u, h
<1>11. IF transactions = <<>> THEN transactions' = <<>> ELSE \E v : Recorded(v)
  BY <1>4, <1>10, JournalStep DEF h
<1> QED
  BY <1>4, <1>6, <1>7, <1>8, <1>9, <1>11 DEF Stepped

\* bind_entity: a new record and two deltas of its context.
LEMMA BindEntitySteps ==
    ASSUME FileInv, NEW c \in DOMAIN graph.contexts, NEW n \in Names, BindEntity(c, n),
           begun' = begun
    PROVE  Stepped
<1> DEFINE s == graph.bindings
           k == Len(s) + 1
           r == [name |-> n, definition |-> FALSE, predecessor |-> NoId]
           id == NewId(s, gens.bindings)
           f == Generations(s, gens.bindings)
           w == graph.contexts[c]
           y == [w EXCEPT !.bindings = Append(w.bindings, id)]
           x == [y EXCEPT !.index = [y.index EXCEPT ![n] = id]]
           q == [graph.contexts EXCEPT ![c] = x]
           d == Appended(c, "bindings")
           e == IndexAssigned(c, n)
           ds == <<d, e>>
           u == RecordDeltas(Top, c, ds)
           h == begun[Len(begun)]
<1>0. /\ graph \in Graphs /\ Sound(graph, gens) /\ gens \in AllGens /\ Generated
      /\ s \in Seq(Bindings) /\ gens.bindings \in Gens /\ Len(s) \in Nat
      /\ Len(s) <= Len(gens.bindings)
      /\ w \in Contexts /\ c \in Nat /\ graph.contexts \in Seq(Contexts)
  BY DEF FileInv, FileOK, AllSound, Graphs, AllGens, Generated
<1>1. /\ NextGeneration(s, gens.bindings) \in Nat \ {0}
      /\ f \in Gens
      /\ Len(s) + 1 <= Len(f)
      /\ \A i \in 1 .. Len(s) : f[i] = gens.bindings[i]
      /\ f[Len(s) + 1] = NextGeneration(s, gens.bindings)
      /\ \A i \in 1 .. Len(gens.bindings) : i \in 1 .. Len(f) /\ gens.bindings[i] <= f[i]
      /\ Len(s) + 1 \in 1 .. Len(gens.bindings) => gens.bindings[Len(s) + 1] < f[Len(s) + 1]
  <2> HIDE DEF s
  <2> QED
    BY <1>0, NewGeneration
<1>2. id = [index |-> k, gen |-> f[k]] /\ id \in Ids /\ id # NoId /\ id.index = k /\ id.gen = f[k]
  BY <1>0, <1>1, CirFileAssumption DEF NewId, Ids
<1> HIDE DEF id, f
<1>3. graph' = [graph EXCEPT !.bindings = Append(s, r), !.contexts = q]
  <2>1. graph' = [graph EXCEPT !.bindings = Append(@, r), !.contexts[c].bindings = Append(@, id),
                               !.contexts[c].index[n] = id]
    BY DEF BindEntity, id
  <2> DEFINE C == [graph.contexts EXCEPT ![c] = y]
             B == Append(s, r)
             g == [graph EXCEPT !.bindings = B]
             j == [g EXCEPT !.contexts = C]
  <2>2. [C EXCEPT ![c].index[n] = id] = q
    <3>1. C[c] = y
      OBVIOUS
    <3>2. [C EXCEPT ![c].index[n] = id] = [C EXCEPT ![c] = x]
      BY <3>1
    <3>3. [C EXCEPT ![c] = x] = q
      <4> HIDE DEF x, y
      <4> QED
        OBVIOUS
    <3> QED
      BY <3>2, <3>3
  <2>3. g.contexts = graph.contexts
    <3> HIDE DEF B
    <3> QED
      BY <1>0 DEF Graphs
  <2>4. graph' = [[g EXCEPT !.contexts = [g.contexts EXCEPT ![c].bindings = Append(@, id)]]
                     EXCEPT !.contexts[c].index[n] = id]
    BY <2>1
  <2>5. [g.contexts EXCEPT ![c].bindings = Append(@, id)] = C
    BY <2>3
  <2>6. graph' = [j EXCEPT !.contexts[c].index[n] = id]
    <3> HIDE DEF g, C
    <3> QED
      BY <2>4, <2>5
  <2>7. j.contexts = C
    <3> HIDE DEF B, C
    <3> QED
      BY <1>0 DEF Graphs
  <2>8. graph' = [j EXCEPT !.contexts = q]
    <3> HIDE DEF j, C, q
    <3> QED
      BY <2>2, <2>6, <2>7
  <2> HIDE DEF q, B, C
  <2> QED
    BY <1>0, <2>8 DEF Graphs, B
<1>4. /\ gens'.names = gens.names /\ gens'.bindings = f /\ gens'.contexts = gens.contexts
      /\ gens' \in AllGens /\ transactions' = Journal(u)
  BY <1>0, <1>1 DEF BindEntity, AllGens, f
<1>5. r \in Bindings /\ r.predecessor = NoId
  BY DEF Bindings, MaybeId
<1> HIDE DEF r
<1>6. /\ Append(s, r) \in Seq(Bindings) /\ Len(Append(s, r)) = k
      /\ \A i \in 1 .. Len(s) : Append(s, r)[i] = s[i]
      /\ Append(s, r)[k] = r
      /\ DOMAIN Append(s, r) = 1 .. k
  BY <1>0, <1>5, AppendProperties
<1>7. w.bindings \in Seq(Ids) /\ w.index \in [Names -> MaybeId]
  BY <1>0 DEF Contexts
<1>8. /\ Append(w.bindings, id) \in Seq(Ids)
      /\ \A i \in DOMAIN Append(w.bindings, id) :
            \/ Append(w.bindings, id)[i] = id
            \/ i \in DOMAIN w.bindings /\ Append(w.bindings, id)[i] = w.bindings[i]
  <2> DEFINE v == w.bindings
  <2>1. v \in Seq(Ids)
    BY <1>7
  <2> HIDE DEF v
  <2>2. /\ Append(v, id) \in Seq(Ids) /\ Len(Append(v, id)) = Len(v) + 1
        /\ \A i \in 1 .. Len(v) : Append(v, id)[i] = v[i]
        /\ Append(v, id)[Len(v) + 1] = id
    BY <1>2, <2>1, AppendProperties
  <2>3. \A i \in DOMAIN Append(v, id) : i = Len(v) + 1 \/ i \in 1 .. Len(v)
    BY <2>1, <2>2
  <2> QED
    BY <2>1, <2>2, <2>3 DEF v
<1> HIDE DEF w
<1>9. y \in Contexts /\ y.bindings = Append(w.bindings, id) /\ y.children = w.children
      /\ y.using = w.using /\ y.index = w.index
  BY <1>0, <1>8 DEF Contexts
<1>10. x \in Contexts /\ x.bindings = Append(w.bindings, id) /\ x.children = w.children
       /\ x.using = w.using /\ x.index = [w.index EXCEPT ![n] = id]
  <2> HIDE DEF y
  <2>1. [w.index EXCEPT ![n] = id] \in [Names -> MaybeId]
    BY <1>2, <1>7 DEF MaybeId
  <2> QED
    BY <1>9, <2>1 DEF Contexts
<1>11. UndoDelta(c, UndoDelta(c, x, e), d) = w
  <2>1. e = [context |-> c, kind |-> "index", name |-> n, previous |-> y.index[n]]
    BY <1>9 DEF IndexAssigned, w
  <2>2. UndoDelta(c, y, d) = w
    BY <1>0, <1>2, UndoAppended
  <2>3. y \in Contexts
    BY <1>9
  <2> HIDE DEF y, e, d
  <2>4. UndoDelta(c, [y EXCEPT !.index = [y.index EXCEPT ![n] = id]], e) = y
    BY <2>1, <2>3, UndoIndexAssigned
  <2> QED
    BY <2>2, <2>4
<1> HIDE DEF x, y
<1>12. /\ q \in Seq(Contexts) /\ Len(q) = Len(graph.contexts) /\ c \in DOMAIN graph.contexts
       /\ DOMAIN graph.contexts = 1 .. Len(graph.contexts) /\ DOMAIN q = 1 .. Len(graph.contexts)
       /\ \A i \in 1 .. Len(graph.contexts) : q[i] = IF i = c THEN x ELSE graph.contexts[i]
  BY <1>0, <1>10, Lengths, ExceptSeq
<1> HIDE DEF q
<1>13. /\ graph'.names = graph.names /\ graph'.name_index = graph.name_index
       /\ graph'.bindings = Append(s, r) /\ graph'.contexts = q
       /\ graph'.facts = graph.facts
       /\ graph' \in Graphs
  BY <1>0, <1>3, <1>6, <1>12 DEF Graphs
<1>14. Within(graph, graph') /\ Agree(graph, gens, gens') /\ Generated'
  <2>1. Len(graph.names) \in Nat /\ Len(graph.contexts) \in Nat
    BY <1>0, Lengths
  <2>2. Within(graph, graph')
    BY <1>0, <1>6, <1>12, <1>13, <2>1 DEF Within
  <2>3. Agree(graph, gens, gens')
    BY <1>1, <1>4 DEF Agree
  <2>4. Generated'
    BY <1>0, <1>1, <1>4, <1>6, <1>12, <1>13 DEF Generated
  <2> QED
    BY <2>2, <2>3, <2>4
<1>15. Fresh
  <2>1. Len(gens.bindings) \in Nat /\ DOMAIN gens.bindings = 1 .. Len(gens.bindings)
        /\ Len(f) \in Nat /\ DOMAIN f = 1 .. Len(f)
    BY <1>0, <1>1 DEF Gens
  <2>2. \A i \in 1 .. Len(gens.bindings) :
            i \in 1 .. k /\ i \notin 1 .. Len(s) => i = Len(s) + 1
    BY <1>0, <2>1, SMTT(30)
  <2> QED
    BY <1>1, <1>4, <1>6, <1>13, <2>1, <2>2 DEF Fresh
<1>16. Sound(graph', gens')
  <2>1. \A z : ContextSound(z, graph, gens) => ContextSound(z, graph', gens')
    BY <1>0, <1>13, <1>14, ContextGrows
  <2>2. Valid(id, graph'.bindings, gens'.bindings)
    BY <1>0, <1>2, <1>4, <1>6, <1>13 DEF Valid
  <2>3. ContextSound(w, graph', gens')
    BY <1>0, <2>1 DEF Sound, w
  <2>4. ContextSound(x, graph', gens')
    BY <1>7, <1>8, <1>10, <2>2, <2>3 DEF ContextSound
  <2>5. \A i \in DOMAIN graph'.contexts : ContextSound(graph'.contexts[i], graph', gens')
    <3>1. \A i \in 1 .. Len(graph.contexts) : ContextSound(graph.contexts[i], graph', gens')
      BY <1>0, <1>12, <2>1 DEF Sound
    <3> QED
      BY <1>12, <1>13, <2>4, <3>1
  <2>6. \A p : Valid(p, s, gens.bindings) => Valid(p, graph'.bindings, gens'.bindings)
    <3>1. Len(graph'.bindings) \in Nat /\ Len(s) <= Len(graph'.bindings)
      BY <1>0, <1>6, <1>13
    <3> QED
      BY <1>0, <1>1, <1>4, <3>1, ValidGrows, SMTT(30)
  <2>7. ASSUME NEW b \in DOMAIN graph'.bindings, graph'.bindings[b].predecessor # NoId
        PROVE  Valid(graph'.bindings[b].predecessor, graph'.bindings, gens'.bindings)
    <3>1. b \in 1 .. k
      BY <1>6, <1>13
    <3>2. b # k
      BY <1>5, <1>6, <1>13, <2>7
    <3>3. b \in 1 .. Len(s) /\ b \in DOMAIN s
      BY <1>0, <3>1, <3>2
    <3>4. graph'.bindings[b] = s[b]
      BY <1>6, <1>13, <3>3
    <3> QED
      BY <1>0, <2>6, <2>7, <3>3, <3>4 DEF Sound
  <2>8. NamesSound(graph', gens')
    BY <1>0, <1>4, <1>13 DEF Sound, NamesSound
  <2> QED
    BY <2>5, <2>7, <2>8 DEF Sound
<1>17. ASSUME transactions # <<>>
       PROVE  u \in Transactions /\ OnlyOlder(u) /\ Undone(u, graph', h) /\ Ordered(u)
  <2> DEFINE t == Top
  <2>1. t \in Transactions /\ OnlyOlder(t) /\ Undone(t, graph, h) /\ Ordered(t)
        /\ u = RecordDeltas(t, c, ds)
    BY <1>17, TopFacts
  <2>2. d \in Deltas /\ d.context = c /\ e \in Deltas /\ e.context = c
    <3>1. w.index[n] \in MaybeId
      BY <1>7
    <3> QED
      BY <1>0, <3>1 DEF Appended, IndexAssigned, Deltas, w
  <2>3. UndoDeltas(c, graph'.contexts[c], ds) = graph.contexts[c]
    <3>1. graph'.contexts[c] = x
      BY <1>12, <1>13
    <3>2. UndoDeltas(c, x, ds) = UndoDelta(c, UndoDelta(c, x, e), d)
      <4> HIDE DEF d, e
      <4> QED
        BY UndoTwo
    <3> QED
      BY <1>11, <3>1, <3>2 DEF w
  <2> HIDE DEF d, e
  <2>4. ds \in Seq(Deltas) /\ \A i \in DOMAIN ds : ds[i].context = c
    <3>1. <<d>> \in Seq(Deltas)
      BY <2>2, OneDelta
    <3>2. ds = Append(<<d>>, e)
      OBVIOUS
    <3>3. ds \in Seq(Deltas)
      BY <2>2, <3>1, <3>2, AppendProperties
    <3>4. DOMAIN ds = 1 .. 2 /\ ds[1] = d /\ ds[2] = e
      OBVIOUS
    <3> HIDE DEF ds
    <3> QED
      BY <2>2, <3>3, <3>4
  <2> HIDE DEF t, ds, h, u
  <2>5. NamesBack(t, graph', h) /\ FactsBack(t, graph', h) /\ ContextsBack(t, graph, h)
    BY <1>13, <2>1 DEF Undone, NamesBack, FactsBack
  <2>6. BindingsBack(t, graph', h)
    <3>1. BindingsBack(t, graph, h) /\ t.bindings_size \in Nat
      BY <2>1 DEF Undone, Transactions
    <3>2. t.bindings_size <= Len(s) /\ t.bindings_size <= k
          /\ \A i \in 1 .. t.bindings_size : i \in 1 .. Len(s)
      BY <1>0, <3>1 DEF BindingsBack
    <3>3. \A i \in 1 .. t.bindings_size : graph'.bindings[i] = graph.bindings[i]
      BY <1>6, <1>13, <3>2
    <3> QED
      BY <1>6, <1>13, <3>1, <3>2, <3>3 DEF BindingsBack
  <2>7. \A i \in DOMAIN graph.contexts : i # c => graph'.contexts[i] = graph.contexts[i]
    BY <1>12, <1>13
  <2> QED
    BY <1>0, <1>13, <1>14, <2>1, <2>3, <2>4, <2>5, <2>6, <2>7, DeltasRecorded
<1> HIDE DEF u, h
<1>18. IF transactions = <<>> THEN transactions' = <<>> ELSE \E v : Recorded(v)
  BY <1>4, <1>17, JournalStep DEF h
<1> QED
  BY <1>4, <1>13, <1>14, <1>15, <1>16, <1>18 DEF Stepped

\* create_decl_context: a new record and a delta of its parent.
LEMMA AddContextSteps ==
    ASSUME FileInv, NEW c \in DOMAIN graph.contexts, AddContext(c), begun' = begun
    PROVE  Stepped
<1> DEFINE s == graph.contexts
           k == Len(s) + 1
           id == NewId(s, gens.contexts)
           f == Generations(s, gens.contexts)
           w == s[c]
           x == [w EXCEPT !.children = Append(w.children, id)]
           q == [s EXCEPT ![c] = x]
           p == Append(q, NoContext)
           d == Appended(c, "children")
           ds == <<d>>
           u == RecordDeltas(Top, c, ds)
           h == begun[Len(begun)]
<1>0. /\ graph \in Graphs /\ Sound(graph, gens) /\ gens \in AllGens /\ Generated
      /\ s \in Seq(Contexts) /\ gens.contexts \in Gens /\ Len(s) \in Nat
      /\ Len(s) <= Len(gens.contexts)
      /\ w \in Contexts /\ c \in Nat /\ c \in 1 .. Len(s) /\ DOMAIN s = 1 .. Len(s)
  BY DEF FileInv, FileOK, AllSound, Graphs, AllGens, Generated
<1>1. /\ NextGeneration(s, gens.contexts) \in Nat \ {0}
      /\ f \in Gens
      /\ Len(s) + 1 <= Len(f)
      /\ \A i \in 1 .. Len(s) : f[i] = gens.contexts[i]
      /\ f[Len(s) + 1] = NextGeneration(s, gens.contexts)
  <2> HIDE DEF s
  <2> QED
    BY <1>0, NewGeneration
<1>2. id = [index |-> k, gen |-> f[k]] /\ id \in Ids /\ id # NoId /\ id.index = k /\ id.gen = f[k]
  BY <1>0, <1>1, CirFileAssumption DEF NewId, Ids
<1> HIDE DEF id, f
<1>3. graph' = [graph EXCEPT !.contexts = p]
  <2>1. q = [s EXCEPT ![c].children = Append(@, id)]
    OBVIOUS
  <2>2. graph' = [graph EXCEPT !.contexts = Append([s EXCEPT ![c].children = Append(@, id)],
                                                   NoContext)]
    BY DEF AddContext, id
  <2> HIDE DEF q
  <2> QED
    BY <2>1, <2>2
<1>4. /\ gens'.names = gens.names /\ gens'.bindings = gens.bindings /\ gens'.contexts = f
      /\ gens' \in AllGens /\ transactions' = Journal(u)
  BY <1>0, <1>1 DEF AddContext, AllGens, f
<1>5. NoContext \in Contexts
  <2>1. <<>> \in Seq(Ids)
    BY EmptySeq
  <2> QED
    BY <2>1 DEF NoContext, Contexts, MaybeId
<1>6. /\ w.children \in Seq(Ids)
      /\ Append(w.children, id) \in Seq(Ids)
      /\ \A i \in DOMAIN Append(w.children, id) :
            \/ Append(w.children, id)[i] = id
            \/ i \in DOMAIN w.children /\ Append(w.children, id)[i] = w.children[i]
  <2> DEFINE v == w.children
  <2>1. v \in Seq(Ids)
    BY <1>0 DEF Contexts
  <2> HIDE DEF v
  <2>2. /\ Append(v, id) \in Seq(Ids) /\ Len(Append(v, id)) = Len(v) + 1
        /\ \A i \in 1 .. Len(v) : Append(v, id)[i] = v[i]
        /\ Append(v, id)[Len(v) + 1] = id
    BY <1>2, <2>1, AppendProperties
  <2>3. \A i \in DOMAIN Append(v, id) : i = Len(v) + 1 \/ i \in 1 .. Len(v)
    BY <2>1, <2>2
  <2> QED
    BY <2>1, <2>2, <2>3 DEF v
<1> HIDE DEF w
<1>7. x \in Contexts /\ x.bindings = w.bindings /\ x.children = Append(w.children, id)
      /\ x.using = w.using /\ x.index = w.index
  BY <1>0, <1>6 DEF Contexts
<1>8. UndoDelta(c, x, d) = w
  BY <1>0, <1>2, UndoAppended
<1> HIDE DEF x
<1>9. /\ q \in Seq(Contexts) /\ Len(q) = Len(s)
      /\ \A i \in 1 .. Len(s) : q[i] = IF i = c THEN x ELSE s[i]
  BY <1>0, <1>7, ExceptSeq
<1> HIDE DEF q
<1>10. /\ p \in Seq(Contexts) /\ Len(p) = k /\ DOMAIN p = 1 .. k
       /\ \A i \in 1 .. Len(s) : p[i] = IF i = c THEN x ELSE s[i]
       /\ p[k] = NoContext
  <2> HIDE DEF s
  <2>1. /\ p \in Seq(Contexts) /\ Len(p) = Len(q) + 1
        /\ \A i \in 1 .. Len(q) : p[i] = q[i]
        /\ p[Len(q) + 1] = NoContext
    BY <1>5, <1>9, AppendProperties
  <2> QED
    BY <1>9, <2>1
<1> HIDE DEF p
<1>11. /\ graph'.names = graph.names /\ graph'.name_index = graph.name_index
       /\ graph'.bindings = graph.bindings /\ graph'.contexts = p
       /\ graph'.facts = graph.facts
       /\ graph' \in Graphs
  BY <1>0, <1>3, <1>10 DEF Graphs
<1>12. Within(graph, graph') /\ Agree(graph, gens, gens') /\ Generated'
  <2>1. Len(graph.names) \in Nat /\ Len(graph.bindings) \in Nat
    BY <1>0, Lengths
  <2>2. Within(graph, graph')
    BY <1>0, <1>10, <1>11, <2>1 DEF Within
  <2>3. Agree(graph, gens, gens')
    BY <1>1, <1>4 DEF Agree
  <2>4. Generated'
    BY <1>0, <1>1, <1>4, <1>10, <1>11 DEF Generated
  <2> QED
    BY <2>2, <2>3, <2>4
<1>13. Fresh
  <2>1. \A i \in DOMAIN gens.bindings : gens.bindings[i] <= gens.bindings[i]
    BY <1>0 DEF AllGens, Gens
  <2> QED
    BY <1>4, <1>11, <2>1 DEF Fresh
<1>14. Sound(graph', gens')
  <2>1. \A z : ContextSound(z, graph, gens) => ContextSound(z, graph', gens')
    BY <1>0, <1>11, <1>12, ContextGrows
  <2>2. Valid(id, graph'.contexts, gens'.contexts)
    BY <1>0, <1>2, <1>4, <1>10, <1>11 DEF Valid
  <2>3. ContextSound(w, graph', gens')
    BY <1>0, <2>1 DEF Sound, w
  <2>4. ContextSound(x, graph', gens')
    BY <1>6, <1>7, <2>2, <2>3 DEF ContextSound
  <2>5. ContextSound(NoContext, graph', gens')
    BY DEF ContextSound, NoContext
  <2>6. \A i \in DOMAIN graph'.contexts : ContextSound(graph'.contexts[i], graph', gens')
    <3>1. \A i \in 1 .. Len(s) : ContextSound(s[i], graph', gens')
      BY <1>0, <2>1 DEF Sound
    <3>2. \A i \in 1 .. k : i = k \/ i \in 1 .. Len(s)
      BY <1>0
    <3> QED
      BY <1>10, <1>11, <2>4, <2>5, <3>1, <3>2
  <2>7. \A b \in DOMAIN graph'.bindings : graph'.bindings[b].predecessor # NoId =>
            Valid(graph'.bindings[b].predecessor, graph'.bindings, gens'.bindings)
    BY <1>0, <1>4, <1>11 DEF Sound
  <2>8. NamesSound(graph', gens')
    BY <1>0, <1>4, <1>11 DEF Sound, NamesSound
  <2> QED
    BY <2>6, <2>7, <2>8 DEF Sound
<1>15. ASSUME transactions # <<>>
       PROVE  u \in Transactions /\ OnlyOlder(u) /\ Undone(u, graph', h) /\ Ordered(u)
  <2> DEFINE t == Top
  <2>1. t \in Transactions /\ OnlyOlder(t) /\ Undone(t, graph, h) /\ Ordered(t)
        /\ u = RecordDeltas(t, c, ds)
    BY <1>15, TopFacts
  <2>2. d \in Deltas /\ d.context = c
    BY <1>0 DEF Appended, Deltas
  <2>3. UndoDeltas(c, graph'.contexts[c], ds) = graph.contexts[c]
    <3>1. graph'.contexts[c] = x
      BY <1>0, <1>10, <1>11
    <3>2. UndoDeltas(c, x, ds) = UndoDelta(c, x, d)
      BY UndoOne
    <3> QED
      BY <1>8, <3>1, <3>2 DEF w
  <2> HIDE DEF d
  <2>4. ds \in Seq(Deltas) /\ \A i \in DOMAIN ds : ds[i].context = c
    BY <2>2, OneDelta
  <2> HIDE DEF t, ds, h, u
  <2>5. NamesBack(t, graph', h) /\ FactsBack(t, graph', h) /\ BindingsBack(t, graph', h)
        /\ ContextsBack(t, graph, h)
    BY <1>11, <2>1 DEF Undone, NamesBack, FactsBack, BindingsBack
  <2>6. \A i \in DOMAIN graph.contexts : i # c => graph'.contexts[i] = graph.contexts[i]
    BY <1>0, <1>10, <1>11
  <2> QED
    BY <1>0, <1>11, <1>12, <2>1, <2>3, <2>4, <2>5, <2>6, DeltasRecorded
<1> HIDE DEF u, h
<1>16. IF transactions = <<>> THEN transactions' = <<>> ELSE \E v : Recorded(v)
  BY <1>4, <1>15, JournalStep DEF h
<1> QED
  BY <1>4, <1>11, <1>12, <1>13, <1>14, <1>16 DEF Stepped

\* Every operation on the graph is journalled.
LEMMA OperationSteps == FileInv /\ Operation /\ begun' = begun => Stepped
BY InternNameSteps, BindEntitySteps, BindOverloadSteps, BindingMutSteps, AddContextSteps,
   ContextMutSteps, AddUsingSteps, SetFactSteps DEF Operation

-----------------------------------------------------------------------------
(* Transactions.                                                           *)

\* All but the last element.
LEMMA FrontFacts ==
    ASSUME NEW S, NEW s \in Seq(S), s # <<>>
    PROVE  /\ Len(s) \in Nat \ {0} /\ DOMAIN s = 1 .. Len(s)
           /\ Front(s) \in Seq(S) /\ Len(Front(s)) = Len(s) - 1
           /\ DOMAIN Front(s) = 1 .. Len(s) - 1
           /\ \A i \in 1 .. Len(s) - 1 : Front(s)[i] = s[i]
           /\ Last(s) = s[Len(s)] /\ Len(s) \in 1 .. Len(s)
<1>1. Len(s) \in Nat \ {0} /\ DOMAIN s = 1 .. Len(s) /\ \A i \in 1 .. Len(s) : s[i] \in S
  BY EmptySeq
<1> DEFINE m == Len(s) - 1
           f == SubSeq(s, 1, m)
<1>2. m \in Nat /\ \A i \in 1 .. m : i \in 1 .. Len(s)
  BY <1>1
<1>3. Front(s) = f
  BY DEF Front
<1>4. f \in Seq(S) /\ Len(f) = m /\ \A i \in 1 .. m : f[i] = s[i]
  BY <1>1, <1>2, SMTT(30)
<1>5. DOMAIN f = 1 .. m
  BY <1>4
<1> HIDE DEF f, m
<1>6. Last(s) = s[Len(s)] /\ Len(s) \in 1 .. Len(s)
  BY <1>1 DEF Last
<1> QED
  BY <1>1, <1>3, <1>4, <1>5, <1>6 DEF m

\* The empty journal.
LEMMA NoJournal == ASSUME NEW K, NEW V PROVE <<>> \in Journals(K, V) /\ DOMAIN <<>> = {}
<1>1. DOMAIN <<>> = {}
  OBVIOUS
<1>2. <<>> \in [{} -> V]
  BY <1>1
<1> QED
  BY <1>1, <1>2 DEF Journals

\* The constructor of File.
LEMMA InitFileInv == FileInit => FileInv
<1> SUFFICES ASSUME FileInit PROVE FileInv
  OBVIOUS
<1>1. NoContext \in Contexts
  <2>1. <<>> \in Seq(Ids)
    BY EmptySeq
  <2> QED
    BY <2>1 DEF NoContext, Contexts, MaybeId
<1>2. /\ graph.names = <<>> /\ graph.bindings = <<>> /\ graph.contexts = <<NoContext>>
      /\ transactions = <<>> /\ begun = <<>> /\ gens.contexts = <<1>>
      /\ gens.names = <<>> /\ gens.bindings = <<>>
  BY DEF FileInit
<1>3. <<NoContext>> \in Seq(Contexts)
  BY <1>1, EmptySeq, AppendProperties, Append(<<>>, NoContext) = <<NoContext>>
<1>4. graph \in Graphs
  <2>1. <<>> \in Seq(Names) /\ <<>> \in Seq(Bindings)
    BY EmptySeq
  <2>2. /\ [n \in Names |-> NoId] \in [Names -> MaybeId]
        /\ [k \in Keys |-> NoFact] \in [Keys -> Facts \cup {NoFact}]
    BY DEF MaybeId
  <2> HIDE DEF NoContext
  <2> QED
    BY <1>3, <2>1, <2>2 DEF FileInit, Graphs
<1>5. gens \in AllGens
  <2>1. <<>> \in Seq(Nat \ {0}) /\ <<1>> \in Seq(Nat \ {0})
    BY EmptySeq
  <2> QED
    BY <2>1 DEF FileInit, AllGens, Gens
<1>6. FileOK
  BY <1>2, <1>4, <1>5, EmptySeq DEF FileOK
<1>7. Generated
  BY <1>2 DEF Generated
<1>8. Journalled /\ InOrder /\ Nested
  BY <1>2 DEF Journalled, InOrder, Nested
<1>9. Sound(graph, gens)
  <2>1. ContextSound(NoContext, graph, gens)
    BY DEF ContextSound, NoContext
  <2>2. DOMAIN graph.contexts = {1} /\ graph.contexts[1] = NoContext
    BY <1>2
  <2>3. DOMAIN graph.bindings = {} /\ DOMAIN graph.names = {}
    BY <1>2
  <2> QED
    BY <2>1, <2>2, <2>3 DEF Sound, NamesSound
<1>10. AllSound
  BY <1>2, <1>9 DEF AllSound
<1> QED
  BY <1>6, <1>7, <1>8, <1>10 DEF FileInv

\* begin_transaction: nothing is journalled, and the graph is the one to go back to.
LEMMA BeginInv == FileInv /\ Begin => FileInv'
<1> SUFFICES ASSUME FileInv, Begin PROVE FileInv'
  OBVIOUS
<1> DEFINE n == Len(transactions)
           t == [names_size |-> Len(graph.names), bindings_size |-> Len(graph.bindings),
                 contexts_size |-> Len(graph.contexts),
                 inserted |-> {}, binding_mutations |-> <<>>, context_mutations |-> <<>>,
                 deltas |-> <<>>, fact_mutations |-> <<>>]
<1>0. /\ n \in Nat /\ DOMAIN transactions = 1 .. n /\ Len(begun) = n /\ DOMAIN begun = 1 .. n
      /\ \A i \in 1 .. n : begun[i] \in Graphs
      /\ graph \in Graphs /\ gens \in AllGens /\ Generated /\ graph' = graph /\ gens' = gens
      /\ transactions \in Seq(Transactions) /\ begun \in Seq(Graphs)
      /\ Sound(graph, gens)
  BY DEF FileInv, FileOK, AllSound, Begin
<1>1. transactions' = Append(transactions, t) /\ begun' = Append(begun, graph)
  BY DEF Begin
<1>2. t \in Transactions /\ DOMAIN t.context_mutations = {}
  <2>1. <<>> \in Journals(Nat, Bindings) /\ <<>> \in Journals(Nat, Contexts)
        /\ <<>> \in Journals(Keys, Facts \cup {NoFact}) /\ <<>> \in Seq(Deltas)
    BY NoJournal, EmptySeq
  <2> QED
    BY <1>0, <2>1, NoJournal, Lengths DEF Transactions
<1>3. OnlyOlder(t)
  BY NoJournal DEF OnlyOlder, Mentions
<1>4. Undone(t, graph, graph)
  <2>1. NamesBack(t, graph, graph) /\ BindingsBack(t, graph, graph) /\ FactsBack(t, graph, graph)
    BY <1>0, NoJournal, Lengths DEF NamesBack, BindingsBack, FactsBack
  <2>2. ContextsBack(t, graph, graph)
    BY <1>0, NoJournal, Lengths, UndoNone DEF ContextsBack
  <2> QED
    BY <2>1, <2>2 DEF Undone
<1> HIDE DEF t
<1>5. /\ transactions' \in Seq(Transactions) /\ Len(transactions') = n + 1
      /\ DOMAIN transactions' = 1 .. n + 1
      /\ transactions'[n + 1] = t
      /\ \A i \in 1 .. n : transactions'[i] = transactions[i]
  BY <1>0, <1>1, <1>2, AppendProperties
<1>6. /\ begun' \in Seq(Graphs) /\ Len(begun') = n + 1 /\ DOMAIN begun' = 1 .. n + 1
      /\ begun'[n + 1] = graph
      /\ \A i \in 1 .. n : begun'[i] = begun[i]
  BY <1>0, <1>1, AppendProperties
<1>7. \A i \in 1 .. n + 1 : i = n + 1 \/ i \in 1 .. n
  BY <1>0
<1>8. FileOK' /\ Generated'
  BY <1>0, <1>5, <1>6 DEF FileOK, Generated
<1>9. Journalled'
  <2> SUFFICES ASSUME NEW i \in 1 .. n + 1
               PROVE  OnlyOlder(transactions'[i]) /\ Undone(transactions'[i], EndOf(i)', begun'[i])
    BY <1>5 DEF Journalled
  <2>1. CASE i = n + 1
    <3>1. EndOf(i)' = graph
      BY <1>0, <1>6, <2>1 DEF EndOf
    <3> QED
      BY <1>3, <1>4, <1>5, <1>6, <2>1, <3>1
  <2>2. CASE i \in 1 .. n
    <3>1. EndOf(i)' = EndOf(i)
      <4>0. i # n + 1
        BY <1>0, <2>2
      <4>1. EndOf(i)' = begun'[i + 1]
        BY <1>6, <4>0 DEF EndOf
      <4>2. CASE i = n
        <5>1. EndOf(i) = graph
          BY <1>0, <4>2 DEF EndOf
        <5> QED
          BY <1>6, <4>1, <4>2, <5>1
      <4>3. CASE i # n
        <5> HIDE DEF n
        <5>1. i + 1 \in 1 .. n
          BY <1>0, <2>2, <4>3
        <5>2. EndOf(i) = begun[i + 1]
          BY <1>0, <4>3 DEF EndOf
        <5> QED
          BY <1>6, <4>1, <5>1, <5>2
      <4> QED
        BY <4>2, <4>3
    <3>2. OnlyOlder(transactions[i]) /\ Undone(transactions[i], EndOf(i), begun[i])
      BY <1>0, <2>2 DEF FileInv, Journalled
    <3> QED
      BY <1>5, <1>6, <2>2, <3>1, <3>2
  <2> QED
    BY <1>7, <2>1, <2>2
<1>10. InOrder'
  <2> SUFFICES ASSUME NEW i \in 1 .. n + 1, NEW j \in 1 .. i,
                      NEW c \in DOMAIN transactions'[i].context_mutations
               PROVE  ~Mentions(transactions'[j].deltas, c)
    BY <1>5 DEF InOrder
  <2>1. i \in 1 .. n
    BY <1>2, <1>5, <1>7
  <2>2. j \in 1 .. n
    BY <1>0, <2>1
  <2> QED
    BY <1>0, <1>5, <2>1, <2>2 DEF FileInv, InOrder
<1>11. Nested'
  <2>1. Within(graph, graph)
    BY <1>0, Lengths DEF Within
  <2>2. \A i \in 1 .. n : Within(begun[i], graph)
    BY <1>0 DEF FileInv, Nested
  <2>3. \A i \in 1 .. n + 1 : Within(begun'[i], graph')
    BY <1>0, <1>6, <1>7, <2>1, <2>2
  <2>4. ASSUME NEW i \in 1 .. n + 1, NEW j \in 1 .. n + 1, i <= j
        PROVE  Within(begun'[i], begun'[j])
    <3>1. CASE j = n + 1
      BY <1>0, <1>6, <2>3, <3>1
    <3>2. CASE j \in 1 .. n
      <4>1. i \in 1 .. n
        BY <1>0, <2>4, <3>2
      <4> QED
        BY <1>0, <1>6, <2>4, <3>2, <4>1 DEF FileInv, Nested
    <3> QED
      BY <1>7, <3>1, <3>2
  <2> QED
    BY <1>6, <2>3, <2>4 DEF Nested
<1>12. AllSound'
  <2>1. \A i \in 1 .. n : Sound(begun[i], gens)
    BY <1>0 DEF FileInv, AllSound
  <2>2. \A i \in 1 .. n + 1 : Sound(begun'[i], gens)
    BY <1>0, <1>6, <1>7, <2>1
  <2> QED
    BY <1>0, <1>6, <2>2 DEF AllSound
<1> QED
  BY <1>8, <1>9, <1>10, <1>11, <1>12 DEF FileInv

\* The beginning of a table.
LEMMA CutTable ==
    ASSUME NEW f, NEW m \in Nat, NEW S, NEW h \in Seq(S), Len(h) = m,
           \A i \in 1 .. m : h[i] = f[i]
    PROVE  SubSeq(f, 1, m) = h
<1>1. \A i \in 1 .. m : f[i] \in S
  OBVIOUS
<1>2. SubSeq(f, 1, m) \in Seq(S) /\ Len(SubSeq(f, 1, m)) = m
      /\ \A i \in 1 .. m : SubSeq(f, 1, m)[i] = f[i]
  BY <1>1
<1> QED
  BY <1>2, SeqEqual

\* The journal determines the graph that a rollback gives.
LEMMA UndoneIsUndo ==
    ASSUME NEW t \in Transactions, OnlyOlder(t), NEW g \in Graphs, NEW h \in Graphs,
           Undone(t, g, h)
    PROVE  Undo(t, g) = h
<1>0. /\ h.names \in Seq(Names) /\ h.bindings \in Seq(Bindings) /\ h.contexts \in Seq(Contexts)
      /\ g.names \in Seq(Names) /\ g.bindings \in Seq(Bindings) /\ g.contexts \in Seq(Contexts)
      /\ t.names_size \in Nat /\ t.bindings_size \in Nat /\ t.contexts_size \in Nat
      /\ h.name_index \in [Names -> MaybeId]
      /\ h.facts \in [Keys -> Facts \cup {NoFact}] /\ g.facts \in [Keys -> Facts \cup {NoFact}]
  BY DEF Graphs, Transactions
<1>1. SubSeq(g.names, 1, t.names_size) = h.names
  <2>1. Len(h.names) = t.names_size /\ \A i \in 1 .. t.names_size : h.names[i] = g.names[i]
    BY DEF Undone, NamesBack
  <2> DEFINE f == g.names
             s == h.names
             m == t.names_size
  <2>2. s \in Seq(Names) /\ m \in Nat /\ Len(s) = m /\ \A i \in 1 .. m : s[i] = f[i]
    BY <1>0, <2>1
  <2> HIDE DEF f, s, m
  <2>3. SubSeq(f, 1, m) = s
    BY <2>2, CutTable
  <2> QED
    BY <2>3 DEF f, s, m
<1>2. SubSeq(Overlay(g.bindings, t.binding_mutations), 1, t.bindings_size) = h.bindings
  <2> DEFINE f == Overlay(g.bindings, t.binding_mutations)
             k == Len(g.bindings)
  <2>1. DOMAIN g.bindings = 1 .. k /\ k \in Nat /\ t.bindings_size \in 0 .. k
    BY <1>0 DEF Undone, BindingsBack
  <2>2. f = [i \in 1 .. k |-> f[i]]
        /\ \A i \in 1 .. k : f[i] = IF i \in DOMAIN t.binding_mutations
                                   THEN t.binding_mutations[i] ELSE g.bindings[i]
    BY <2>1 DEF Overlay
  <2> HIDE DEF f, k
  <2>3. Len(h.bindings) = t.bindings_size /\ \A i \in 1 .. t.bindings_size : h.bindings[i] = f[i]
    BY <2>1, <2>2 DEF Undone, BindingsBack
  <2> DEFINE s == h.bindings
             m == t.bindings_size
  <2>4. s \in Seq(Bindings) /\ m \in Nat /\ Len(s) = m /\ \A i \in 1 .. m : s[i] = f[i]
    BY <1>0, <2>3
  <2> HIDE DEF s, m
  <2>5. SubSeq(f, 1, m) = s
    BY <2>4, CutTable
  <2> QED
    BY <2>5 DEF f, s, m
<1>3. SubSeq(UndoContexts(t, g), 1, t.contexts_size) = h.contexts
  <2> DEFINE f == UndoContexts(t, g)
             k == Len(g.contexts)
  <2>1. DOMAIN g.contexts = 1 .. k /\ k \in Nat /\ t.contexts_size \in 0 .. k
    BY <1>0 DEF Undone, ContextsBack
  <2>2. \A c \in 1 .. k : Overlay(g.contexts, t.context_mutations)[c] =
            IF c \in DOMAIN t.context_mutations THEN t.context_mutations[c] ELSE g.contexts[c]
    BY <2>1 DEF Overlay
  <2>3. f = [c \in 1 .. k |-> f[c]]
        /\ \A c \in 1 .. k : f[c] =
              UndoDeltas(c, Overlay(g.contexts, t.context_mutations)[c], t.deltas)
    BY <2>1 DEF UndoContexts
  <2> HIDE DEF f, k
  <2>4. Len(h.contexts) = t.contexts_size /\ \A c \in 1 .. t.contexts_size : h.contexts[c] = f[c]
    <3>1. \A c \in 1 .. t.contexts_size : c \in 1 .. k
      BY <2>1
    <3> QED
      BY <2>2, <2>3, <3>1 DEF Undone, ContextsBack
  <2> DEFINE s == h.contexts
             m == t.contexts_size
  <2>5. s \in Seq(Contexts) /\ m \in Nat /\ Len(s) = m /\ \A i \in 1 .. m : s[i] = f[i]
    BY <1>0, <2>4
  <2> HIDE DEF s, m
  <2>6. SubSeq(f, 1, m) = s
    BY <2>5, CutTable
  <2> QED
    BY <2>6 DEF f, s, m
<1>4. [n \in Names |-> IF n \in t.inserted THEN NoId ELSE g.name_index[n]] = h.name_index
  BY <1>0 DEF Undone, NamesBack
<1>5. Overlay(g.facts, t.fact_mutations) = h.facts
  BY <1>0 DEF Undone, FactsBack, Overlay
<1>6. h = [names |-> h.names, name_index |-> h.name_index, bindings |-> h.bindings,
           contexts |-> h.contexts, facts |-> h.facts]
  BY DEF Graphs
<1> QED
  BY <1>1, <1>2, <1>3, <1>4, <1>5, <1>6 DEF Undo

\* What is left of the invariant when the innermost transaction has ended.
LEMMA EndedInv ==
    ASSUME FileInv, transactions # <<>>, begun' = Front(begun), gens' = gens,
           graph' \in Graphs, Generated', Sound(graph', gens),
           transactions' \in Seq(Transactions), Len(transactions') = Len(transactions) - 1,
           Journalled', InOrder',
           \A i \in DOMAIN begun' : Within(begun[i], graph')
    PROVE  FileInv'
<1> DEFINE n == Len(transactions)
<1>0. /\ n \in Nat \ {0} /\ Len(begun) = n /\ begun \in Seq(Graphs) /\ begun # <<>>
      /\ gens \in AllGens /\ DOMAIN begun = 1 .. n
  BY EmptySeq DEF FileInv, FileOK
<1>1. begun' \in Seq(Graphs) /\ Len(begun') = n - 1 /\ DOMAIN begun' = 1 .. n - 1
      /\ \A i \in 1 .. n - 1 : begun'[i] = begun[i]
  BY <1>0, FrontFacts
<1>2. FileOK'
  BY <1>0, <1>1 DEF FileOK
<1>3. \A i \in 1 .. n - 1 : i \in 1 .. n
  BY <1>0
<1>4. Nested'
  <2>1. \A i, j \in 1 .. n - 1 : i <= j => Within(begun[i], begun[j])
    BY <1>0, <1>3 DEF FileInv, Nested
  <2> QED
    BY <1>1, <2>1 DEF Nested
<1>5. AllSound'
  <2>1. \A i \in 1 .. n - 1 : Sound(begun[i], gens)
    BY <1>0, <1>3 DEF FileInv, AllSound
  <2> QED
    BY <1>1, <2>1 DEF AllSound
<1> QED
  BY <1>2, <1>4, <1>5 DEF FileInv

\* rollback_transaction gives back the graph in which the transaction was begun.
LEMMA RollbackInv ==
    ASSUME FileInv, Rollback
    PROVE  FileInv' /\ graph' = begun[Len(begun)]
<1> DEFINE n == Len(transactions)
<1>0. /\ n \in Nat \ {0} /\ Len(begun) = n /\ begun \in Seq(Graphs) /\ DOMAIN begun = 1 .. n
      /\ transactions \in Seq(Transactions) /\ transactions # <<>> /\ begun # <<>>
      /\ graph \in Graphs /\ gens \in AllGens /\ gens' = gens
      /\ begun' = Front(begun) /\ transactions' = Front(transactions)
      /\ n \in 1 .. n /\ begun[n] \in Graphs
      /\ DOMAIN transactions = 1 .. n
  BY EmptySeq DEF FileInv, FileOK, Rollback
<1>1. graph' = begun[n]
  <2>1. Top \in Transactions /\ OnlyOlder(Top) /\ Undone(Top, graph, begun[n])
    BY <1>0, TopFacts
  <2> QED
    BY <1>0, <2>1, UndoneIsUndo DEF Rollback
<1>2. Generated'
  <2>1. Within(begun[n], graph) /\ Generated
    BY <1>0 DEF FileInv, Nested
  <2>2. /\ Len(graph.names) \in Nat /\ Len(graph.bindings) \in Nat /\ Len(graph.contexts) \in Nat
        /\ Len(begun[n].names) \in Nat /\ Len(begun[n].bindings) \in Nat
        /\ Len(begun[n].contexts) \in Nat
    BY <1>0, Lengths
  <2>3. Len(gens.names) \in Nat /\ Len(gens.bindings) \in Nat /\ Len(gens.contexts) \in Nat
    BY <1>0 DEF AllGens, Gens
  <2> DEFINE h == begun[n]
  <2>4. Len(h.names) <= Len(gens.names) /\ Len(h.bindings) <= Len(gens.bindings)
        /\ Len(h.contexts) <= Len(gens.contexts)
    <3>1. /\ Len(h.names) \in Nat /\ Len(h.bindings) \in Nat /\ Len(h.contexts) \in Nat
          /\ Within(h, graph)
      BY <2>1, <2>2
    <3> HIDE DEF h
    <3>2. /\ Len(h.names) <= Len(graph.names) /\ Len(h.bindings) <= Len(graph.bindings)
          /\ Len(h.contexts) <= Len(graph.contexts)
      BY <3>1 DEF Within
    <3>3. /\ Len(graph.names) <= Len(gens.names) /\ Len(graph.bindings) <= Len(gens.bindings)
          /\ Len(graph.contexts) <= Len(gens.contexts)
      BY <2>1 DEF Generated
    <3>4. \A i, j, k \in Nat : i <= j /\ j <= k => i <= k
      OBVIOUS
    <3> QED
      BY <2>2, <2>3, <3>1, <3>2, <3>3, <3>4
  <2>5. graph' = h /\ gens' = gens
    BY <1>0, <1>1
  <2> HIDE DEF h
  <2> QED
    BY <2>4, <2>5 DEF Generated
<1>3. Sound(graph', gens)
  BY <1>0, <1>1, SMTT(30) DEF FileInv, AllSound
<1>4. /\ transactions' \in Seq(Transactions) /\ Len(transactions') = n - 1
      /\ DOMAIN transactions' = 1 .. n - 1
      /\ \A i \in 1 .. n - 1 : transactions'[i] = transactions[i]
  BY <1>0, FrontFacts, Zenon
<1>5. Len(begun') = n - 1 /\ DOMAIN begun' = 1 .. n - 1
      /\ \A i \in 1 .. n - 1 : begun'[i] = begun[i]
  BY <1>0, FrontFacts, Zenon
<1>6. \A i \in 1 .. n - 1 : i \in 1 .. n /\ i # n /\ i + 1 \in 1 .. n
                            /\ (i # n - 1 => i + 1 \in 1 .. n - 1)
  <2> HIDE DEF n
  <2> QED
    BY <1>0
<1>7. Journalled'
  <2> SUFFICES ASSUME NEW i \in 1 .. n - 1
               PROVE  OnlyOlder(transactions'[i]) /\ Undone(transactions'[i], EndOf(i)', begun'[i])
    BY <1>4, Zenon DEF Journalled
  <2>1. EndOf(i) = begun[i + 1]
    BY <1>0, <1>6, Zenon DEF EndOf
  <2>2. EndOf(i)' = begun[i + 1]
    <3>1. CASE i = n - 1
      <4>1. i + 1 = n
        BY <1>0, <3>1
      <4> QED
        BY <1>1, <1>5, <3>1, <4>1 DEF EndOf
    <3>2. CASE i # n - 1
      <4>1. EndOf(i)' = begun'[i + 1]
        BY <1>5, <3>2 DEF EndOf
      <4> QED
        BY <1>5, <1>6, <3>2, <4>1, Zenon
    <3> QED
      BY <3>1, <3>2
  <2>3. OnlyOlder(transactions[i]) /\ Undone(transactions[i], EndOf(i), begun[i])
    BY <1>0, <1>6, Zenon DEF FileInv, Journalled
  <2> QED
    BY <1>4, <1>5, <2>1, <2>2, <2>3
<1>8. InOrder'
  <2> SUFFICES ASSUME NEW i \in 1 .. n - 1, NEW j \in 1 .. i,
                      NEW c \in DOMAIN transactions'[i].context_mutations
               PROVE  ~Mentions(transactions'[j].deltas, c)
    BY <1>4, Zenon DEF InOrder
  <2>1. j \in 1 .. n - 1
    <3> HIDE DEF n
    <3> QED
      BY <1>0
  <2> QED
    BY <1>0, <1>4, <1>6, <2>1, Zenon DEF FileInv, InOrder
<1>9. \A i \in DOMAIN begun' : Within(begun[i], graph')
  <2>1. \A i \in 1 .. n - 1 : i <= n
    BY <1>0
  <2> QED
    BY <1>0, <1>1, <1>5, <1>6, <2>1, Zenon DEF FileInv, Nested
<1>10. graph' \in Graphs
  BY <1>0, <1>1
<1> QED
  BY <1>0, <1>1, <1>2, <1>3, <1>4, <1>7, <1>8, <1>9, <1>10, EndedInv

(* q has what a has, and of b what is older than size. *)
IsMerged(q, a, b, size) ==
    /\ DOMAIN q = DOMAIN a \cup {k \in DOMAIN b : k <= size}
    /\ \A i \in DOMAIN a : q[i] = a[i]
    /\ \A i \in DOMAIN b : i <= size /\ i \notin DOMAIN a => q[i] = b[i]

\* The first value that was saved for a record stays.
LEMMA MergedMutations ==
    ASSUME NEW W, NEW a \in Journals(Nat, W), NEW b \in Journals(Nat, W), NEW size \in Nat
    PROVE  /\ MergeMutations(a, b, size) \in Journals(Nat, W)
           /\ IsMerged(MergeMutations(a, b, size), a, b, size)
<1> DEFINE q == MergeMutations(a, b, size)
           D == DOMAIN a \cup {k \in DOMAIN b : k <= size}
<1>1. /\ DOMAIN a \subseteq Nat /\ a \in [DOMAIN a -> W]
      /\ DOMAIN b \subseteq Nat /\ b \in [DOMAIN b -> W]
  BY IsJournal
<1>2. q = [i \in D |-> IF i \in DOMAIN a THEN a[i] ELSE b[i]]
  BY DEF MergeMutations
<1> HIDE DEF q
<1>3. q \in [D -> W] /\ DOMAIN q = D /\ D \subseteq Nat
  BY <1>1, <1>2
<1>4. q \in Journals(Nat, W)
  BY <1>3, IsJournal
<1> QED
  BY <1>2, <1>3, <1>4 DEF q, IsMerged

\* The journal of a committed transaction behind that of the one around it.
LEMMA Merged ==
    ASSUME NEW p \in Transactions, NEW t \in Transactions, OnlyOlder(p), OnlyOlder(t),
           NEW g \in Graphs, NEW mid \in Graphs, NEW h \in Graphs,
           Undone(t, g, mid), Undone(p, mid, h),
           \A c \in DOMAIN t.context_mutations : ~Mentions(t.deltas, c)
    PROVE  /\ Merge(p, t) \in Transactions /\ OnlyOlder(Merge(p, t)) /\ Undone(Merge(p, t), g, h)
           /\ DOMAIN Merge(p, t).context_mutations \subseteq
                 DOMAIN p.context_mutations \cup DOMAIN t.context_mutations
           /\ \A c : Mentions(Merge(p, t).deltas, c) =>
                 Mentions(p.deltas, c) \/ c \notin DOMAIN Merge(p, t).context_mutations
<1> DEFINE bm == MergeMutations(p.binding_mutations, t.binding_mutations, p.bindings_size)
           cm == MergeMutations(p.context_mutations, t.context_mutations, p.contexts_size)
           ds == PushDeltas(p, cm, t.deltas)
           fm == [k \in DOMAIN p.fact_mutations \cup DOMAIN t.fact_mutations |->
                     IF k \in DOMAIN p.fact_mutations THEN p.fact_mutations[k]
                     ELSE t.fact_mutations[k]]
           m == Merge(p, t)
           V == Facts \cup {NoFact}
<1>0. /\ p.names_size \in Nat /\ p.bindings_size \in Nat /\ p.contexts_size \in Nat
      /\ t.names_size \in Nat /\ t.bindings_size \in Nat /\ t.contexts_size \in Nat
      /\ p.inserted \subseteq Names /\ t.inserted \subseteq Names
      /\ p.deltas \in Seq(Deltas) /\ t.deltas \in Seq(Deltas)
  BY DEF Transactions
<1>1. /\ p.binding_mutations \in Journals(Nat, Bindings)
      /\ t.binding_mutations \in Journals(Nat, Bindings)
      /\ p.context_mutations \in Journals(Nat, Contexts)
      /\ t.context_mutations \in Journals(Nat, Contexts)
      /\ p.fact_mutations \in Journals(Keys, V) /\ t.fact_mutations \in Journals(Keys, V)
  BY DEF Transactions
<1>2. /\ p.names_size <= t.names_size /\ t.names_size <= Len(g.names)
      /\ p.bindings_size <= t.bindings_size /\ t.bindings_size <= Len(g.bindings)
      /\ p.contexts_size <= t.contexts_size /\ t.contexts_size <= Len(g.contexts)
      /\ Len(h.names) = p.names_size /\ Len(h.bindings) = p.bindings_size
      /\ Len(h.contexts) = p.contexts_size
  BY DEF Undone, NamesBack, BindingsBack, ContextsBack
<1>3. /\ p.names_size <= Len(g.names) /\ p.bindings_size <= Len(g.bindings)
      /\ p.contexts_size <= Len(g.contexts)
      /\ \A i \in 1 .. p.names_size : i \in 1 .. t.names_size
      /\ \A i \in 1 .. p.bindings_size : i \in 1 .. t.bindings_size
      /\ \A i \in 1 .. p.contexts_size : i \in 1 .. t.contexts_size
  <2>0. Len(g.names) \in Nat /\ Len(g.bindings) \in Nat /\ Len(g.contexts) \in Nat
    BY Lengths
  <2> HIDE DEF bm, cm, ds, fm, m, V
  <2>1. p.names_size <= Len(g.names) /\ \A i \in 1 .. p.names_size : i \in 1 .. t.names_size
    BY <1>0, <1>2, <2>0, SMTT(30)
  <2>2. /\ p.bindings_size <= Len(g.bindings)
        /\ \A i \in 1 .. p.bindings_size : i \in 1 .. t.bindings_size
    BY <1>0, <1>2, <2>0, SMTT(30)
  <2>3. /\ p.contexts_size <= Len(g.contexts)
        /\ \A i \in 1 .. p.contexts_size : i \in 1 .. t.contexts_size
    BY <1>0, <1>2, <2>0, SMTT(30)
  <2> QED
    BY <2>1, <2>2, <2>3
<1>5. bm \in Journals(Nat, Bindings)
      /\ IsMerged(bm, p.binding_mutations, t.binding_mutations, p.bindings_size)
  BY <1>0, <1>1, MergedMutations
<1>6. cm \in Journals(Nat, Contexts)
      /\ IsMerged(cm, p.context_mutations, t.context_mutations, p.contexts_size)
  BY <1>0, <1>1, MergedMutations
<1>7. fm \in Journals(Keys, V)
  <2>1. /\ DOMAIN p.fact_mutations \subseteq Keys
        /\ p.fact_mutations \in [DOMAIN p.fact_mutations -> V]
        /\ DOMAIN t.fact_mutations \subseteq Keys
        /\ t.fact_mutations \in [DOMAIN t.fact_mutations -> V]
    <3> HIDE DEF V
    <3> QED
      BY <1>1, IsJournal
  <2> HIDE DEF V
  <2>2. fm \in [DOMAIN fm -> V] /\ DOMAIN fm \subseteq Keys
    BY <2>1
  <2> HIDE DEF fm
  <2> QED
    BY <2>2, IsJournal
<1> HIDE DEF bm, cm
<1>8. ds \in Seq(Deltas) /\ PushedTo(p, cm, t.deltas, ds)
  <2>1. \A i \in DOMAIN t.deltas : t.deltas[i].context \in Nat
    <3>1. \A i \in DOMAIN t.deltas : t.deltas[i] \in Deltas
      BY <1>0
    <3> QED
      BY <3>1 DEF Deltas
  <2> QED
    BY <1>0, <2>1, PushedDeltas
<1> HIDE DEF ds, fm
<1>9. /\ m.names_size = p.names_size /\ m.bindings_size = p.bindings_size
      /\ m.contexts_size = p.contexts_size /\ m.inserted = p.inserted \cup t.inserted
      /\ m.binding_mutations = bm /\ m.context_mutations = cm /\ m.deltas = ds
      /\ m.fact_mutations = fm
      /\ m \in Transactions
  <2>1. m = [p EXCEPT !.inserted = p.inserted \cup t.inserted, !.binding_mutations = bm,
                      !.context_mutations = cm, !.deltas = ds, !.fact_mutations = fm]
    BY DEF Merge, bm, cm, ds, fm
  <2> HIDE DEF m
  <2>2. p.inserted \cup t.inserted \in SUBSET Names
    BY <1>0
  <2> QED
    BY <1>5, <1>6, <1>7, <1>8, <2>1, <2>2 DEF Transactions
<1> HIDE DEF m
<1>10. NamesBack(m, g, h)
  <2>1. \A i \in 1 .. p.names_size : h.names[i] = g.names[i]
    BY <1>3 DEF Undone, NamesBack
  <2>2. \A n \in Names : h.name_index[n] = IF n \in m.inserted THEN NoId ELSE g.name_index[n]
    BY <1>9 DEF Undone, NamesBack
  <2> QED
    BY <1>2, <1>3, <1>9, <2>1, <2>2 DEF NamesBack
<1>11. BindingsBack(m, g, h)
  <2> SUFFICES ASSUME NEW b \in 1 .. p.bindings_size
               PROVE  h.bindings[b] = IF b \in DOMAIN bm THEN bm[b] ELSE g.bindings[b]
    BY <1>2, <1>3, <1>9 DEF BindingsBack
  <2>1. h.bindings[b] = IF b \in DOMAIN p.binding_mutations
                        THEN p.binding_mutations[b] ELSE mid.bindings[b]
    BY DEF Undone, BindingsBack
  <2>2. mid.bindings[b] = IF b \in DOMAIN t.binding_mutations
                          THEN t.binding_mutations[b] ELSE g.bindings[b]
    BY <1>3 DEF Undone, BindingsBack
  <2>3. b <= p.bindings_size
    BY <1>0
  <2> QED
    BY <1>5, <2>1, <2>2, <2>3 DEF IsMerged
<1>12. ContextsBack(m, g, h)
  <2> SUFFICES ASSUME NEW c \in 1 .. p.contexts_size
               PROVE  h.contexts[c] =
                         UndoDeltas(c, IF c \in DOMAIN cm THEN cm[c] ELSE g.contexts[c], ds)
    BY <1>2, <1>3, <1>9 DEF ContextsBack
  <2>0. c <= p.contexts_size /\ c \in Nat
    BY <1>0
  <2>1. h.contexts[c] = UndoDeltas(c, IF c \in DOMAIN p.context_mutations
                                      THEN p.context_mutations[c] ELSE mid.contexts[c], p.deltas)
    BY DEF Undone, ContextsBack
  <2>2. mid.contexts[c] = UndoDeltas(c, IF c \in DOMAIN t.context_mutations
                                        THEN t.context_mutations[c] ELSE g.contexts[c], t.deltas)
    BY <1>3 DEF Undone, ContextsBack
  <2>3. CASE c \in DOMAIN p.context_mutations
    <3>1. c \in DOMAIN cm /\ cm[c] = p.context_mutations[c]
      BY <1>6, <2>3 DEF IsMerged
    <3> QED
      BY <1>8, <2>0, <2>1, <2>3, <3>1 DEF PushedTo
  <2>4. CASE c \notin DOMAIN p.context_mutations /\ c \in DOMAIN t.context_mutations
    <3>1. c \in DOMAIN cm /\ cm[c] = t.context_mutations[c]
      BY <1>6, <2>0, <2>4 DEF IsMerged
    <3>2. mid.contexts[c] = t.context_mutations[c]
      <4>1. ~Mentions(t.deltas, c) /\ Len(t.deltas) \in Nat /\ DOMAIN t.deltas = 1 .. Len(t.deltas)
        BY <1>0, <2>4
      <4> DEFINE x == t.context_mutations[c]
      <4>2. UndoDeltas(c, x, t.deltas) = x
        <5> HIDE DEF x
        <5> QED
          BY <4>1, UndoOthers
      <4> QED
        BY <2>2, <2>4, <4>2
    <3> QED
      BY <1>8, <2>0, <2>1, <2>4, <3>1, <3>2 DEF PushedTo
  <2>5. CASE c \notin DOMAIN p.context_mutations /\ c \notin DOMAIN t.context_mutations
    <3>1. c \notin DOMAIN cm
      BY <1>6, <2>5 DEF IsMerged
    <3> QED
      BY <1>8, <2>0, <2>1, <2>2, <2>5, <3>1 DEF PushedTo
  <2> QED
    BY <2>3, <2>4, <2>5
<1>13. FactsBack(m, g, h)
  <2> SUFFICES ASSUME NEW k \in Keys
               PROVE  h.facts[k] = IF k \in DOMAIN fm THEN fm[k] ELSE g.facts[k]
    BY <1>9 DEF FactsBack
  <2>1. /\ h.facts[k] = IF k \in DOMAIN p.fact_mutations
                        THEN p.fact_mutations[k] ELSE mid.facts[k]
        /\ mid.facts[k] = IF k \in DOMAIN t.fact_mutations
                          THEN t.fact_mutations[k] ELSE g.facts[k]
    BY DEF Undone, FactsBack
  <2>2. DOMAIN fm = DOMAIN p.fact_mutations \cup DOMAIN t.fact_mutations
        /\ \A i \in DOMAIN fm : fm[i] = IF i \in DOMAIN p.fact_mutations THEN p.fact_mutations[i]
                                       ELSE t.fact_mutations[i]
    BY DEF fm
  <2> QED
    BY <2>1, <2>2
<1>14. OnlyOlder(m)
  <2>1. DOMAIN bm \subseteq 1 .. p.bindings_size
    <3>1. \A k \in DOMAIN t.binding_mutations : k <= p.bindings_size => k \in 1 .. p.bindings_size
      BY <1>0 DEF OnlyOlder
    <3> QED
      BY <1>5, <3>1 DEF OnlyOlder, IsMerged
  <2>2. DOMAIN cm \subseteq 1 .. p.contexts_size
    <3>1. \A k \in DOMAIN t.context_mutations : k <= p.contexts_size => k \in 1 .. p.contexts_size
      BY <1>0 DEF OnlyOlder
    <3> QED
      BY <1>6, <3>1 DEF OnlyOlder, IsMerged
  <2>3. \A c : Mentions(ds, c) => c \in 1 .. p.contexts_size
    <3>1. \A c : Mentions(t.deltas, c) /\ c <= p.contexts_size => c \in 1 .. p.contexts_size
      BY <1>0 DEF OnlyOlder
    <3> QED
      BY <1>8, <3>1 DEF OnlyOlder, PushedTo
  <2> QED
    BY <1>9, <2>1, <2>2, <2>3 DEF OnlyOlder
<1>15. DOMAIN cm \subseteq DOMAIN p.context_mutations \cup DOMAIN t.context_mutations
  BY <1>6 DEF IsMerged
<1> QED
  BY <1>8, <1>9, <1>10, <1>11, <1>12, <1>13, <1>14, <1>15 DEF Undone, m, PushedTo

\* commit_transaction: the one around it can undo what was done in both.
LEMMA CommitInv == FileInv /\ Commit => FileInv'
<1> SUFFICES ASSUME FileInv, Commit PROVE FileInv'
  OBVIOUS
<1> DEFINE n == Len(transactions)
           outer == Front(transactions)
           k == n - 1
<1>0. /\ n \in Nat \ {0} /\ Len(begun) = n /\ begun \in Seq(Graphs) /\ DOMAIN begun = 1 .. n
      /\ transactions \in Seq(Transactions) /\ transactions # <<>> /\ begun # <<>>
      /\ graph \in Graphs /\ gens \in AllGens /\ Generated /\ gens' = gens /\ graph' = graph
      /\ begun' = Front(begun)
      /\ DOMAIN transactions = 1 .. n
      /\ Sound(graph, gens)
  BY EmptySeq, SMTT(30) DEF FileInv, FileOK, Commit, AllSound
<1>1. outer \in Seq(Transactions) /\ Len(outer) = k /\ DOMAIN outer = 1 .. k
      /\ \A i \in 1 .. k : outer[i] = transactions[i]
  BY <1>0, FrontFacts, Zenon
<1>2. Len(begun') = k /\ DOMAIN begun' = 1 .. k /\ \A i \in 1 .. k : begun'[i] = begun[i]
  BY <1>0, FrontFacts, Zenon
<1>3. k \in Nat /\ \A i \in 1 .. k : i \in 1 .. n /\ i # n /\ i + 1 \in 1 .. n
                                     /\ (i # k => i + 1 \in 1 .. k)
  <2> HIDE DEF n
  <2> QED
    BY <1>0
<1>4. \A i \in DOMAIN begun' : Within(begun[i], graph')
  BY <1>0, <1>2, <1>3, Zenon DEF FileInv, Nested
<1>5. Generated'
  BY <1>0 DEF Generated
<1>6. CASE outer = <<>>
  <2>1. transactions' = <<>> /\ k = 0
    BY <1>1, <1>6 DEF Commit
  <2>2. transactions' \in Seq(Transactions) /\ Len(transactions') = k
    BY <2>1, EmptySeq
  <2>3. Journalled' /\ InOrder'
    BY <2>1 DEF Journalled, InOrder
  <2> QED
    BY <1>0, <1>4, <1>5, <2>2, <2>3, EndedInv
<1>7. CASE outer # <<>>
  <2> DEFINE p == transactions[k]
             t == transactions[n]
             m == Merge(p, t)
             u == [outer EXCEPT ![k] = m]
  <2>1. k \in 1 .. k /\ k \in 1 .. n /\ n \in 1 .. n /\ k + 1 = n
    <3>1. k # 0
      BY <1>1, <1>7, EmptySeq
    <3> HIDE DEF n
    <3> QED
      BY <1>0, <1>3, <3>1
  <2>2. transactions' = u
    <3>1. Top = t /\ Last(outer) = p /\ Len(outer) = k
      BY <1>1, <2>1 DEF Top, Last
    <3>2. transactions' = [outer EXCEPT ![Len(outer)] = Merge(Last(outer), Top)]
      BY <1>7 DEF Commit
    <3> QED
      BY <3>1, <3>2
  <2>3. /\ p \in Transactions /\ t \in Transactions
        /\ begun[k] \in Graphs /\ begun[n] \in Graphs
    BY <1>0, <2>1
  <2>4. OnlyOlder(p) /\ Undone(p, begun[n], begun[k])
    <3>1. EndOf(k) = begun[n]
      <4>1. k # n
        BY <1>3, <2>1, Zenon
      <4> HIDE DEF k, n
      <4> QED
        BY <1>0, <2>1, <4>1, Zenon DEF EndOf
    <3> QED
      BY <1>0, <2>1, <3>1 DEF FileInv, Journalled
  <2>5. OnlyOlder(t) /\ Undone(t, graph, begun[n])
    <3>1. EndOf(n) = graph
      BY <1>0 DEF EndOf
    <3> QED
      BY <1>0, <2>1, <3>1 DEF FileInv, Journalled
  <2>6. \A i \in 1 .. n : \A j \in 1 .. i : \A c \in DOMAIN transactions[i].context_mutations :
            ~Mentions(transactions[j].deltas, c)
    BY <1>0 DEF FileInv, InOrder
  <2>7. \A c \in DOMAIN t.context_mutations : ~Mentions(t.deltas, c)
    BY <2>1, <2>6
  <2>8. /\ m \in Transactions /\ OnlyOlder(m) /\ Undone(m, graph, begun[k])
        /\ DOMAIN m.context_mutations \subseteq
              DOMAIN p.context_mutations \cup DOMAIN t.context_mutations
        /\ \A c : Mentions(m.deltas, c) =>
              Mentions(p.deltas, c) \/ c \notin DOMAIN m.context_mutations
    <3> DEFINE mid == begun[n]
               h == begun[k]
    <3>1. /\ mid \in Graphs /\ h \in Graphs /\ graph \in Graphs
          /\ Undone(t, graph, mid) /\ Undone(p, mid, h)
          /\ p \in Transactions /\ t \in Transactions /\ OnlyOlder(p) /\ OnlyOlder(t)
      BY <1>0, <2>3, <2>4, <2>5
    <3> HIDE DEF mid, p, t
    <3>2. Undone(m, graph, h) /\ m \in Transactions /\ OnlyOlder(m)
          /\ DOMAIN m.context_mutations \subseteq
                DOMAIN p.context_mutations \cup DOMAIN t.context_mutations
          /\ \A c : Mentions(m.deltas, c) =>
                Mentions(p.deltas, c) \/ c \notin DOMAIN m.context_mutations
      <4> HIDE DEF h
      <4> QED
        BY <2>7, <3>1, Merged
    <3> QED
      BY <3>2
  <2> HIDE DEF m
  <2>9. /\ u \in Seq(Transactions) /\ Len(u) = k /\ DOMAIN u = 1 .. k
        /\ \A i \in 1 .. k : u[i] = IF i = k THEN m ELSE transactions[i]
    <3>1. /\ u \in Seq(Transactions) /\ Len(u) = Len(outer)
          /\ \A i \in 1 .. Len(outer) : u[i] = IF i = k THEN m ELSE outer[i]
      <4>1. outer \in Seq(Transactions) /\ k \in 1 .. Len(outer) /\ m \in Transactions
        BY <1>1, <2>1, <2>8
      <4> HIDE DEF outer, k
      <4> QED
        BY <4>1, ExceptSeq
    <3>2. DOMAIN u = 1 .. k
      BY <1>1
    <3> QED
      BY <1>1, <3>1, <3>2
  <2> HIDE DEF u
  <2>10. Journalled'
    <3> SUFFICES ASSUME NEW i \in 1 .. k
                 PROVE  OnlyOlder(u[i]) /\ Undone(u[i], EndOf(i)', begun'[i])
      BY <2>2, <2>9 DEF Journalled
    <3>1. CASE i = k
      <4>1. EndOf(i)' = graph
        BY <1>0, <1>2, <3>1 DEF EndOf
      <4> QED
        BY <1>2, <2>1, <2>8, <2>9, <3>1, <4>1
    <3>2. CASE i # k
      <4>1. EndOf(i)' = begun'[i + 1]
        BY <1>2, <3>2 DEF EndOf
      <4>2. begun'[i + 1] = begun[i + 1]
        BY <1>2, <1>3, <3>2, Zenon
      <4>3. EndOf(i) = begun[i + 1]
        BY <1>0, <1>3, Zenon DEF EndOf
      <4>4. OnlyOlder(transactions[i]) /\ Undone(transactions[i], EndOf(i), begun[i])
        BY <1>0, <1>3, Zenon DEF FileInv, Journalled
      <4> QED
        BY <1>2, <2>9, <3>2, <4>1, <4>2, <4>3, <4>4
    <3> QED
      BY <3>1, <3>2
  <2>11. InOrder'
    <3> SUFFICES ASSUME NEW i \in 1 .. k, NEW j \in 1 .. i,
                        NEW c \in DOMAIN u[i].context_mutations
                 PROVE  ~Mentions(u[j].deltas, c)
      BY <2>2, <2>9 DEF InOrder
    <3>0. j \in 1 .. k /\ (i # k => j # k) /\ j \in 1 .. n
      <4> HIDE DEF k, n
      <4>1. j \in 1 .. k /\ (i # k => j # k)
        BY <1>3
      <4> QED
        BY <1>3, <4>1
    <3>1. CASE i # k
      <4>1. u[i] = transactions[i] /\ u[j] = transactions[j]
        BY <2>9, <3>0, <3>1
      <4> QED
        BY <1>3, <2>6, <4>1
    <3>2. CASE i = k
      <4>1. c \in DOMAIN m.context_mutations
        BY <2>9, <3>2
      <4>2. c \in DOMAIN p.context_mutations \/ c \in DOMAIN t.context_mutations
        BY <2>8, <4>1
      <4>3. j \in 1 .. n /\ j \in 1 .. k /\ i \in 1 .. n
        BY <1>3, <3>0
      <4>4. ~Mentions(transactions[j].deltas, c)
        BY <2>1, <2>6, <4>2, <4>3
      <4>5. CASE j = k
        <5>1. u[j] = m
          BY <2>9, <3>0, <4>5
        <5> QED
          BY <2>8, <4>1, <4>4, <4>5, <5>1
      <4>6. CASE j # k
        BY <2>9, <3>0, <4>4, <4>6
      <4> QED
        BY <4>5, <4>6
    <3> QED
      BY <3>1, <3>2
  <2>12. transactions' \in Seq(Transactions) /\ Len(transactions') = k
    BY <2>2, <2>9
  <2> QED
    BY <1>0, <1>4, <1>5, <2>10, <2>11, <2>12, EndedInv
<1> QED
  BY <1>6, <1>7

-----------------------------------------------------------------------------
(* What the session remembers.                                             *)

\* Whether an id is of a record of an older graph does not change while the tables
\* grow.
LEMMA HoldsSame ==
    ASSUME NEW f \in Graphs, NEW g \in Graphs, NEW d, NEW e, Within(f, g), Agree(g, d, e), NEW id
    PROVE  Holds(f, e, id) <=> Holds(f, d, id)
<1>1. Agree(f, d, e)
  BY AgreeWithin
<1> QED
  BY <1>1, ValidSame DEF Holds, Agree

\* The graph in which guard k was made.
LEMMA BaseFacts ==
    ASSUME FileInv, SessionOK, NEW k \in DOMAIN snapshots
    PROVE  /\ snapshots[k].file_transaction \in 1 .. Len(begun)
           /\ Base(k) \in Graphs /\ Within(Base(k), graph)
<1>1. /\ snapshots[k].file_transaction \in 1 .. Len(begun) /\ begun \in Seq(Graphs)
      /\ DOMAIN begun = 1 .. Len(begun)
  BY DEF SessionOK, FileInv, FileOK
<1> QED
  BY <1>1 DEF Base, FileInv, Nested

\* A step that leaves the guards alone.
LEMMA SessionStays ==
    ASSUME SessionInv, memo' = memo, snapshots' = snapshots, recalled' = recalled,
           leaked \subseteq leaked', leaked' \subseteq Names,
           \A k \in DOMAIN snapshots :
              /\ snapshots[k].file_transaction \in 1 .. Len(transactions')
              /\ begun'[snapshots[k].file_transaction] = Base(k)
              /\ \A id : Holds(Base(k), gens', id) <=> Holds(Base(k), gens, id),
           \A n \in Names : memo[n] # NoId /\ n \notin leaked' => Holds(graph', gens', memo[n])
    PROVE  SessionInv'
<1>1. SessionOK'
  BY DEF SessionInv, SessionOK
<1>2. \A k \in DOMAIN snapshots : Base(k)' = Base(k)
  BY DEF Base
<1>3. \A k, n : Tracked(k, n)' <=> Tracked(k, n)
  BY DEF Tracked
<1>4. MemosLive'
  <2> SUFFICES ASSUME NEW n \in Names, memo[n] # NoId, n \notin leaked',
                      NEW k \in DOMAIN snapshots, ~Holds(Base(k), gens', memo[n])
               PROVE  Tracked(k, n)
    BY <1>2, <1>3 DEF MemosLive
  <2>1. n \notin leaked /\ ~Holds(Base(k), gens, memo[n])
    OBVIOUS
  <2> QED
    BY <2>1 DEF SessionInv, MemosLive
<1>5. MemosKept'
  <2> SUFFICES ASSUME NEW k \in DOMAIN snapshots, NEW n \in Names
               PROVE  IF recalled[k][n] # NoId
                      THEN /\ memo[n] = recalled[k][n] /\ Holds(Base(k), gens', memo[n])
                           /\ \A l \in k .. Len(snapshots) :
                                 \A a \in Range(snapshots[l].memo_rollbacks) : a.name # n
                      ELSE Holds(Base(k), gens', memo[n]) => Tracked(k, n)
    BY <1>2, <1>3 DEF MemosKept
  <2>1. IF recalled[k][n] # NoId
        THEN /\ memo[n] = recalled[k][n] /\ Holds(Base(k), gens, memo[n])
             /\ \A l \in k .. Len(snapshots) :
                   \A a \in Range(snapshots[l].memo_rollbacks) : a.name # n
        ELSE Holds(Base(k), gens, memo[n]) => Tracked(k, n)
    BY DEF SessionInv, MemosKept
  <2> QED
    BY <2>1
<1> QED
  BY <1>1, <1>4, <1>5 DEF SessionInv

\* An operation on the graph, or a later declaration with C linkage.
LEMMA SteppedSession ==
    ASSUME FileInv, SessionInv, Stepped, UNCHANGED sessionVars
    PROVE  SessionInv'
<1>0. /\ graph \in Graphs /\ graph' \in Graphs /\ begun' = begun
      /\ Within(graph, graph') /\ Agree(graph, gens, gens')
      /\ memo' = memo /\ snapshots' = snapshots /\ recalled' = recalled /\ leaked' = leaked
      /\ SessionOK
  BY DEF FileInv, FileOK, Stepped, SessionInv, sessionVars
<1>1. Len(transactions') = Len(transactions)
  <2>1. FileInv'
    BY SteppedInv
  <2> QED
    BY <1>0, <2>1 DEF FileInv, FileOK
<1>2. ASSUME NEW k \in DOMAIN snapshots
      PROVE  /\ snapshots[k].file_transaction \in 1 .. Len(transactions')
             /\ begun'[snapshots[k].file_transaction] = Base(k)
             /\ \A id : Holds(Base(k), gens', id) <=> Holds(Base(k), gens, id)
  <2>1. Base(k) \in Graphs /\ Within(Base(k), graph)
    BY <1>0, BaseFacts
  <2>2. \A id : Holds(Base(k), gens', id) <=> Holds(Base(k), gens, id)
    BY <1>0, <2>1, HoldsSame
  <2>3. snapshots[k].file_transaction \in 1 .. Len(transactions')
    BY <1>0, <1>1 DEF SessionOK
  <2> QED
    BY <1>0, <2>2, <2>3 DEF Base
<1>3. \A n \in Names : memo[n] # NoId /\ n \notin leaked' => Holds(graph', gens', memo[n])
  <2>1. /\ Len(graph.bindings) \in Nat /\ Len(graph'.bindings) \in Nat
        /\ Len(graph.bindings) <= Len(graph'.bindings)
        /\ \A i \in 1 .. Len(graph.bindings) : gens'.bindings[i] = gens.bindings[i]
    BY <1>0, Lengths DEF Within, Agree
  <2>2. \A id : Holds(graph, gens, id) => Holds(graph', gens', id)
    BY <2>1, ValidGrows DEF Holds
  <2> QED
    BY <1>0, <2>2 DEF SessionInv, MemosLive
<1>4. leaked \subseteq leaked' /\ leaked' \subseteq Names
  BY <1>0 DEF SessionOK
<1> QED
  BY <1>0, <1>2, <1>3, <1>4, SessionStays

\* Which transactions the guards have that stay when the innermost one ends.
LEMMA GuardDepth ==
    ASSUME FileInv, SessionOK, transactions # <<>>, NEW k \in DOMAIN snapshots,
           Guarded => k # Len(snapshots)
    PROVE  snapshots[k].file_transaction \in 1 .. Len(transactions) - 1
<1> DEFINE K == Len(snapshots)
           n == Len(transactions)
<1>0. K \in Nat /\ DOMAIN snapshots = 1 .. K /\ n \in Nat
  BY DEF SessionOK, FileInv, FileOK
<1>1. /\ K \in Nat /\ DOMAIN snapshots = 1 .. K /\ n \in Nat
      /\ snapshots[k].file_transaction \in 1 .. n
      /\ \A i, j \in 1 .. K : i < j => snapshots[i].file_transaction < snapshots[j].file_transaction
      /\ \A i \in 1 .. K : snapshots[i].file_transaction \in 1 .. n
  BY <1>0 DEF SessionOK
<1>2. K \in 1 .. K /\ snapshots # <<>> /\ Last(snapshots) = snapshots[K]
  BY <1>1 DEF Last
<1>3. snapshots[k].file_transaction # n
  <2>1. CASE k = K
    BY <1>2, <2>1 DEF Guarded
  <2>2. CASE k # K
    <3>1. k < K /\ k \in 1 .. K
      BY <1>1, <2>2
    <3>2. snapshots[k].file_transaction < snapshots[K].file_transaction
      BY <1>1, <1>2, <3>1
    <3>3. snapshots[K].file_transaction \in 1 .. n
      BY <1>1, <1>2
    <3> HIDE DEF K, n
    <3> QED
      BY <1>1, <3>2, <3>3
  <2> QED
    BY <2>1, <2>2
<1> HIDE DEF n
<1> QED
  BY <1>1, <1>3 DEF n

\* A transaction that begins or ends leaves the graphs alone in which the guards
\* that stay were made.
LEMMA BaseStays ==
    ASSUME FileInv, SessionOK,
           \/ begun' = Append(begun, graph) /\ Len(transactions') = Len(transactions) + 1
           \/ begun' = Front(begun) /\ transactions # <<>>
              /\ Len(transactions') = Len(transactions) - 1,
           NEW k \in DOMAIN snapshots,
           begun' = Append(begun, graph) \/ (Guarded => k # Len(snapshots))
    PROVE  /\ snapshots[k].file_transaction \in 1 .. Len(transactions')
           /\ begun'[snapshots[k].file_transaction] = Base(k)
<1> DEFINE n == Len(transactions)
           f == snapshots[k].file_transaction
<1>0. begun \in Seq(Graphs) /\ graph \in Graphs /\ Len(begun) = n /\ n \in Nat
      /\ f \in 1 .. n /\ transactions \in Seq(Transactions)
  BY DEF FileInv, FileOK, SessionOK
<1>1. Len(Append(begun, graph)) = n + 1 /\ \A i \in 1 .. n : Append(begun, graph)[i] = begun[i]
  BY <1>0, AppendProperties
<1>2. CASE begun' = Append(begun, graph) /\ Len(transactions') = n + 1
  <2> HIDE DEF n, f
  <2>1. f \in 1 .. n + 1
    BY <1>0
  <2> QED
    BY <1>0, <1>1, <1>2, <2>1 DEF Base, f
<1>3. CASE begun' = Front(begun) /\ transactions # <<>> /\ Len(transactions') = n - 1
  <2>1. begun # <<>>
    BY <1>0, <1>3, EmptySeq
  <2>2. Len(begun') = n - 1 /\ \A i \in 1 .. n - 1 : begun'[i] = begun[i]
    BY <1>0, <1>3, <2>1, FrontFacts
  <2>3. begun' # Append(begun, graph)
    BY <1>0, <1>1, <2>2
  <2>4. f \in 1 .. n - 1
    BY <1>3, <2>3, GuardDepth
  <2> QED
    BY <1>3, <2>2, <2>4 DEF Base
<1> QED
  BY <1>2, <1>3

\* A transaction without a guard that begins, commits or is rolled back.
LEMMA TrialSession ==
    ASSUME FileInv, SessionInv, BeginTrial \/ CommitTrial \/ RollbackTrial
    PROVE  SessionInv'
<1>0. /\ memo' = memo /\ snapshots' = snapshots /\ recalled' = recalled /\ gens' = gens
      /\ SessionOK /\ transactions \in Seq(Transactions)
  BY DEF SessionInv, FileInv, FileOK, BeginTrial, CommitTrial, RollbackTrial, sessionVars,
         Begin, Commit, Rollback
<1>1. \/ begun' = Append(begun, graph) /\ Len(transactions') = Len(transactions) + 1
      \/ /\ begun' = Front(begun) /\ transactions # <<>>
         /\ Len(transactions') = Len(transactions) - 1 /\ ~Guarded
  <2>1. CASE BeginTrial
    <3>1. begun' = Append(begun, graph) /\ FileInv'
      BY <2>1, BeginInv DEF BeginTrial, Begin
    <3>2. Len(begun') = Len(begun) + 1
      BY <3>1, AppendProperties DEF FileInv, FileOK
    <3> QED
      BY <3>1, <3>2 DEF FileInv, FileOK
  <2>2. CASE CommitTrial \/ RollbackTrial
    <3>1. begun' = Front(begun) /\ FileInv' /\ transactions # <<>> /\ ~Guarded
      BY <2>2, CommitInv, RollbackInv DEF CommitTrial, RollbackTrial, Commit, Rollback
    <3>2. begun # <<>> /\ begun \in Seq(Graphs)
      BY <3>1, EmptySeq DEF FileInv, FileOK
    <3>3. Len(begun') = Len(begun) - 1
      BY <3>1, <3>2, FrontFacts
    <3> QED
      BY <3>1, <3>3 DEF FileInv, FileOK
  <2> QED
    BY <2>1, <2>2
<1>2. \A k \in DOMAIN snapshots :
         /\ snapshots[k].file_transaction \in 1 .. Len(transactions')
         /\ begun'[snapshots[k].file_transaction] = Base(k)
  BY <1>0, <1>1, BaseStays
<1>3. leaked \subseteq leaked' /\ leaked' \subseteq Names
  BY <1>0 DEF BeginTrial, CommitTrial, RollbackTrial, sessionVars, SessionOK, Stale
<1>4. \A n \in Names : memo[n] # NoId /\ n \notin leaked' => Holds(graph', gens', memo[n])
  <2>1. CASE BeginTrial \/ CommitTrial
    <3>1. graph' = graph /\ leaked' = leaked
      BY <2>1 DEF BeginTrial, CommitTrial, sessionVars, Begin, Commit
    <3> QED
      BY <1>0, <3>1 DEF SessionInv, MemosLive
  <2>2. CASE RollbackTrial
    BY <1>0, <2>2 DEF RollbackTrial, Stale, Holds
  <2> QED
    BY <2>1, <2>2
<1> QED
  BY <1>0, <1>2, <1>3, <1>4, SessionStays

\* What is in a sequence to which something is appended.
LEMMA RangeAppend ==
    ASSUME NEW S, NEW s \in Seq(S), NEW e \in S
    PROVE  Range(Append(s, e)) = Range(s) \cup {e}
<1>1. /\ Len(Append(s, e)) = Len(s) + 1 /\ Append(s, e)[Len(s) + 1] = e
      /\ \A i \in 1 .. Len(s) : Append(s, e)[i] = s[i]
      /\ DOMAIN Append(s, e) = 1 .. Len(s) + 1 /\ DOMAIN s = 1 .. Len(s) /\ Len(s) \in Nat
  BY AppendProperties
<1>2. \A i \in 1 .. Len(s) + 1 : i = Len(s) + 1 \/ i \in 1 .. Len(s)
  BY <1>1
<1>3. (\A i \in 1 .. Len(s) : i \in 1 .. Len(s) + 1) /\ Len(s) + 1 \in 1 .. Len(s) + 1
  BY <1>1
<1> QED
  BY <1>1, <1>2, <1>3 DEF Range

\* What is in two sequences one behind the other.
LEMMA RangeConcat ==
    ASSUME NEW S, NEW s \in Seq(S), NEW t \in Seq(S)
    PROVE  Range(s \o t) = Range(s) \cup Range(t)
<1> DEFINE m == Len(s)
           n == Len(t)
           r == s \o t
<1>1. /\ DOMAIN r = 1 .. m + n /\ DOMAIN s = 1 .. m /\ DOMAIN t = 1 .. n
      /\ m \in Nat /\ n \in Nat
      /\ \A i \in 1 .. m + n : r[i] = IF i <= m THEN s[i] ELSE t[i - m]
  BY ConcatProperties
<1> HIDE DEF m, n, r
<1>2. \A i \in 1 .. m + n : i \in 1 .. m \/ (~(i <= m) /\ i - m \in 1 .. n)
  BY <1>1
<1>3. \A i \in 1 .. m : i \in 1 .. m + n /\ i <= m
  BY <1>1
<1>4. \A i \in 1 .. n : i + m \in 1 .. m + n /\ ~(i + m <= m) /\ (i + m) - m = i
  BY <1>1
<1>5. \A i \in 1 .. m + n : r[i] \in Range(s) \cup Range(t)
  <2> SUFFICES ASSUME NEW i \in 1 .. m + n PROVE r[i] \in Range(s) \cup Range(t)
    OBVIOUS
  <2>1. CASE i \in 1 .. m
    <3>1. r[i] = s[i]
      BY <1>1, <1>3, <2>1
    <3> QED
      BY <1>1, <2>1, <3>1 DEF Range
  <2>2. CASE ~(i <= m) /\ i - m \in 1 .. n
    <3>1. r[i] = t[i - m]
      BY <1>1, <2>2
    <3> QED
      BY <1>1, <2>2, <3>1 DEF Range
  <2> QED
    BY <1>2, <2>1, <2>2
<1>6. \A i \in 1 .. m : s[i] \in Range(r)
  BY <1>1, <1>3 DEF Range
<1>7. \A i \in 1 .. n : t[i] \in Range(r)
  <2> SUFFICES ASSUME NEW i \in 1 .. n PROVE t[i] \in Range(r)
    OBVIOUS
  <2>1. r[i + m] = t[i]
    BY <1>1, <1>4
  <2> QED
    BY <1>1, <1>4, <2>1 DEF Range
<1>8. Range(r) = Range(s) \cup Range(t)
  BY <1>1, <1>5, <1>6, <1>7 DEF Range
<1> QED
  BY <1>8 DEF r

\* The types of the guards.
LEMMA GuardTypes ==
    ASSUME SessionOK
    PROVE  /\ Len(snapshots) \in Nat /\ DOMAIN snapshots = 1 .. Len(snapshots)
           /\ \A l \in 1 .. Len(snapshots) :
                 /\ snapshots[l] \in Guards
                 /\ snapshots[l].memo_rollbacks \in Seq([name : Names, entity : Ids])
                 /\ snapshots[l].file_transaction \in Nat
           /\ Len(recalled) = Len(snapshots) /\ recalled \in Seq([Names -> MaybeId])
           /\ snapshots \in Seq(Guards)
<1>1. /\ Len(snapshots) \in Nat /\ DOMAIN snapshots = 1 .. Len(snapshots)
      /\ \A l \in 1 .. Len(snapshots) : snapshots[l] \in Guards
  BY DEF SessionOK
<1>2. \A s \in Guards : /\ s.memo_rollbacks \in Seq([name : Names, entity : Ids])
                        /\ s.file_transaction \in Nat
  BY DEF Guards
<1> QED
  BY <1>1, <1>2 DEF SessionOK

\* The first declaration with C linkage: the innermost guard tracks it.
LEMMA TrackSession ==
    ASSUME FileInv, SessionInv, NEW n \in Names, memo[n] = NoId,
           NEW id \in Ids, Holds(graph, gens, id), id # NoId,
           memo' = [memo EXCEPT ![n] = id], snapshots' = Track(n, id),
           graph' = graph, gens' = gens, begun' = begun, recalled' = recalled, leaked' = leaked,
           Len(transactions') = Len(transactions)
    PROVE  SessionInv'
<1> DEFINE K == Len(snapshots)
           e == [name |-> n, entity |-> id]
           E == [name : Names, entity : Ids]
           rb(l) == snapshots[l].memo_rollbacks
<1>0. /\ SessionOK /\ K \in Nat /\ DOMAIN snapshots = 1 .. K /\ snapshots \in Seq(Guards)
      /\ \A l \in 1 .. K : snapshots[l] \in Guards /\ rb(l) \in Seq(E)
      /\ memo \in [Names -> MaybeId] /\ e \in E
  BY GuardTypes DEF SessionInv, SessionOK
<1>1. /\ snapshots' \in Seq(Guards) /\ Len(snapshots') = K /\ DOMAIN snapshots' = 1 .. K
      /\ \A l \in 1 .. K :
            /\ snapshots'[l].file_transaction = snapshots[l].file_transaction
            /\ Range(snapshots'[l].memo_rollbacks) =
                  IF l = K THEN Range(rb(l)) \cup {e} ELSE Range(rb(l))
  <2>1. CASE snapshots = <<>>
    BY <1>0, <2>1, EmptySeq DEF Track
  <2>2. CASE snapshots # <<>>
    <3>1. K \in 1 .. K
      BY <1>0, <2>2, EmptySeq
    <3> DEFINE a == Append(rb(K), e)
               w == [snapshots[K] EXCEPT !.memo_rollbacks = a]
               s == [snapshots EXCEPT ![K] = w]
    <3>2. snapshots' = s
      BY <2>2 DEF Track
    <3>3. a \in Seq(E) /\ Range(a) = Range(rb(K)) \cup {e}
      <4>1. rb(K) \in Seq(E)
        BY <1>0, <3>1
      <4> HIDE DEF rb, K, e, E
      <4> QED
        BY <1>0, <4>1, RangeAppend, AppendProperties
    <3> HIDE DEF a
    <3>4. w \in Guards /\ w.memo_rollbacks = a /\ w.file_transaction = snapshots[K].file_transaction
      BY <1>0, <3>1, <3>3 DEF Guards
    <3> HIDE DEF w
    <3>5. /\ s \in Seq(Guards) /\ Len(s) = Len(snapshots)
          /\ \A j \in 1 .. Len(snapshots) : s[j] = IF j = K THEN w ELSE snapshots[j]
      BY <1>0, <3>1, <3>4, ExceptSeq
    <3>6. DOMAIN s = 1 .. K
      BY <1>0
    <3> HIDE DEF s, e
    <3>7. \A l \in 1 .. K :
            /\ s[l].file_transaction = snapshots[l].file_transaction
            /\ Range(s[l].memo_rollbacks) =
                  IF l = K THEN Range(rb(l)) \cup {e} ELSE Range(rb(l))
      <4> SUFFICES ASSUME NEW l \in 1 .. K
                   PROVE  /\ s[l].file_transaction = snapshots[l].file_transaction
                          /\ Range(s[l].memo_rollbacks) =
                                IF l = K THEN Range(rb(l)) \cup {e} ELSE Range(rb(l))
        OBVIOUS
      <4>1. CASE l = K
        BY <3>3, <3>4, <3>5, <4>1
      <4>2. CASE l # K
        BY <3>5, <4>2
      <4> QED
        BY <4>1, <4>2
    <3> HIDE DEF rb
    <3> QED
      BY <3>2, <3>5, <3>6, <3>7, Zenon
  <2> QED
    BY <2>1, <2>2
<1>2. memo' \in [Names -> MaybeId] /\ memo'[n] = id /\ \A m \in Names : m # n => memo'[m] = memo[m]
  BY <1>0 DEF MaybeId
<1> HIDE DEF e
<1>3. SessionOK'
  <2>1. \A k \in 1 .. K : snapshots'[k].file_transaction \in 1 .. Len(transactions')
    BY <1>0, <1>1 DEF SessionOK
  <2>2. \A k, l \in 1 .. K :
           k < l => snapshots'[k].file_transaction < snapshots'[l].file_transaction
    BY <1>0, <1>1 DEF SessionOK
  <2>3. leaked' \subseteq Names /\ recalled' \in Seq([Names -> MaybeId]) /\ Len(recalled') = K
    BY <1>0 DEF SessionOK
  <2> HIDE DEF K
  <2> QED
    BY <1>1, <1>2, <2>1, <2>2, <2>3 DEF SessionOK
<1>4. \A k \in 1 .. K : Base(k)' = Base(k)
  BY <1>1, Zenon DEF Base
<1>5. \A k \in 1 .. K : Tracked(k, n)'
  <2> SUFFICES ASSUME NEW k \in 1 .. K PROVE Tracked(k, n)'
    OBVIOUS
  <2>1. K \in k .. K /\ K \in 1 .. K
    BY <1>0
  <2>2. e \in Range(snapshots'[K].memo_rollbacks)
    BY <1>1, <2>1, Zenon
  <2> QED
    BY <1>1, <1>2, <2>1, <2>2, Zenon DEF Tracked, e
<1>6. \A k \in 1 .. K : \A m \in Names : m # n /\ Tracked(k, m) => Tracked(k, m)'
  <2> SUFFICES ASSUME NEW k \in 1 .. K, NEW m \in Names, m # n, Tracked(k, m)
               PROVE  Tracked(k, m)'
    OBVIOUS
  <2>1. PICK l \in k .. K : [name |-> m, entity |-> memo[m]] \in Range(rb(l))
    BY DEF Tracked
  <2>2. l \in 1 .. K
    BY <1>0, SMTT(30)
  <2>3. [name |-> m, entity |-> memo[m]] \in Range(snapshots'[l].memo_rollbacks)
    BY <1>1, <2>1, <2>2, Zenon
  <2> QED
    BY <1>1, <1>2, <2>1, <2>3, Zenon DEF Tracked
<1>7. MemosLive'
  <2> SUFFICES ASSUME NEW m \in Names, memo'[m] # NoId, m \notin leaked
               PROVE  /\ Holds(graph, gens, memo'[m])
                      /\ \A k \in 1 .. K : ~Holds(Base(k), gens, memo'[m]) => Tracked(k, m)'
    BY <1>1, <1>4, Zenon DEF MemosLive
  <2>1. CASE m = n
    BY <1>2, <1>5, <2>1
  <2>2. CASE m # n
    BY <1>0, <1>2, <1>6, <2>2 DEF SessionInv, MemosLive
  <2> QED
    BY <2>1, <2>2, SMTT(30)
<1>8. MemosKept'
  <2> SUFFICES ASSUME NEW k \in 1 .. K, NEW m \in Names
               PROVE  IF recalled[k][m] # NoId
                      THEN /\ memo'[m] = recalled[k][m] /\ Holds(Base(k), gens, memo'[m])
                           /\ \A l \in k .. K :
                                 \A a \in Range(snapshots'[l].memo_rollbacks) : a.name # m
                      ELSE Holds(Base(k), gens, memo'[m]) => Tracked(k, m)'
    <3>1. DOMAIN snapshots' = 1 .. K /\ Len(snapshots') = K
      BY <1>1, Zenon
    <3> HIDE DEF K
    <3> QED
      BY <1>4, <3>1, SMTT(30) DEF MemosKept
  <2>1. IF recalled[k][m] # NoId
        THEN /\ memo[m] = recalled[k][m] /\ Holds(Base(k), gens, memo[m])
             /\ \A l \in k .. K : \A a \in Range(rb(l)) : a.name # m
        ELSE Holds(Base(k), gens, memo[m]) => Tracked(k, m)
    BY <1>0 DEF SessionInv, MemosKept
  <2>2. CASE m = n
    BY <1>5, <2>1, <2>2
  <2>3. CASE m # n
    <3>1. \A l \in k .. K : \A a \in Range(snapshots'[l].memo_rollbacks) :
             a = e \/ a \in Range(rb(l))
      <4>1. \A l \in k .. K : l \in 1 .. K
        BY <1>0
      <4> QED
        BY <1>1, <4>1
    <3>2. e.name # m
      BY <2>3 DEF e
    <3>3. memo'[m] = memo[m] /\ (Tracked(k, m) => Tracked(k, m)')
      BY <1>2, <1>6, <2>3
    <3>4. (\A l \in k .. K : \A a \in Range(rb(l)) : a.name # m) =>
             \A l \in k .. K : \A a \in Range(snapshots'[l].memo_rollbacks) : a.name # m
      <4> HIDE DEF K, rb
      <4> QED
        BY <3>1, <3>2
    <3> HIDE DEF K, rb
    <3> QED
      BY <2>1, <3>3, <3>4
  <2> QED
    BY <2>2, <2>3
<1> QED
  BY <1>3, <1>7, <1>8 DEF SessionInv

\* register_c_language_entity.
LEMMA RegisterSession ==
    ASSUME FileInv, SessionInv, NEW b \in DOMAIN graph.bindings, RegisterCLanguageEntity(b)
    PROVE  SessionInv'
<1> DEFINE id == [index |-> b, gen |-> gens.bindings[b]]
           n == graph.bindings[b].name
<1>1. Stepped
  BY RegisterSteps DEF SessionInv, SessionOK
<1>2. CASE UNCHANGED <<memo, snapshots>>
  <2>1. UNCHANGED sessionVars
    BY <1>2 DEF RegisterCLanguageEntity, sessionVars
  <2> QED
    BY <1>1, <2>1, SteppedSession
<1>3. CASE /\ memo[n] = NoId /\ memo' = [memo EXCEPT ![n] = id] /\ snapshots' = Track(n, id)
           /\ graph' = graph
  <2>1. graph \in Graphs /\ gens.bindings \in Seq(Nat \ {0}) /\ Generated
        /\ graph.bindings \in Seq(Bindings)
    BY DEF FileInv, FileOK, AllGens, Gens, Graphs
  <2>2. b \in 1 .. Len(graph.bindings) /\ b \in Nat /\ b \in 1 .. Len(gens.bindings)
    BY <2>1 DEF Generated
  <2>3. id \in Ids /\ id.index = b /\ id.gen = gens.bindings[b]
    BY <2>1, <2>2 DEF Ids
  <2>4. n \in Names
    <3>1. graph.bindings[b] \in Bindings
      BY <2>1
    <3> QED
      BY <3>1 DEF Bindings
  <2>5. id # NoId
    BY <2>3, CirFileAssumption
  <2> HIDE DEF id, n
  <2>6. Holds(graph, gens, id)
    BY <2>2, <2>3, <2>5 DEF Holds, Valid
  <2>7. gens' = gens /\ begun' = begun /\ recalled' = recalled /\ leaked' = leaked
    BY DEF RegisterCLanguageEntity
  <2>8. Len(transactions') = Len(transactions)
    <3>1. FileInv'
      BY <1>1, SteppedInv
    <3> QED
      BY <2>7, <3>1 DEF FileInv, FileOK
  <2> QED
    BY <1>3, <2>3, <2>4, <2>5, <2>6, <2>7, <2>8, TrackSession
<1> QED
  BY <1>2, <1>3 DEF RegisterCLanguageEntity

\* begin_speculative_parse: the new guard has nothing to undo yet.
LEMMA BeginSession ==
    ASSUME FileInv, SessionInv, BeginSpeculativeParse
    PROVE  SessionInv'
<1> DEFINE K == Len(snapshots)
           N == Len(transactions)
           s == [file_transaction |-> N + 1, memo_rollbacks |-> <<>>]
<1>0. /\ SessionOK /\ K \in Nat /\ DOMAIN snapshots = 1 .. K /\ snapshots \in Seq(Guards)
      /\ recalled \in Seq([Names -> MaybeId]) /\ Len(recalled) = K
      /\ memo \in [Names -> MaybeId] /\ N \in Nat
  BY GuardTypes DEF SessionInv, SessionOK, FileInv, FileOK
<1>1. /\ graph' = graph /\ gens' = gens /\ memo' = memo /\ leaked' = leaked
      /\ begun' = Append(begun, graph)
      /\ snapshots' = Append(snapshots, s) /\ recalled' = Append(recalled, Known)
  BY DEF BeginSpeculativeParse, Begin
<1>2. FileInv' /\ Len(transactions') = N + 1 /\ begun'[N + 1] = graph
  <2>1. FileInv'
    BY BeginInv DEF BeginSpeculativeParse
  <2>2. Len(begun') = N + 1 /\ begun'[N + 1] = graph
    BY <1>1, AppendProperties DEF FileInv, FileOK
  <2> QED
    BY <2>1, <2>2 DEF FileInv, FileOK
<1>3. s \in Guards /\ s.file_transaction = N + 1 /\ Range(s.memo_rollbacks) = {}
  <2>1. <<>> \in Seq([name : Names, entity : Ids])
    BY EmptySeq
  <2>2. s.memo_rollbacks = <<>>
    OBVIOUS
  <2> QED
    BY <1>0, <2>1, <2>2 DEF Guards, Range
<1>4. Known \in [Names -> MaybeId]
  BY <1>0 DEF Known, MaybeId
<1> HIDE DEF s
<1>5. /\ snapshots' \in Seq(Guards) /\ Len(snapshots') = K + 1 /\ DOMAIN snapshots' = 1 .. K + 1
      /\ \A k \in 1 .. K : snapshots'[k] = snapshots[k]
      /\ snapshots'[K + 1] = s
  BY <1>0, <1>1, <1>3, AppendProperties
<1>6. /\ recalled' \in Seq([Names -> MaybeId]) /\ Len(recalled') = K + 1
      /\ \A k \in 1 .. K : recalled'[k] = recalled[k]
      /\ recalled'[K + 1] = Known
  BY <1>0, <1>1, <1>4, AppendProperties
<1>7. \A k \in 1 .. K : /\ snapshots[k].file_transaction \in 1 .. N + 1
                        /\ begun'[snapshots[k].file_transaction] = Base(k)
  BY <1>0, <1>1, <1>2, BaseStays
<1>8. (\A k \in 1 .. K + 1 : k = K + 1 \/ k \in 1 .. K) /\ \A k \in 1 .. K : K + 1 \in k .. K + 1
  BY <1>0
<1>9. SessionOK'
  <2>1. \A k \in 1 .. K + 1 : snapshots'[k].file_transaction \in 1 .. Len(transactions')
    <3>1. N + 1 \in 1 .. N + 1
      BY <1>0
    <3> QED
      BY <1>2, <1>3, <1>5, <1>7, <1>8, <3>1
  <2>2. ASSUME NEW k \in 1 .. K + 1, NEW l \in 1 .. K + 1, k < l
        PROVE  snapshots'[k].file_transaction < snapshots'[l].file_transaction
    <3>1. k \in 1 .. K
      BY <1>0, <2>2
    <3>2. CASE l = K + 1
      <4>1. snapshots[k].file_transaction \in 1 .. N
        BY <1>0, <3>1 DEF SessionOK
      <4>2. snapshots[k].file_transaction < N + 1
        <5> HIDE DEF N
        <5> QED
          BY <1>0, <4>1
      <4> QED
        BY <1>3, <1>5, <3>1, <3>2, <4>2
    <3>3. CASE l \in 1 .. K
      BY <1>0, <1>5, <2>2, <3>1, <3>3 DEF SessionOK
    <3> QED
      BY <1>8, <3>2, <3>3
  <2>3. leaked' \subseteq Names /\ memo' \in [Names -> MaybeId]
    BY <1>0, <1>1 DEF SessionOK
  <2> HIDE DEF K
  <2> QED
    BY <1>5, <1>6, <2>1, <2>2, <2>3 DEF SessionOK
<1>10. \A k \in 1 .. K + 1 : Base(k)' = IF k = K + 1 THEN graph ELSE Base(k)
  <2>1. begun'[snapshots'[K + 1].file_transaction] = graph
    BY <1>2, <1>3, <1>5
  <2>2. \A k \in 1 .. K : begun'[snapshots'[k].file_transaction] = Base(k)
    BY <1>5, <1>7
  <2> QED
    BY <1>8, <2>1, <2>2 DEF Base
<1>11. \A k \in 1 .. K, n \in Names : Tracked(k, n) => Tracked(k, n)'
  <2> SUFFICES ASSUME NEW k \in 1 .. K, NEW n \in Names, Tracked(k, n)
               PROVE  Tracked(k, n)'
    OBVIOUS
  <2>1. PICK l \in k .. K : [name |-> n, entity |-> memo[n]] \in Range(snapshots[l].memo_rollbacks)
    BY DEF Tracked
  <2>2. l \in 1 .. K /\ l \in k .. K + 1
    BY <1>0
  <2>3. [name |-> n, entity |-> memo'[n]] \in Range(snapshots'[l].memo_rollbacks)
    BY <1>1, <1>5, <2>1, <2>2
  <2> QED
    BY <1>5, <2>2, <2>3 DEF Tracked
<1>12. MemosLive'
  <2> SUFFICES ASSUME NEW n \in Names, memo[n] # NoId, n \notin leaked
               PROVE  /\ Holds(graph, gens, memo[n])
                      /\ \A k \in 1 .. K + 1 :
                            ~Holds(Base(k)', gens, memo[n]) => Tracked(k, n)'
    BY <1>1, <1>5 DEF MemosLive
  <2>1. Holds(graph, gens, memo[n])
        /\ \A k \in 1 .. K : ~Holds(Base(k), gens, memo[n]) => Tracked(k, n)
    BY <1>0 DEF SessionInv, MemosLive
  <2>2. ASSUME NEW k \in 1 .. K + 1, ~Holds(Base(k)', gens, memo[n])
        PROVE  Tracked(k, n)'
    <3>1. k # K + 1
      BY <1>10, <2>1, <2>2
    <3>2. k \in 1 .. K /\ Base(k)' = Base(k)
      BY <1>8, <1>10, <3>1
    <3> QED
      BY <1>11, <2>1, <2>2, <3>2
  <2> QED
    BY <2>1, <2>2
<1>13. MemosKept'
  <2>0. DOMAIN snapshots' = 1 .. K + 1 /\ Len(snapshots') = K + 1
    BY <1>5
  <2> SUFFICES ASSUME NEW k \in 1 .. K + 1, NEW n \in Names
               PROVE  IF recalled'[k][n] # NoId
                      THEN /\ memo[n] = recalled'[k][n] /\ Holds(Base(k)', gens, memo[n])
                           /\ \A l \in k .. K + 1 :
                                 \A a \in Range(snapshots'[l].memo_rollbacks) : a.name # n
                      ELSE Holds(Base(k)', gens, memo[n]) => Tracked(k, n)'
    <3> HIDE DEF K
    <3> QED
      BY <1>1, <2>0 DEF MemosKept
  <2>1. CASE k = K + 1
    <3>1. recalled'[k][n] = IF Holds(graph, gens, memo[n]) THEN memo[n] ELSE NoId
      BY <1>6, <2>1 DEF Known, ValidBinding, Holds
    <3>2. Base(k)' = graph
      BY <1>10, <2>1
    <3>3. Holds(graph, gens, memo[n]) => memo[n] # NoId
      BY DEF Holds, Valid
    <3>4. \A l \in k .. K + 1 : l = K + 1
      BY <1>0, <2>1
    <3>5. \A l \in k .. K + 1 : Range(snapshots'[l].memo_rollbacks) = {}
      BY <1>3, <1>5, <3>4
    <3> HIDE DEF K
    <3> QED
      BY <3>1, <3>2, <3>3, <3>5
  <2>2. CASE k \in 1 .. K
    <3>1. IF recalled[k][n] # NoId
          THEN /\ memo[n] = recalled[k][n] /\ Holds(Base(k), gens, memo[n])
               /\ \A l \in k .. K : \A a \in Range(snapshots[l].memo_rollbacks) : a.name # n
          ELSE Holds(Base(k), gens, memo[n]) => Tracked(k, n)
      BY <1>0, <2>2 DEF SessionInv, MemosKept
    <3>2. recalled'[k][n] = recalled[k][n] /\ Base(k)' = Base(k)
          /\ (Tracked(k, n) => Tracked(k, n)')
      <4>1. k # K + 1
        BY <1>0, <2>2
      <4> QED
        BY <1>6, <1>10, <1>11, <2>2, <4>1
    <3>3. \A l \in k .. K + 1 : l = K + 1 \/ (l \in k .. K /\ l \in 1 .. K)
      BY <1>0, <2>2
    <3>4. (\A l \in k .. K : \A a \in Range(snapshots[l].memo_rollbacks) : a.name # n) =>
             \A l \in k .. K + 1 : \A a \in Range(snapshots'[l].memo_rollbacks) : a.name # n
      <4> HIDE DEF K
      <4> QED
        BY <1>3, <1>5, <3>3, Zenon
    <3> HIDE DEF K
    <3> QED
      BY <3>1, <3>2, <3>4
  <2> QED
    BY <1>8, <2>1, <2>2
<1> QED
  BY <1>9, <1>12, <1>13 DEF SessionInv

\* What holds of the guards when the innermost one ends.
LEMMA GuardEnds ==
    ASSUME FileInv, SessionOK, Guarded, transactions # <<>>,
           begun' = Front(begun), Len(transactions') = Len(transactions) - 1
    PROVE  /\ Len(snapshots) \in Nat \ {0} /\ DOMAIN snapshots = 1 .. Len(snapshots)
           /\ snapshots # <<>> /\ recalled # <<>>
           /\ Len(snapshots) \in 1 .. Len(snapshots)
           /\ Last(snapshots) = snapshots[Len(snapshots)]
           /\ Base(Len(snapshots)) = begun[Len(begun)]
           /\ \A k \in 1 .. Len(snapshots) - 1 :
                 /\ k \in 1 .. Len(snapshots) /\ k # Len(snapshots)
                 /\ snapshots[k].file_transaction \in 1 .. Len(transactions')
                 /\ begun'[snapshots[k].file_transaction] = Base(k)
<1> DEFINE K == Len(snapshots)
<1>1. /\ K \in Nat \ {0} /\ DOMAIN snapshots = 1 .. K /\ snapshots # <<>> /\ recalled # <<>>
      /\ K \in 1 .. K /\ Last(snapshots) = snapshots[K]
  <2>1. snapshots # <<>> /\ snapshots \in Seq(Guards)
        /\ recalled \in Seq([Names -> MaybeId]) /\ Len(recalled) = K
    BY DEF Guarded, SessionOK
  <2>2. recalled # <<>>
    BY <2>1, EmptySeq
  <2> QED
    BY <2>1, <2>2, FrontFacts
<1>2. snapshots[K].file_transaction = Len(begun)
  BY <1>1 DEF Guarded, FileInv, FileOK
<1>3. \A k \in 1 .. K - 1 : k \in 1 .. K /\ k # K
  <2> HIDE DEF K
  <2> QED
    BY <1>1, SMTT(30)
<1>4. \A k \in 1 .. K - 1 :
         /\ snapshots[k].file_transaction \in 1 .. Len(transactions')
         /\ begun'[snapshots[k].file_transaction] = Base(k)
  BY <1>1, <1>3, BaseStays, Zenon
<1> QED
  BY <1>1, <1>2, <1>3, <1>4, Zenon DEF Base

\* The stack of transactions when the innermost one ends.
LEMMA Shorter ==
    ASSUME FileInv, FileInv', transactions # <<>>, begun' = Front(begun)
    PROVE  Len(transactions') = Len(transactions) - 1
<1>1. begun \in Seq(Graphs) /\ begun # <<>> /\ Len(begun) = Len(transactions)
  BY EmptySeq DEF FileInv, FileOK
<1>2. Len(begun') = Len(begun) - 1
  BY <1>1, FrontFacts
<1> QED
  BY <1>1, <1>2 DEF FileInv, FileOK

\* commit_speculative_parse: the guard around it can undo what was tracked in both.
LEMMA CommitSession ==
    ASSUME FileInv, SessionInv, CommitSpeculativeParse
    PROVE  SessionInv'
<1> DEFINE K == Len(snapshots)
           J == K - 1
           rb(l) == snapshots[l].memo_rollbacks
           E == [name : Names, entity : Ids]
           outer == Front(snapshots)
<1>0. /\ SessionOK /\ Guarded /\ transactions # <<>> /\ begun' = Front(begun)
      /\ graph' = graph /\ gens' = gens /\ memo' = memo /\ leaked' = leaked
      /\ snapshots' = HandOver(outer, Last(snapshots).memo_rollbacks)
      /\ recalled' = Front(recalled)
      /\ Commit
  BY DEF SessionInv, CommitSpeculativeParse, Commit
<1>1. Len(transactions') = Len(transactions) - 1
  BY <1>0, CommitInv, Shorter, Zenon
<1>2. /\ K \in Nat \ {0} /\ DOMAIN snapshots = 1 .. K /\ snapshots # <<>> /\ recalled # <<>>
      /\ K \in 1 .. K /\ Last(snapshots) = snapshots[K]
      /\ \A k \in 1 .. J :
            /\ k \in 1 .. K /\ k # K
            /\ snapshots[k].file_transaction \in 1 .. Len(transactions')
            /\ begun'[snapshots[k].file_transaction] = Base(k)
  BY <1>0, <1>1, GuardEnds, Zenon
<1>3. /\ snapshots \in Seq(Guards) /\ recalled \in Seq([Names -> MaybeId]) /\ Len(recalled) = K
      /\ \A l \in 1 .. K : snapshots[l] \in Guards /\ rb(l) \in Seq(E)
  BY <1>0, GuardTypes, Zenon
<1>4. /\ outer \in Seq(Guards) /\ Len(outer) = J /\ DOMAIN outer = 1 .. J
      /\ \A k \in 1 .. J : outer[k] = snapshots[k]
  BY <1>2, <1>3, FrontFacts, Zenon
<1>5. /\ recalled' \in Seq([Names -> MaybeId]) /\ Len(recalled') = J
      /\ \A k \in 1 .. J : recalled'[k] = recalled[k]
  BY <1>0, <1>2, <1>3, FrontFacts, Zenon
<1>6. /\ snapshots' \in Seq(Guards) /\ Len(snapshots') = J /\ DOMAIN snapshots' = 1 .. J
      /\ \A l \in 1 .. J :
            /\ snapshots'[l].file_transaction = snapshots[l].file_transaction
            /\ Range(snapshots'[l].memo_rollbacks) =
                  IF l = J THEN Range(rb(l)) \cup Range(rb(K)) ELSE Range(rb(l))
  <2>1. CASE outer = <<>>
    <3>1. snapshots' = <<>> /\ J = 0
      BY <1>0, <1>4, <2>1 DEF HandOver
    <3>2. <<>> \in Seq(Guards) /\ Len(<<>>) = 0 /\ DOMAIN <<>> = 1 .. 0
      BY EmptySeq
    <3> HIDE DEF J
    <3> QED
      BY <3>1, <3>2
  <2>2. CASE outer # <<>>
    <3>1. J \in 1 .. J /\ J \in 1 .. K
      <4>1. J # 0
        BY <1>4, <2>2, EmptySeq
      <4> HIDE DEF K
      <4> QED
        BY <1>2, <4>1
    <3> DEFINE a == rb(J) \o rb(K)
               w == [snapshots[J] EXCEPT !.memo_rollbacks = a]
               s == [outer EXCEPT ![J] = w]
    <3>2. snapshots' = s
      <4>1. snapshots' = [outer EXCEPT ![Len(outer)].memo_rollbacks = @ \o rb(K)]
        BY <1>0, <1>2, <2>2 DEF HandOver
      <4>2. Len(outer) = J /\ outer[J] = snapshots[J]
        BY <1>4, <3>1
      <4> HIDE DEF outer, J, K
      <4> QED
        BY <4>1, <4>2
    <3>3. a \in Seq(E) /\ Range(a) = Range(rb(J)) \cup Range(rb(K))
      <4>1. rb(J) \in Seq(E) /\ rb(K) \in Seq(E)
        BY <1>2, <1>3, <3>1, Zenon
      <4> HIDE DEF rb, J, K, E
      <4> QED
        BY <4>1, RangeConcat, ConcatProperties, SMTT(30)
    <3> HIDE DEF a
    <3>4. w \in Guards /\ w.memo_rollbacks = a /\ w.file_transaction = snapshots[J].file_transaction
      BY <1>3, <3>1, <3>3 DEF Guards
    <3> HIDE DEF w
    <3>5. /\ s \in Seq(Guards) /\ Len(s) = Len(outer)
          /\ \A j \in 1 .. Len(outer) : s[j] = IF j = J THEN w ELSE outer[j]
      <4>1. J \in 1 .. Len(outer) /\ outer \in Seq(Guards)
        BY <1>4, <3>1
      <4> HIDE DEF J, outer
      <4> QED
        BY <3>4, <4>1, ExceptSeq
    <3>6. DOMAIN s = 1 .. J
      BY <1>4
    <3> HIDE DEF s
    <3>7. \A l \in 1 .. J :
            /\ s[l].file_transaction = snapshots[l].file_transaction
            /\ Range(s[l].memo_rollbacks) =
                  IF l = J THEN Range(rb(l)) \cup Range(rb(K)) ELSE Range(rb(l))
      <4> SUFFICES ASSUME NEW l \in 1 .. J
                   PROVE  /\ s[l].file_transaction = snapshots[l].file_transaction
                          /\ Range(s[l].memo_rollbacks) =
                                IF l = J THEN Range(rb(l)) \cup Range(rb(K)) ELSE Range(rb(l))
        OBVIOUS
      <4>1. CASE l = J
        BY <1>4, <3>3, <3>4, <3>5, <4>1
      <4>2. CASE l # J
        BY <1>4, <3>5, <4>2
      <4> QED
        BY <4>1, <4>2
    <3>8. Len(s) = J
      BY <1>4, <3>5
    <3> HIDE DEF rb, J, K
    <3> QED
      BY <3>2, <3>5, <3>6, <3>7, <3>8
  <2> QED
    BY <2>1, <2>2
<1>7. SessionOK'
  <2>1. \A k \in 1 .. J : snapshots'[k].file_transaction \in 1 .. Len(transactions')
    BY <1>2, <1>6, Zenon
  <2>2. \A k, l \in 1 .. J :
           k < l => snapshots'[k].file_transaction < snapshots'[l].file_transaction
    <3>1. \A k, l \in 1 .. K :
             k < l => snapshots[k].file_transaction < snapshots[l].file_transaction
      BY <1>0, <1>2 DEF SessionOK
    <3> HIDE DEF J, K
    <3> QED
      BY <1>2, <1>6, <3>1
  <2>3. leaked' \subseteq Names /\ memo' \in [Names -> MaybeId]
    BY <1>0, Zenon DEF SessionOK
  <2> HIDE DEF J, K
  <2> QED
    BY <1>5, <1>6, <2>1, <2>2, <2>3, Zenon DEF SessionOK
<1>8. \A k \in 1 .. J : Base(k)' = Base(k)
  BY <1>2, <1>6, Zenon DEF Base
<1>9. \A k \in 1 .. J : \A l \in k .. K : \A x \in Range(rb(l)) :
         \E i \in k .. J : x \in Range(snapshots'[i].memo_rollbacks)
  <2> SUFFICES ASSUME NEW k \in 1 .. J, NEW l \in k .. K, NEW x \in Range(rb(l))
               PROVE  \E i \in k .. J : x \in Range(snapshots'[i].memo_rollbacks)
    OBVIOUS
  <2>1. CASE l = K
    <3>1. J \in k .. J /\ J \in 1 .. J
      <4> HIDE DEF K
      <4> QED
        BY <1>2
    <3>2. x \in Range(snapshots'[J].memo_rollbacks)
      BY <1>6, <2>1, <3>1
    <3> QED
      BY <3>1, <3>2
  <2>2. CASE l # K
    <3>1. l \in k .. J /\ l \in 1 .. J
      <4> HIDE DEF K
      <4> QED
        BY <1>2, <2>2
    <3>2. x \in Range(snapshots'[l].memo_rollbacks)
      BY <1>6, <3>1
    <3> QED
      BY <3>1, <3>2
  <2> QED
    BY <2>1, <2>2
<1>10. \A k \in 1 .. J, n \in Names : Tracked(k, n) => Tracked(k, n)'
  <2> SUFFICES ASSUME NEW k \in 1 .. J, NEW n \in Names, Tracked(k, n)
               PROVE  Tracked(k, n)'
    OBVIOUS
  <2>1. PICK l \in k .. K : [name |-> n, entity |-> memo[n]] \in Range(rb(l))
    BY DEF Tracked
  <2>2. PICK i \in k .. J :
            [name |-> n, entity |-> memo[n]] \in Range(snapshots'[i].memo_rollbacks)
    BY <1>9, <2>1, SMTT(30)
  <2> QED
    BY <1>0, <1>6, <2>2 DEF Tracked
<1>11. MemosLive'
  <2> SUFFICES ASSUME NEW n \in Names, memo[n] # NoId, n \notin leaked
               PROVE  /\ Holds(graph, gens, memo[n])
                      /\ \A k \in 1 .. J : ~Holds(Base(k), gens, memo[n]) => Tracked(k, n)'
    BY <1>0, <1>6, <1>8 DEF MemosLive
  <2>1. Holds(graph, gens, memo[n])
        /\ \A k \in 1 .. K : ~Holds(Base(k), gens, memo[n]) => Tracked(k, n)
    BY <1>2 DEF SessionInv, MemosLive
  <2> QED
    BY <1>2, <1>10, <2>1, Zenon
<1>12. MemosKept'
  <2>0. DOMAIN snapshots' = 1 .. J /\ Len(snapshots') = J
    BY <1>6
  <2> SUFFICES ASSUME NEW k \in 1 .. J, NEW n \in Names
               PROVE  IF recalled[k][n] # NoId
                      THEN /\ memo[n] = recalled[k][n] /\ Holds(Base(k), gens, memo[n])
                           /\ \A l \in k .. J :
                                 \A a \in Range(snapshots'[l].memo_rollbacks) : a.name # n
                      ELSE Holds(Base(k), gens, memo[n]) => Tracked(k, n)'
    <3> HIDE DEF J, K
    <3> QED
      BY <1>0, <1>5, <1>8, <2>0, SMTT(30) DEF MemosKept
  <2>1. IF recalled[k][n] # NoId
        THEN /\ memo[n] = recalled[k][n] /\ Holds(Base(k), gens, memo[n])
             /\ \A l \in k .. K : \A a \in Range(rb(l)) : a.name # n
        ELSE Holds(Base(k), gens, memo[n]) => Tracked(k, n)
    BY <1>2, Zenon DEF SessionInv, MemosKept
  <2>2. (\A l \in k .. K : \A a \in Range(rb(l)) : a.name # n) =>
           \A l \in k .. J : \A a \in Range(snapshots'[l].memo_rollbacks) : a.name # n
    <3>1. \A l \in k .. J : l \in k .. K /\ l \in 1 .. J
      <4> HIDE DEF K
      <4> QED
        BY <1>2
    <3>2. K \in k .. K
      <4> HIDE DEF K
      <4> QED
        BY <1>2
    <3> HIDE DEF J, K, rb
    <3> QED
      BY <1>6, <3>1, <3>2
  <2>3. Tracked(k, n) => Tracked(k, n)'
    BY <1>10
  <2> HIDE DEF J, K, rb
  <2> QED
    BY <2>1, <2>2, <2>3
<1> QED
  BY <1>7, <1>11, <1>12 DEF SessionInv

\* rollback_speculative_parse: the memos that are tracked go, and the others can be
\* used just as when the guard was made.
LEMMA RollbackSession ==
    ASSUME FileInv, SessionInv, RollbackSpeculativeParse
    PROVE  SessionInv' /\ Known' = Last(recalled)
<1> DEFINE K == Len(snapshots)
           J == K - 1
           rb(l) == snapshots[l].memo_rollbacks
<1>0. /\ SessionOK /\ Guarded /\ transactions # <<>> /\ begun' = Front(begun)
      /\ gens' = gens /\ leaked' = leaked
      /\ snapshots' = Front(snapshots) /\ recalled' = Front(recalled)
      /\ memo' = UndoMemos(memo, Last(snapshots).memo_rollbacks)
      /\ Rollback /\ memo \in [Names -> MaybeId]
  BY DEF SessionInv, SessionOK, RollbackSpeculativeParse, Rollback
<1>1. Len(transactions') = Len(transactions) - 1 /\ graph' = begun[Len(begun)]
  BY <1>0, RollbackInv, Shorter, Zenon
<1>2. /\ K \in Nat \ {0} /\ DOMAIN snapshots = 1 .. K /\ snapshots # <<>> /\ recalled # <<>>
      /\ K \in 1 .. K /\ Last(snapshots) = snapshots[K]
      /\ \A k \in 1 .. J :
            /\ k \in 1 .. K /\ k # K
            /\ snapshots[k].file_transaction \in 1 .. Len(transactions')
            /\ begun'[snapshots[k].file_transaction] = Base(k)
  BY <1>0, <1>1, GuardEnds, Zenon
<1>3. graph' = Base(K)
  BY <1>0, <1>1, GuardEnds, Zenon
<1>4. snapshots \in Seq(Guards) /\ recalled \in Seq([Names -> MaybeId]) /\ Len(recalled) = K
  BY <1>0, GuardTypes, Zenon
<1>5. /\ snapshots' \in Seq(Guards) /\ Len(snapshots') = J /\ DOMAIN snapshots' = 1 .. J
      /\ \A k \in 1 .. J : snapshots'[k] = snapshots[k]
  BY <1>0, <1>2, <1>4, FrontFacts, Zenon
<1>6. /\ recalled' \in Seq([Names -> MaybeId]) /\ Len(recalled') = J
      /\ \A k \in 1 .. J : recalled'[k] = recalled[k]
      /\ Last(recalled) = recalled[K]
  BY <1>0, <1>2, <1>4, FrontFacts, Zenon
<1>7. \A n \in Names : memo'[n] = IF [name |-> n, entity |-> memo[n]] \in Range(rb(K))
                                 THEN NoId ELSE memo[n]
  BY <1>0, <1>2, Zenon DEF UndoMemos, Range
<1>8. memo' \in [Names -> MaybeId]
  BY <1>0 DEF UndoMemos, MaybeId
<1> HIDE DEF rb
<1>9. SessionOK'
  <2>1. \A k \in 1 .. J : snapshots'[k].file_transaction \in 1 .. Len(transactions')
    BY <1>2, <1>5, Zenon
  <2>2. \A k, l \in 1 .. J :
           k < l => snapshots'[k].file_transaction < snapshots'[l].file_transaction
    <3>1. \A k, l \in 1 .. K :
             k < l => snapshots[k].file_transaction < snapshots[l].file_transaction
      <4>1. \A k, l \in DOMAIN snapshots :
               k < l => snapshots[k].file_transaction < snapshots[l].file_transaction
        BY <1>0, Zenon DEF SessionOK
      <4> QED
        BY <1>2, <4>1, Zenon
    <3> HIDE DEF J, K
    <3> QED
      BY <1>2, <1>5, <3>1
  <2>3. leaked' \subseteq Names
    BY <1>0 DEF SessionOK
  <2> HIDE DEF J, K
  <2> QED
    BY <1>5, <1>6, <1>8, <2>1, <2>2, <2>3, SMTT(30) DEF SessionOK
<1>10. \A k \in 1 .. J : Base(k)' = Base(k)
  BY <1>2, <1>5, Zenon DEF Base
<1>11. \A n \in Names : Tracked(K, n) => memo'[n] = NoId
  <2> SUFFICES ASSUME NEW n \in Names, Tracked(K, n) PROVE memo'[n] = NoId
    OBVIOUS
  <2>1. \A l \in K .. K : l = K
    <3> HIDE DEF K
    <3> QED
      BY <1>2
  <2>2. [name |-> n, entity |-> memo[n]] \in Range(rb(K))
    BY <2>1 DEF Tracked, rb
  <2> QED
    BY <1>7, <2>2
<1>12. \A k \in 1 .. J, n \in Names : Tracked(k, n) /\ memo'[n] # NoId => Tracked(k, n)'
  <2> SUFFICES ASSUME NEW k \in 1 .. J, NEW n \in Names, Tracked(k, n), memo'[n] # NoId
               PROVE  Tracked(k, n)'
    OBVIOUS
  <2>1. PICK l \in k .. K : [name |-> n, entity |-> memo[n]] \in Range(rb(l))
    BY DEF Tracked, rb
  <2>2. l # K /\ memo'[n] = memo[n]
    BY <1>7, <2>1
  <2>3. l \in k .. J /\ l \in 1 .. J
    <3> HIDE DEF K
    <3> QED
      BY <1>2, <2>2
  <2>4. [name |-> n, entity |-> memo'[n]] \in Range(snapshots'[l].memo_rollbacks)
    BY <1>5, <2>1, <2>2, <2>3, SMTT(30) DEF rb
  <2> QED
    BY <1>5, <2>3, <2>4 DEF Tracked
<1>13. \A g, e : ~Holds(g, e, NoId)
  BY DEF Holds, Valid
<1>14. MemosLive'
  <2> SUFFICES ASSUME NEW n \in Names, memo'[n] # NoId, n \notin leaked
               PROVE  /\ Holds(graph', gens, memo'[n])
                      /\ \A k \in 1 .. J : ~Holds(Base(k), gens, memo'[n]) => Tracked(k, n)'
    BY <1>0, <1>5, <1>10 DEF MemosLive
  <2>1. memo'[n] = memo[n] /\ memo[n] # NoId
    BY <1>7
  <2>2. \A k \in 1 .. K : ~Holds(Base(k), gens, memo[n]) => Tracked(k, n)
    BY <1>2, <2>1, Zenon DEF SessionInv, MemosLive
  <2>3. Holds(Base(K), gens, memo[n])
    BY <1>2, <1>11, <2>2, Zenon
  <2> QED
    BY <1>2, <1>3, <1>12, <2>1, <2>2, <2>3, Zenon
<1>15. \A k \in 1 .. K, n \in Names :
          IF recalled[k][n] # NoId
          THEN /\ memo[n] = recalled[k][n] /\ Holds(Base(k), gens, memo[n])
               /\ \A l \in k .. K : \A a \in Range(rb(l)) : a.name # n
          ELSE Holds(Base(k), gens, memo[n]) => Tracked(k, n)
  BY <1>2, Zenon DEF SessionInv, MemosKept, rb
<1>16. \A k \in 1 .. K, n \in Names : recalled[k][n] # NoId => memo'[n] = memo[n]
  <2> SUFFICES ASSUME NEW k \in 1 .. K, NEW n \in Names, recalled[k][n] # NoId
               PROVE  memo'[n] = memo[n]
    OBVIOUS
  <2>1. K \in k .. K
    <3> HIDE DEF K
    <3> QED
      BY <1>2
  <2>2. \A a \in Range(rb(K)) : a.name # n
    BY <1>15, <2>1
  <2>3. [name |-> n, entity |-> memo[n]] \notin Range(rb(K))
    BY <2>2
  <2> QED
    BY <1>7, <2>3
<1>17. MemosKept'
  <2>0. DOMAIN snapshots' = 1 .. J /\ Len(snapshots') = J
    BY <1>5
  <2> SUFFICES ASSUME NEW k \in 1 .. J, NEW n \in Names
               PROVE  IF recalled[k][n] # NoId
                      THEN /\ memo'[n] = recalled[k][n] /\ Holds(Base(k), gens, memo'[n])
                           /\ \A l \in k .. J :
                                 \A a \in Range(snapshots'[l].memo_rollbacks) : a.name # n
                      ELSE Holds(Base(k), gens, memo'[n]) => Tracked(k, n)'
    <3> HIDE DEF J, K
    <3> QED
      BY <1>0, <1>6, <1>10, <2>0, SMTT(30) DEF MemosKept
  <2>1. k \in 1 .. K
    BY <1>2, Zenon
  <2>2. CASE recalled[k][n] # NoId
    <3>1. memo'[n] = memo[n] /\ memo[n] = recalled[k][n] /\ Holds(Base(k), gens, memo[n])
          /\ \A l \in k .. K : \A a \in Range(rb(l)) : a.name # n
      BY <1>15, <1>16, <2>1, <2>2
    <3>2. \A l \in k .. J : l \in k .. K /\ l \in 1 .. J
      <4> HIDE DEF K
      <4> QED
        BY <1>2
    <3>3. \A l \in k .. J : \A a \in Range(snapshots'[l].memo_rollbacks) : a.name # n
      BY <1>5, <3>1, <3>2 DEF rb
    <3> HIDE DEF J, K
    <3> QED
      BY <2>2, <3>1, <3>3
  <2>3. CASE recalled[k][n] = NoId
    <3>1. ASSUME Holds(Base(k), gens, memo'[n]) PROVE Tracked(k, n)'
      <4>1. memo'[n] # NoId
        BY <1>13, <3>1
      <4>2. memo'[n] = memo[n]
        BY <1>7, <4>1
      <4>3. Tracked(k, n)
        BY <1>15, <2>1, <2>3, <3>1, <4>2
      <4> QED
        BY <1>12, <4>1, <4>3
    <3> QED
      BY <2>3, <3>1
  <2> QED
    BY <2>2, <2>3
<1>18. Known' = Last(recalled)
  <2>1. recalled[K] \in [Names -> MaybeId]
    <3>1. DOMAIN recalled = 1 .. Len(recalled)
      BY <1>4
    <3> HIDE DEF K
    <3> QED
      BY <1>2, <1>4, <3>1
  <2>2. Known' = [n \in Names |-> IF Holds(Base(K), gens, memo'[n]) THEN memo'[n] ELSE NoId]
    BY <1>0, <1>3 DEF Known, ValidBinding, Holds
  <2>3. ASSUME NEW n \in Names
        PROVE  (IF Holds(Base(K), gens, memo'[n]) THEN memo'[n] ELSE NoId) = recalled[K][n]
    <3>1. CASE recalled[K][n] # NoId
      BY <1>2, <1>15, <1>16, <3>1, Zenon
    <3>2. CASE recalled[K][n] = NoId
      <4>1. ~Holds(Base(K), gens, memo'[n])
        <5> SUFFICES ASSUME Holds(Base(K), gens, memo'[n]) PROVE FALSE
          OBVIOUS
        <5>1. memo'[n] # NoId
          BY <1>13
        <5>2. memo'[n] = memo[n]
          BY <1>7, <5>1
        <5>3. Tracked(K, n)
          BY <1>2, <1>15, <3>2, <5>2, Zenon
        <5> QED
          BY <1>11, <5>1, <5>3
      <4> QED
        BY <3>2, <4>1
    <3> QED
      BY <3>1, <3>2, SMTT(30)
  <2>4. Known' = recalled[K]
    BY <2>1, <2>2, <2>3
  <2> QED
    BY <1>6, <2>4
<1> QED
  BY <1>9, <1>14, <1>17, <1>18 DEF SessionInv

-----------------------------------------------------------------------------
(* The whole.                                                              *)

\* At first there are no guards and no memos.
LEMMA InitSession == FileInit /\ SessionInit => SessionInv
<1> SUFFICES ASSUME FileInit, SessionInit PROVE SessionInv
  OBVIOUS
<1>1. /\ memo = [n \in Names |-> NoId] /\ leaked = {} /\ snapshots = <<>> /\ recalled = <<>>
      /\ DOMAIN snapshots = {}
  BY DEF SessionInit
<1>2. SessionOK
  <2>1. snapshots \in Seq(Guards) /\ recalled \in Seq([Names -> MaybeId])
        /\ Len(recalled) = Len(snapshots)
    BY <1>1, EmptySeq
  <2>2. memo \in [Names -> MaybeId] /\ leaked \subseteq Names
    BY <1>1 DEF MaybeId
  <2> QED
    BY <1>1, <2>1, <2>2 DEF SessionOK
<1> QED
  BY <1>1, <1>2 DEF SessionInv, MemosLive, MemosKept

\* Every operation of the file, and the registration of a name, only adds.
LEMMA CollectInv == IInv /\ Collect => Stepped /\ IInv'
<1> SUFFICES ASSUME IInv, Collect PROVE Stepped /\ IInv'
  OBVIOUS
<1>1. FileInv /\ SessionInv /\ UNCHANGED sessionVars
  BY DEF IInv, Collect
<1>2. Stepped
  BY <1>1, OperationSteps DEF Collect
<1> QED
  BY <1>1, <1>2, SteppedInv, SteppedSession DEF IInv

LEMMA RegisterInv ==
    ASSUME IInv, NEW b \in DOMAIN graph.bindings, RegisterCLanguageEntity(b)
    PROVE  Stepped /\ IInv'
<1>1. FileInv /\ SessionInv /\ memo \in [Names -> MaybeId]
  BY DEF IInv, SessionInv, SessionOK
<1>2. Stepped
  BY <1>1, RegisterSteps
<1> QED
  BY <1>1, <1>2, SteppedInv, RegisterSession DEF IInv

\* Where a step of the specification comes from.
LEMMA NextCases ==
    ASSUME IInv, [Next]_vars
    PROVE  \/ Stepped /\ recalled' = recalled /\ begun' = begun
                /\ ~RollbackSpeculativeParse /\ ~RollbackTrial
           \/ BeginSpeculativeParse \/ CommitSpeculativeParse \/ RollbackSpeculativeParse
           \/ BeginTrial \/ CommitTrial \/ RollbackTrial
           \/ UNCHANGED vars
<1>1. ASSUME Stepped PROVE ~RollbackSpeculativeParse /\ ~RollbackTrial
  <2>1. Len(begun') = Len(begun) /\ begun \in Seq(Graphs)
    BY <1>1 DEF Stepped, IInv, FileInv, FileOK
  <2>2. ASSUME Rollback PROVE FALSE
    <3>1. begun # <<>> /\ begun' = Front(begun)
      BY <2>2, EmptySeq DEF Rollback, IInv, FileInv, FileOK
    <3>2. Len(begun') = Len(begun) - 1
      BY <2>1, <3>1, FrontFacts
    <3> QED
      BY <2>1, <3>2
  <2> QED
    BY <2>2 DEF RollbackSpeculativeParse, RollbackTrial
<1>2. CASE Collect
  BY <1>1, <1>2, CollectInv DEF Collect, sessionVars
<1>3. ASSUME NEW b \in DOMAIN graph.bindings, RegisterCLanguageEntity(b)
      PROVE  Stepped /\ recalled' = recalled /\ begun' = begun
                /\ ~RollbackSpeculativeParse /\ ~RollbackTrial
  BY <1>1, <1>3, RegisterInv DEF RegisterCLanguageEntity
<1> QED
  BY <1>2, <1>3 DEF Next

\* The invariant is inductive.
LEMMA Inductive == Spec => []IInv
<1>1. Init => IInv
  BY InitFileInv, InitSession DEF Init, IInv
<1>2. IInv /\ [Next]_vars => IInv'
  <2> SUFFICES ASSUME IInv, [Next]_vars PROVE IInv'
    OBVIOUS
  <2>0. FileInv /\ SessionInv
    BY DEF IInv
  <2>1. CASE Collect
    BY <2>1, CollectInv
  <2>2. ASSUME NEW b \in DOMAIN graph.bindings, RegisterCLanguageEntity(b) PROVE IInv'
    BY <2>2, RegisterInv
  <2>3. CASE BeginSpeculativeParse
    BY <2>0, <2>3, BeginInv, BeginSession DEF BeginSpeculativeParse, IInv
  <2>4. CASE CommitSpeculativeParse
    BY <2>0, <2>4, CommitInv, CommitSession DEF CommitSpeculativeParse, IInv
  <2>5. CASE RollbackSpeculativeParse
    BY <2>0, <2>5, RollbackInv, RollbackSession DEF RollbackSpeculativeParse, IInv
  <2>6. CASE BeginTrial
    BY <2>0, <2>6, BeginInv, TrialSession DEF BeginTrial, IInv
  <2>7. CASE CommitTrial
    BY <2>0, <2>7, CommitInv, TrialSession DEF CommitTrial, IInv
  <2>8. CASE RollbackTrial
    BY <2>0, <2>8, RollbackInv, TrialSession DEF RollbackTrial, IInv
  <2>9. CASE UNCHANGED vars
    <3>1. /\ UNCHANGED <<graph, gens, transactions, begun>>
          /\ UNCHANGED <<memo, snapshots, leaked, recalled>>
      BY <2>9 DEF vars, sessionVars
    <3>2. FileInv'
      BY <2>0, <3>1 DEF FileInv, FileOK, Generated, Journalled, InOrder, Nested, AllSound, EndOf
    <3>3. SessionInv'
      BY <2>0, <3>1 DEF SessionInv, SessionOK, MemosLive, MemosKept, Tracked, Base
    <3> QED
      BY <3>2, <3>3 DEF IInv
  <2> QED
    BY <2>1, <2>2, <2>3, <2>4, <2>5, <2>6, <2>7, <2>8, <2>9 DEF Next
<1> QED
  BY <1>1, <1>2, PTL DEF Spec

-----------------------------------------------------------------------------
(* The results.                                                            *)

\* There is something to go back to.
LEMMA SavedFirst ==
    ASSUME IInv, transactions # <<>>
    PROVE  begun # <<>> /\ Last(begun) = begun[Len(begun)]
<1>1. begun \in Seq(Graphs) /\ begun # <<>>
  BY EmptySeq DEF IInv, FileInv, FileOK
<1> QED
  BY <1>1, FrontFacts

\* A rollback of the file goes back to the graph in which it was begun.
LEMMA RollbackRestores == ASSUME IInv, Rollback PROVE File!Rollback
<1>1. transactions # <<>> /\ begun' = Front(begun) /\ FileInv
  BY DEF Rollback, IInv
<1>2. graph' = begun[Len(begun)]
  BY <1>1, RollbackInv
<1> QED
  BY <1>1, <1>2, SavedFirst DEF File!Rollback, File!Front, File!Last, Front, Last

\* File::rollback_transaction: whatever happens inside a transaction, however the
\* transactions inside it end, and whether its records were journalled as a whole,
\* by deltas or by a commit, a rollback gives back the graph in which it was begun.
THEOREM FileRestored == Spec => FileRestores
<1>1. Init => File!Init
  BY DEF Init, FileInit, File!Init
<1>2. IInv /\ [Next]_vars => [File!Next]_<<graph, begun>>
  <2> SUFFICES ASSUME IInv, [Next]_vars PROVE [File!Next]_<<graph, begun>>
    OBVIOUS
  <2>1. CASE begun' = begun
    BY <2>1 DEF File!Next, File!Change
  <2>2. CASE Begin
    BY <2>2 DEF Begin, File!Next, File!Begin
  <2>3. CASE Commit
    BY <2>3, SavedFirst DEF Commit, File!Next, File!Commit, File!Front, Front
  <2>4. CASE Rollback
    BY <2>4, RollbackRestores DEF File!Next
  <2>5. (begun' = begun) \/ Begin \/ Commit \/ Rollback
    BY NextCases DEF BeginSpeculativeParse, CommitSpeculativeParse, RollbackSpeculativeParse,
                     BeginTrial, CommitTrial, RollbackTrial, vars
  <2> QED
    BY <2>1, <2>2, <2>3, <2>4, <2>5
<1>3. IInv /\ [Next]_vars => [RollbackSpeculativeParse \/ RollbackTrial => File!Rollback]_vars
  BY RollbackRestores DEF RollbackSpeculativeParse, RollbackTrial
<1> QED
  BY <1>1, <1>2, <1>3, Inductive, PTL DEF Spec, FileRestores, File!Spec

\* rollback_speculative_parse: the undo actions that track_speculative_rollback
\* collected leave of the session's memos just those that could be used when the
\* guard was made, although transactions without a guard end between them.
THEOREM MemosRestored == Spec => MemoRestores
<1>1. Init => Memos!Init
  BY DEF Init, SessionInit, Memos!Init
<1>2. ASSUME IInv, RollbackSpeculativeParse PROVE Memos!Rollback
  <2>1. FileInv /\ SessionInv /\ Guarded /\ recalled' = Front(recalled)
    BY <1>2 DEF IInv, RollbackSpeculativeParse
  <2>2. Known' = Last(recalled)
    BY <1>2, <2>1, RollbackSession
  <2>3. recalled # <<>>
    <3>1. snapshots # <<>> /\ snapshots \in Seq(Guards) /\ Len(recalled) = Len(snapshots)
      BY <2>1 DEF Guarded, SessionInv, SessionOK
    <3> QED
      BY <3>1, EmptySeq
  <2> QED
    BY <2>1, <2>2, <2>3 DEF Memos!Rollback, Memos!Front, Memos!Last, Front, Last
<1>3. IInv /\ [Next]_vars => [Memos!Next]_<<Known, recalled>>
  <2> SUFFICES ASSUME IInv, [Next]_vars PROVE [Memos!Next]_<<Known, recalled>>
    OBVIOUS
  <2>1. CASE recalled' = recalled
    BY <2>1 DEF Memos!Next, Memos!Change
  <2>2. CASE BeginSpeculativeParse
    <3>1. graph' = graph /\ gens' = gens /\ memo' = memo /\ recalled' = Append(recalled, Known)
      BY <2>2 DEF BeginSpeculativeParse, Begin
    <3>2. Known' = Known
      BY <3>1 DEF Known, ValidBinding
    <3> QED
      BY <3>1, <3>2 DEF Memos!Next, Memos!Begin
  <2>3. CASE CommitSpeculativeParse
    <3>1. /\ graph' = graph /\ gens' = gens /\ memo' = memo /\ recalled' = Front(recalled)
          /\ Guarded
      BY <2>3 DEF CommitSpeculativeParse, Commit
    <3>2. Known' = Known
      BY <3>1 DEF Known, ValidBinding
    <3>3. snapshots # <<>> /\ snapshots \in Seq(Guards) /\ Len(recalled) = Len(snapshots)
      BY <3>1 DEF Guarded, IInv, SessionInv, SessionOK
    <3>4. recalled # <<>>
      BY <3>3, EmptySeq
    <3> QED
      BY <3>1, <3>2, <3>4 DEF Memos!Next, Memos!Commit, Memos!Front, Front
  <2>4. CASE RollbackSpeculativeParse
    BY <1>2, <2>4 DEF Memos!Next
  <2>5. \/ recalled' = recalled
        \/ BeginSpeculativeParse \/ CommitSpeculativeParse \/ RollbackSpeculativeParse
    BY NextCases DEF BeginTrial, CommitTrial, RollbackTrial, vars, sessionVars
  <2> QED
    BY <2>1, <2>2, <2>3, <2>4, <2>5
<1>4. IInv /\ [Next]_vars => [RollbackSpeculativeParse => Memos!Rollback]_vars
  BY <1>2
<1> QED
  BY <1>1, <1>3, <1>4, Inductive, PTL DEF Spec, MemoRestores, Memos!Spec

\* Whatever was rolled back, the ids in the contexts, the predecessors of the
\* bindings and the index of names are those of live records, and so is a memo that
\* was not written in a transaction without a guard.
THEOREM NothingDangles == Spec => []NoDangling
<1>1. IInv => NoDangling
  <2> SUFFICES ASSUME IInv PROVE NoDangling
    OBVIOUS
  <2>1. Sound(graph, gens) /\ MemosLive
    BY DEF IInv, FileInv, AllSound, SessionInv
  <2>2. \A c \in DOMAIN graph.contexts :
           /\ \A i \in DOMAIN graph.contexts[c].bindings :
                 ValidBinding(graph.contexts[c].bindings[i])
           /\ \A i \in DOMAIN graph.contexts[c].children :
                 ValidContext(graph.contexts[c].children[i])
           /\ \A i \in DOMAIN graph.contexts[c].using : ValidContext(graph.contexts[c].using[i])
           /\ \A n \in Names : graph.contexts[c].index[n] # NoId =>
                 ValidBinding(graph.contexts[c].index[n])
    BY <2>1 DEF Sound, ContextSound, ValidBinding, ValidContext
  <2>3. \A b \in DOMAIN graph.bindings : graph.bindings[b].predecessor # NoId =>
           ValidBinding(graph.bindings[b].predecessor)
    BY <2>1 DEF Sound, ValidBinding
  <2>4. \A i \in DOMAIN graph.names :
           graph.name_index[graph.names[i]] = [index |-> i, gen |-> gens.names[i]]
    BY <2>1 DEF Sound, NamesSound
  <2>5. Stale(memo, graph) \subseteq leaked
    BY <2>1 DEF MemosLive, Holds, Stale
  <2> QED
    BY <2>2, <2>3, <2>4, <2>5 DEF NoDangling
<1> QED
  BY <1>1, Inductive, PTL

\* valid_id: an id whose record was rolled back stays invalid for good, although
\* its slot is used again, because the slot's next record has its next generation.
THEOREM StaleStays == Spec => StaysStale
<1>1. ASSUME IInv, [Next]_vars
      PROVE  \A id \in Issued(gens.bindings) : ~ValidBinding(id) => ~ValidBinding(id)'
  <2> SUFFICES ASSUME NEW id \in Issued(gens.bindings), ~ValidBinding(id)
               PROVE  ~Valid(id, graph'.bindings, gens'.bindings)
    BY DEF ValidBinding
  <2>0. /\ graph \in Graphs /\ gens \in AllGens /\ gens.bindings \in Seq(Nat \ {0})
        /\ Len(graph.bindings) \in Nat
    BY <1>1, Lengths DEF IInv, FileInv, FileOK, AllGens, Gens
  <2>a. PICK i \in DOMAIN gens.bindings :
           \E k \in 1 .. gens.bindings[i] : id = [index |-> i, gen |-> k]
    BY DEF Issued
  <2>1. PICK k \in 1 .. gens.bindings[i] : id = [index |-> i, gen |-> k]
    BY <2>a
  <2>2. /\ id.index = i /\ id.gen = k /\ id # NoId /\ i \in Nat \ {0} /\ k \in Nat
        /\ gens.bindings[i] \in Nat /\ k <= gens.bindings[i]
    <3>1. i \in Nat \ {0} /\ gens.bindings[i] \in Nat
      BY <2>0, <2>1
    <3>2. k \in Nat /\ k <= gens.bindings[i]
      BY <2>1, <3>1
    <3>3. id \in Ids
      BY <2>1, <3>1, <3>2 DEF Ids
    <3> QED
      BY <2>1, <3>1, <3>2, <3>3, CirFileAssumption
  <2>3. i \in 1 .. Len(graph.bindings) => gens.bindings[i] # k
    BY <2>2 DEF ValidBinding, Valid
  <2>4. CASE Stepped
    <3>1. gens' \in AllGens /\ Fresh
      BY <2>4 DEF Stepped
    <3>2. /\ i \in DOMAIN gens'.bindings /\ gens.bindings[i] <= gens'.bindings[i]
          /\ i \in 1 .. Len(graph'.bindings) /\ i \notin 1 .. Len(graph.bindings) =>
                gens.bindings[i] < gens'.bindings[i]
      BY <2>1, <3>1 DEF Fresh
    <3>3. gens'.bindings[i] \in Nat
      BY <3>1, <3>2 DEF AllGens, Gens
    <3>4. i \in 1 .. Len(graph'.bindings) => gens'.bindings[i] # k
      BY <2>2, <2>3, <3>2, <3>3
    <3> QED
      BY <2>2, <3>4 DEF Valid
  <2>5. CASE graph' = graph /\ gens' = gens
    BY <2>2, <2>3, <2>5 DEF Valid
  <2>6. CASE Rollback
    <3>1. /\ graph' = begun[Len(begun)] /\ gens' = gens /\ FileInv /\ begun # <<>>
          /\ begun \in Seq(Graphs)
      BY <1>1, <2>6, RollbackInv, SavedFirst DEF IInv, Rollback, FileInv, FileOK
    <3>2. Len(begun) \in DOMAIN begun
      BY <3>1, EmptySeq
    <3>3. Within(graph', graph) /\ graph' \in Graphs
      BY <3>1, <3>2 DEF FileInv, Nested
    <3>4. Len(graph'.bindings) \in Nat /\ Len(graph'.bindings) <= Len(graph.bindings)
      BY <3>3, Lengths DEF Within
    <3>5. i \in 1 .. Len(graph'.bindings) => i \in 1 .. Len(graph.bindings)
      BY <2>0, <2>2, <3>4
    <3> QED
      BY <2>2, <2>3, <3>1, <3>5 DEF Valid
  <2>7. Stepped \/ (graph' = graph /\ gens' = gens) \/ Rollback
    BY <1>1, NextCases DEF BeginSpeculativeParse, CommitSpeculativeParse,
         RollbackSpeculativeParse, BeginTrial, CommitTrial, RollbackTrial, Begin, Commit, vars
  <2> QED
    BY <2>4, <2>5, <2>6, <2>7
<1>2. IInv /\ [Next]_vars =>
         [\A id \in Issued(gens.bindings) : ~ValidBinding(id) => ~ValidBinding(id)']_vars
  BY <1>1
<1> QED
  BY <1>2, Inductive, PTL DEF Spec, StaysStale

-----------------------------------------------------------------------------
(* CoroSplit: graphs.  Reach takes as many rounds as there are nodes; that it *)
(* is closed under the edges then is a matter of counting.                    *)

\* A round of Reach.

Next1(nodes, succ, reached) == reached \cup ((UNION {succ[b] : b \in reached}) \cap nodes)

Round0(nodes, start) == {start} \cap nodes

Rounds(nodes, succ, start, N, R) ==
  R = [k \in 0 .. N |-> IF k = 0 THEN Round0(nodes, start) ELSE Next1(nodes, succ, R[k - 1])]

\* The recursive function of Reach exists.
LEMMA RoundsExist ==
  ASSUME NEW nodes, NEW succ, NEW start, NEW N \in Nat
  PROVE  \E R : Rounds(nodes, succ, start, N, R)
<1> DEFINE T == {n \in Nat : ~ \E R : Rounds(nodes, succ, start, n, R)}
<1> SUFFICES ASSUME T # {} PROVE FALSE
  OBVIOUS
<1>1. PICK n \in T : \A m \in T : n <= m
  BY LeastNat
<1>2. CASE n = 0
  <2> DEFINE R == [k \in 0 .. 0 |-> Round0(nodes, start)]
  <2>1. Rounds(nodes, succ, start, 0, R)
    BY DEF Rounds
  <2> QED BY <1>2, <2>1
<1>3. CASE n # 0
  <2>1. n - 1 \in Nat /\ n - 1 \notin T /\ n \in Nat
    BY <1>1, <1>3
  <2>2. PICK G : Rounds(nodes, succ, start, n - 1, G)
    BY <2>1
  <2> DEFINE R == [k \in 0 .. n |-> IF k < n THEN G[k] ELSE Next1(nodes, succ, G[n - 1])]
  <2>3. \A k \in 0 .. n : R[k] = IF k = 0 THEN Round0(nodes, start) ELSE Next1(nodes, succ, R[k - 1])
    <3> SUFFICES ASSUME NEW k \in 0 .. n
                 PROVE R[k] = IF k = 0 THEN Round0(nodes, start) ELSE Next1(nodes, succ, R[k - 1])
      OBVIOUS
    <3>1. CASE k = 0
      BY <1>3, <2>1, <2>2, <3>1 DEF Rounds
    <3>2. CASE k # 0 /\ k < n
      <4>0. k \in 0 .. n /\ k < n /\ k - 1 \in 0 .. n /\ k - 1 < n
        BY <3>2, <2>1
      <4>1. R[k] = G[k] /\ R[k - 1] = G[k - 1]
        BY <4>0
      <4>2. G[k] = Next1(nodes, succ, G[k - 1])
        <5>1. k \in 0 .. n - 1
          BY <3>2, <2>1
        <5> QED BY <5>1, <3>2, <2>2, Zenon DEF Rounds
      <4> QED BY <3>2, <4>1, <4>2
    <3>3. CASE k = n
      <4>1. R[n - 1] = G[n - 1]
        BY <2>1
      <4> QED BY <3>3, <1>3, <4>1, <2>1
    <3> QED BY <3>1, <3>2, <3>3, <2>1
  <2>4. Rounds(nodes, succ, start, n, R)
    BY <2>3, Zenon DEF Rounds
  <2> QED BY <1>1, <2>4
<1> QED BY <1>2, <1>3

\* Reach is its last round.
LEMMA ReachIs ==
  ASSUME NEW nodes, NEW succ, NEW start, IsFiniteSet(nodes)
  PROVE  \E R : /\ Rounds(nodes, succ, start, Cardinality(nodes), R)
                /\ Reach(nodes, succ, start) = R[Cardinality(nodes)]
<1> DEFINE N == Cardinality(nodes)
<1>1. N \in Nat
  BY FS_CardinalityType
<1> DEFINE G == CHOOSE R : R = [k \in 0 .. N |-> IF k = 0 THEN {start} \cap nodes
                                ELSE R[k - 1] \cup ((UNION {succ[b] : b \in R[k - 1]}) \cap nodes)]
<1>2. Reach(nodes, succ, start) = G[N]
  BY DEF Reach
<1>3. G = [k \in 0 .. N |-> IF k = 0 THEN {start} \cap nodes
                     ELSE G[k - 1] \cup ((UNION {succ[b] : b \in G[k - 1]}) \cap nodes)]
  <2>1. PICK R : Rounds(nodes, succ, start, N, R)
    BY <1>1, RoundsExist
  <2>2. R = [k \in 0 .. N |-> IF k = 0 THEN {start} \cap nodes
                     ELSE R[k - 1] \cup ((UNION {succ[b] : b \in R[k - 1]}) \cap nodes)]
    BY <2>1 DEF Rounds, Next1, Round0
  <2> HIDE DEF N
  <2> QED BY <2>2, Zenon
<1>4. Rounds(nodes, succ, start, N, G)
  BY <1>3, Zenon DEF Rounds, Next1, Round0
<1> QED BY <1>2, <1>4

\* How a round follows from the one before.
LEMMA RoundsStep ==
  ASSUME NEW nodes, NEW succ, NEW start, NEW N \in Nat, NEW R,
         Rounds(nodes, succ, start, N, R)
  PROVE  /\ R[0] = Round0(nodes, start)
         /\ \A k \in 0 .. N - 1 : R[k + 1] = Next1(nodes, succ, R[k])
<1>1. R[0] = Round0(nodes, start)
  <2>1. 0 \in 0 .. N
    OBVIOUS
  <2> QED BY <2>1, Zenon DEF Rounds
<1>2. ASSUME NEW k \in 0 .. N - 1 PROVE R[k + 1] = Next1(nodes, succ, R[k])
  <2>1. k + 1 \in 0 .. N /\ k + 1 # 0 /\ (k + 1) - 1 = k
    OBVIOUS
  <2>2. R[k + 1] = Next1(nodes, succ, R[(k + 1) - 1])
    BY <2>1, Zenon DEF Rounds
  <2> QED BY <2>1, <2>2
<1> QED BY <1>1, <1>2

\* A round adds the successors that are nodes, and nothing else.
LEMMA Next1Bounds ==
  ASSUME NEW nodes, NEW succ, NEW reached
  PROVE  /\ reached \subseteq Next1(nodes, succ, reached)
         /\ reached \subseteq nodes => Next1(nodes, succ, reached) \subseteq nodes
         /\ \A b \in reached : succ[b] \cap nodes \subseteq Next1(nodes, succ, reached)
<1> DEFINE U == UNION {succ[b] : b \in reached}
<1>1. \A b \in reached : succ[b] \subseteq U
  OBVIOUS
<1>2. Next1(nodes, succ, reached) = reached \cup (U \cap nodes)
  BY Zenon DEF Next1
<1> HIDE DEF U
<1> QED BY <1>1, <1>2

\* Reach(nodes, succ, start) is the set of nodes a walk from start can reach: it has
\* start and is closed under succ.
LEMMA ReachClosed ==
  ASSUME NEW nodes, NEW succ, NEW start, IsFiniteSet(nodes)
  PROVE  /\ Reach(nodes, succ, start) \subseteq nodes
         /\ start \in nodes => start \in Reach(nodes, succ, start)
         /\ \A b \in Reach(nodes, succ, start) :
               succ[b] \cap nodes \subseteq Reach(nodes, succ, start)
<1>1. PICK N \in Nat : N = Cardinality(nodes)
  BY FS_CardinalityType
<1>2. PICK R : Rounds(nodes, succ, start, N, R) /\ Reach(nodes, succ, start) = R[N]
  BY <1>1, ReachIs
<1>3. /\ R[0] = Round0(nodes, start)
      /\ \A k \in 0 .. N - 1 : R[k + 1] = Next1(nodes, succ, R[k])
  BY <1>2, RoundsStep
<1>4. \A k \in 0 .. N : {start} \cap nodes \subseteq R[k] /\ R[k] \subseteq nodes
  <2> DEFINE T == {k \in 0 .. N : ~({start} \cap nodes \subseteq R[k] /\ R[k] \subseteq nodes)}
  <2> SUFFICES ASSUME T # {} PROVE FALSE
    OBVIOUS
  <2>0. T \subseteq Nat
    BY <1>1
  <2>1. PICK k \in T : \A m \in T : k <= m
    BY LeastNat, <2>0
  <2>2. CASE k = 0
    BY <2>1, <2>2, <1>3 DEF Round0
  <2>3. CASE k # 0
    <3>1. k - 1 \in 0 .. N - 1 /\ k - 1 \in 0 .. N /\ k - 1 < k /\ (k - 1) + 1 = k
      BY <2>1, <2>3, <1>1
    <3>2. k - 1 \notin T
      BY <3>1, <2>1
    <3>3. R[k] = Next1(nodes, succ, R[k - 1])
      BY <3>1, <1>3
    <3>4. {start} \cap nodes \subseteq R[k - 1] /\ R[k - 1] \subseteq nodes
      BY <3>1, <3>2
    <3> QED BY <2>1, <3>3, <3>4, Next1Bounds
  <2> QED BY <2>2, <2>3
<1>5. ASSUME NEW k \in 0 .. N, Next1(nodes, succ, R[k]) = R[k] PROVE R[N] = R[k]
  <2> DEFINE T == {j \in k .. N : R[j] # R[k]}
  <2> SUFFICES ASSUME T # {} PROVE FALSE
    BY <1>1
  <2>0. T \subseteq Nat
    BY <1>1
  <2>1. PICK j \in T : \A m \in T : j <= m
    BY LeastNat, <2>0
  <2>2. j # k
    BY <2>1
  <2>3. j - 1 \in k .. N /\ j - 1 \in 0 .. N - 1 /\ j - 1 < j /\ (j - 1) + 1 = j
    BY <2>1, <2>2, <1>1
  <2>4. R[j - 1] = R[k]
    BY <2>1, <2>3
  <2>5. R[j] = Next1(nodes, succ, R[j - 1])
    BY <2>3, <1>3
  <2> QED BY <2>1, <2>4, <2>5, <1>5
<1>6. Next1(nodes, succ, R[N]) = R[N]
  <2> SUFFICES ASSUME Next1(nodes, succ, R[N]) # R[N] PROVE FALSE
    OBVIOUS
  <2>1. \A k \in 0 .. N - 1 : R[k + 1] # R[k]
    <3> SUFFICES ASSUME NEW k \in 0 .. N - 1, R[k + 1] = R[k] PROVE FALSE
      OBVIOUS
    <3>1. k \in 0 .. N
      BY <1>1
    <3>2. Next1(nodes, succ, R[k]) = R[k]
      BY <1>3
    <3>3. R[N] = R[k]
      BY <3>1, <3>2, <1>5
    <3> QED BY <3>2, <3>3
  <2>2. R[0] # {}
    <3> SUFFICES ASSUME R[0] = {} PROVE FALSE
      OBVIOUS
    <3>1. Next1(nodes, succ, R[0]) = R[0]
      BY DEF Next1
    <3>2. R[N] = R[0]
      BY <3>1, <1>5, <1>1
    <3> QED BY <3>1, <3>2
  <2>3. \A k \in 0 .. N : IsFiniteSet(R[k]) /\ Cardinality(R[k]) \in Nat
    BY <1>4, FS_Subset, FS_CardinalityType
  <2> DEFINE T == {k \in 0 .. N : ~(Cardinality(R[k]) > k)}
  <2>4. T = {}
    <3> SUFFICES ASSUME T # {} PROVE FALSE
      OBVIOUS
    <3>0. T \subseteq Nat
      BY <1>1
    <3>1. PICK k \in T : \A m \in T : k <= m
      BY LeastNat, <3>0
    <3>2. CASE k = 0
      BY <3>1, <3>2, <2>2, <2>3, FS_EmptySet
    <3>3. CASE k # 0
      <4>1. k - 1 \in 0 .. N - 1 /\ k - 1 \in 0 .. N /\ k - 1 < k /\ (k - 1) + 1 = k
        BY <3>1, <3>3, <1>1
      <4>2. Cardinality(R[k - 1]) > k - 1
        BY <4>1, <3>1
      <4>3. R[k] = Next1(nodes, succ, R[k - 1]) /\ R[k] # R[k - 1]
        BY <4>1, <1>3, <2>1
      <4>4. R[k - 1] \subseteq R[k]
        BY <4>3, Next1Bounds
      <4>5. Cardinality(R[k - 1]) < Cardinality(R[k])
        <5>1. IsFiniteSet(R[k]) /\ Cardinality(R[k]) \in Nat /\ Cardinality(R[k - 1]) \in Nat
          BY <2>3, <3>1, <4>1
        <5>2. /\ Cardinality(R[k - 1]) <= Cardinality(R[k])
              /\ Cardinality(R[k]) = Cardinality(R[k - 1]) => R[k] = R[k - 1]
          BY <5>1, <4>4, FS_Subset
        <5> QED BY <5>1, <5>2, <4>3
      <4> QED BY <4>1, <4>2, <4>5, <2>3, <3>1
    <3> QED BY <3>2, <3>3
  <2>5. Cardinality(R[N]) <= N
    BY <1>1, <1>4, FS_Subset
  <2>6. N \in 0 .. N
    BY <1>1
  <2>7. Cardinality(R[N]) > N
    BY <2>4, <2>6
  <2> QED BY <2>5, <2>7, <2>3, <2>6, <1>1
<1>7. \A b \in R[N] : succ[b] \cap nodes \subseteq R[N]
  BY <1>6, Next1Bounds
<1>8. N \in 0 .. N
  BY <1>1
<1> QED BY <1>2, <1>4, <1>7, <1>8

\* A node other than the root is entered from a node that has all its other dominators.
LEMMA DominatorsStep ==
  ASSUME NEW nodes, NEW succ, NEW root, IsFiniteSet(nodes), root \in nodes
  PROVE  /\ Dominators(nodes, succ, root)[root] \subseteq {root}
         /\ \A b, c \in nodes :
               c \in succ[b] => Dominators(nodes, succ, root)[c] \ {c}
                                    \subseteq Dominators(nodes, succ, root)[b]
<1> DEFINE W(d) == Reach(nodes \ {d}, succ, root)
<1>1. \A n \in nodes : Dominators(nodes, succ, root)[n] = {d \in nodes : n \notin W(d)}
  BY DEF Dominators
<1>2. \A d \in nodes : IsFiniteSet(nodes \ {d})
  BY FS_Subset
<1>3. \A d \in nodes : root # d => root \in W(d)
  BY <1>2, ReachClosed
<1>4. ASSUME NEW b \in nodes, NEW c \in nodes, c \in succ[b],
             NEW d \in nodes, d # c, b \in W(d)
      PROVE  c \in W(d)
  <2>1. succ[b] \cap (nodes \ {d}) \subseteq W(d)
    BY <1>2, <1>4, ReachClosed
  <2> QED BY <2>1, <1>4
<1> HIDE DEF W
<1>5. Dominators(nodes, succ, root)[root] \subseteq {root}
  BY <1>1, <1>3
<1>6. ASSUME NEW b \in nodes, NEW c \in nodes, c \in succ[b]
      PROVE  Dominators(nodes, succ, root)[c] \ {c} \subseteq Dominators(nodes, succ, root)[b]
  BY <1>1, <1>4, <1>6
<1> QED BY <1>5, <1>6

-----------------------------------------------------------------------------
(* Walks in a part. *)

Dom(p) == Dominators(p.live, SuccsOf(p), p.entry)

Graph(p) ==
  /\ IsFiniteSet(Blocks(p)) /\ p.entry \in Blocks(p)
  /\ p.live = Reach(Blocks(p), SuccsOf(p), p.entry)
  /\ \A b \in Blocks(p) : p.blocks[b].code \in Seq(Instruction)

\* What is in Before.
LEMMA BeforeIs ==
  ASSUME NEW p, NEW dom, NEW b, NEW pos \in Nat, NEW i
  PROVE  i \in Before(p, dom, b, pos) <=>
           \/ \E j \in 1 .. pos - 1 : i = p.blocks[b].code[j]
           \/ \E d \in dom[b] \ {b} : \E j \in DOMAIN p.blocks[d].code : i = p.blocks[d].code[j]
BY DEF Before, Range

\* Past an instruction there is one more.
LEMMA BeforeNext ==
  ASSUME NEW p, NEW dom, NEW b, NEW pos \in Nat \ {0}, NEW i \in Before(p, dom, b, pos + 1)
  PROVE  i \in Before(p, dom, b, pos) \/ i = p.blocks[b].code[pos]
<1>1. \A j \in 1 .. (pos + 1) - 1 : j \in 1 .. pos - 1 \/ j = pos
  OBVIOUS
<1>2. pos + 1 \in Nat /\ pos \in Nat
  OBVIOUS
<1>3. CASE \E j \in 1 .. (pos + 1) - 1 : i = p.blocks[b].code[j]
  BY <1>1, <1>2, <1>3, BeforeIs
<1>4. CASE \E d \in dom[b] \ {b} : \E j \in DOMAIN p.blocks[d].code : i = p.blocks[d].code[j]
  BY <1>2, <1>4, BeforeIs
<1> QED BY <1>2, <1>3, <1>4, BeforeIs

\* A walk along the edges of a part stays among its live blocks, and at each block
\* the instructions of the blocks that dominate it have been run.
LEMMA GraphWalk ==
  ASSUME NEW p, Graph(p)
  PROVE  /\ p.live \subseteq Blocks(p)
         /\ p.entry \in p.live
         /\ \A i : i \notin Before(p, Dom(p), p.entry, 1)
         /\ \A b \in p.live : \A c \in SuccsOf(p)[b] \cap Blocks(p) :
               /\ c \in p.live
               /\ \A i \in Before(p, Dom(p), c, 1) :
                     i \in Before(p, Dom(p), b, Len(p.blocks[b].code) + 1)
<1>1. /\ p.live \subseteq Blocks(p)
      /\ p.entry \in p.live
      /\ \A b \in p.live : \A c \in SuccsOf(p)[b] \cap Blocks(p) : c \in p.live
  BY ReachClosed DEF Graph
<1>2. IsFiniteSet(p.live)
  BY <1>1, FS_Subset DEF Graph
<1>3. /\ Dom(p)[p.entry] \subseteq {p.entry}
      /\ \A b, c \in p.live : c \in SuccsOf(p)[b] => Dom(p)[c] \ {c} \subseteq Dom(p)[b]
  BY <1>1, <1>2, DominatorsStep DEF Dom
<1>4. \A i : i \notin Before(p, Dom(p), p.entry, 1)
  <2>1. 1 \in Nat /\ 1 .. 1 - 1 = {}
    OBVIOUS
  <2> QED BY <1>3, <2>1, BeforeIs
<1>5. ASSUME NEW b \in p.live, NEW c \in SuccsOf(p)[b] \cap Blocks(p),
             NEW i \in Before(p, Dom(p), c, 1)
      PROVE  i \in Before(p, Dom(p), b, Len(p.blocks[b].code) + 1)
  <2>1. c \in p.live /\ b \in Blocks(p)
    BY <1>1, <1>5
  <2>2. 1 \in Nat /\ 1 .. 1 - 1 = {}
    OBVIOUS
  <2>3. PICK d \in Dom(p)[c] \ {c} : \E j \in DOMAIN p.blocks[d].code : i = p.blocks[d].code[j]
    BY <2>2, BeforeIs
  <2>4. d \in Dom(p)[b]
    BY <1>3, <1>5, <2>1, <2>3
  <2>5. p.blocks[b].code \in Seq(Instruction)
    BY <2>1 DEF Graph
  <2>6. /\ Len(p.blocks[b].code) + 1 \in Nat
        /\ \A j \in DOMAIN p.blocks[b].code : j \in 1 .. (Len(p.blocks[b].code) + 1) - 1
    BY <2>5
  <2>7. CASE d = b
    BY <2>3, <2>6, <2>7, BeforeIs
  <2>8. CASE d # b
    BY <2>3, <2>4, <2>6, <2>8, BeforeIs
  <2> QED BY <2>7, <2>8
<1> QED BY <1>1, <1>4, <1>5

-----------------------------------------------------------------------------
(* The parts of a function, and the whole of it. *)

PartNames == {"ramp", "resume", "destroy"}

IsDestroy(p) == IF p = "destroy" THEN TRUE ELSE FALSE

PartOf(f, p) == IF p = "ramp" THEN Ramp(f) ELSE Clone(f, IsDestroy(p))

\* The types in a function.
LEMMA FunctionType ==
  ASSUME NEW f, WellFormed(f)
  PROVE  /\ Len(f.blocks) \in Nat /\ Blocks(f) = 1 .. Len(f.blocks)
         /\ IsFiniteSet(Blocks(f))
         /\ \A b \in Blocks(f) : f.blocks[b] \in CoroBlock
<1>1. f.blocks \in Seq(CoroBlock)
  BY DEF WellFormed
<1>2. Len(f.blocks) \in Nat /\ Blocks(f) = 1 .. Len(f.blocks)
  BY <1>1 DEF Blocks
<1>3. IsFiniteSet(Blocks(f))
  BY <1>2, FS_Interval
<1>4. \A b \in Blocks(f) : f.blocks[b] \in CoroBlock
  BY <1>1, <1>2
<1> QED BY <1>2, <1>3, <1>4

\* prune_unreachable keeps all but the blocks that are not live.
LEMMA PrunedIs ==
  ASSUME NEW blocks, NEW entry, NEW cases, NEW q,
         q = Pruned([blocks |-> blocks, entry |-> entry, cases |-> cases, live |-> {}])
  PROVE  /\ q.blocks = blocks /\ q.entry = entry /\ q.cases = cases
         /\ q.live = Reach(Blocks(q), SuccsOf(q), q.entry)
<1> DEFINE p == [blocks |-> blocks, entry |-> entry, cases |-> cases, live |-> {}]
<1>1. q.blocks = blocks /\ q.entry = entry /\ q.cases = cases
  BY DEF Pruned
<1>2. q.live = Reach(Blocks(p), SuccsOf(p), p.entry)
  BY DEF Pruned
<1>3. Blocks(p) = Blocks(q) /\ p.entry = q.entry
  BY <1>1 DEF Blocks
<1>4. SuccsOf(p) = SuccsOf(q)
  BY <1>1 DEF SuccsOf, Blocks, Succs
<1> QED BY <1>1, <1>2, <1>3, <1>4

\* What the parts keep of a block.
Keeps(x, y) ==
  /\ x.code = y.code /\ x.uses = y.uses /\ x.reloads = y.reloads
  /\ x.unwind = y.unwind /\ x.throws = y.throws

\* rewrite_ramp: the blocks of the ramp.
LEMMA RampIs ==
  ASSUME NEW f, WellFormed(f)
  PROVE  /\ Ramp(f).entry = 1 /\ Ramp(f).cases = {} /\ Blocks(Ramp(f)) = Blocks(f)
         /\ Ramp(f).live = Reach(Blocks(Ramp(f)), SuccsOf(Ramp(f)), Ramp(f).entry)
         /\ \A b \in Blocks(f) :
              /\ Keeps(Ramp(f).blocks[b], f.blocks[b])
              /\ Leaves(f.blocks[b]) => /\ Ramp(f).blocks[b].kind = "branch"
                                        /\ Ramp(f).blocks[b].to = <<f.ramp_return>>
              /\ ~Leaves(f.blocks[b]) => Ramp(f).blocks[b] = f.blocks[b]
<1> DEFINE B == [b \in Blocks(f) |->
                IF Leaves(f.blocks[b])
                THEN [f.blocks[b] EXCEPT !.kind = "branch", !.to = <<f.ramp_return>>]
                ELSE f.blocks[b]]
<1>1. Ramp(f) = Pruned([blocks |-> B, entry |-> 1, cases |-> {}, live |-> {}])
  BY DEF Ramp
<1>2. \A b \in Blocks(f) :
              /\ Keeps(B[b], f.blocks[b])
              /\ Leaves(f.blocks[b]) => /\ B[b].kind = "branch"
                                        /\ B[b].to = <<f.ramp_return>>
              /\ ~Leaves(f.blocks[b]) => B[b] = f.blocks[b]
  <2> SUFFICES ASSUME NEW b \in Blocks(f)
               PROVE  /\ Keeps(B[b], f.blocks[b])
                      /\ Leaves(f.blocks[b]) => /\ B[b].kind = "branch"
                                        /\ B[b].to = <<f.ramp_return>>
                      /\ ~Leaves(f.blocks[b]) => B[b] = f.blocks[b]
    OBVIOUS
  <2>1. f.blocks[b] \in CoroBlock
    BY FunctionType
  <2> QED BY <2>1 DEF Keeps, CoroBlock
<1>3. DOMAIN B = Blocks(f)
  OBVIOUS
<1> HIDE DEF B
<1>4. /\ Ramp(f).blocks = B /\ Ramp(f).entry = 1 /\ Ramp(f).cases = {}
      /\ Ramp(f).live = Reach(Blocks(Ramp(f)), SuccsOf(Ramp(f)), Ramp(f).entry)
  BY <1>1, PrunedIs
<1>5. Blocks(Ramp(f)) = Blocks(f)
  BY <1>3, <1>4 DEF Blocks
<1> QED BY <1>2, <1>4, <1>5

\* build_clone: the blocks of a clone.
LEMMA CloneIs ==
  ASSUME NEW f, WellFormed(f), NEW isDestroy
  PROVE  /\ Clone(f, isDestroy).entry = Len(f.blocks) + 1
         /\ Clone(f, isDestroy).cases = Cases(f, isDestroy)
         /\ Blocks(Clone(f, isDestroy)) = 1 .. Len(f.blocks) + 2
         /\ Len(Clone(f, isDestroy).blocks) = Len(f.blocks) + 2
         /\ Clone(f, isDestroy).live =
              Reach(Blocks(Clone(f, isDestroy)), SuccsOf(Clone(f, isDestroy)), Clone(f, isDestroy).entry)
         /\ Clone(f, isDestroy).blocks[Len(f.blocks) + 1] = Block("switch", <<Len(f.blocks) + 2>>)
         /\ Clone(f, isDestroy).blocks[Len(f.blocks) + 2] = Block("unreachable", <<>>)
         /\ \A b \in Blocks(f) :
              /\ Keeps(Clone(f, isDestroy).blocks[b], f.blocks[b])
              /\ Leaves(f.blocks[b]) => /\ Clone(f, isDestroy).blocks[b].kind = "return"
                                        /\ Clone(f, isDestroy).blocks[b].to = <<>>
              /\ ~Leaves(f.blocks[b]) => Clone(f, isDestroy).blocks[b] = f.blocks[b]
<1> DEFINE n == Len(f.blocks)
           B == [b \in Blocks(f) |->
                    IF Leaves(f.blocks[b])
                    THEN [f.blocks[b] EXCEPT !.kind = "return", !.to = <<>>] ELSE f.blocks[b]]
           x == Block("switch", <<n + 2>>)
           y == Block("unreachable", <<>>)
           A == B \o <<x, y>>
           q == Clone(f, isDestroy)
<1>1. q = Pruned([blocks |-> A, entry |-> n + 1, cases |-> Cases(f, isDestroy), live |-> {}])
  BY DEF Clone
<1>2. \A b \in Blocks(f) :
              /\ Keeps(B[b], f.blocks[b])
              /\ Leaves(f.blocks[b]) => /\ B[b].kind = "return"
                                        /\ B[b].to = <<>>
              /\ ~Leaves(f.blocks[b]) => B[b] = f.blocks[b]
  <2> SUFFICES ASSUME NEW b \in Blocks(f)
               PROVE  /\ Keeps(B[b], f.blocks[b])
                      /\ Leaves(f.blocks[b]) => /\ B[b].kind = "return"
                                        /\ B[b].to = <<>>
                      /\ ~Leaves(f.blocks[b]) => B[b] = f.blocks[b]
    OBVIOUS
  <2>1. f.blocks[b] \in CoroBlock
    BY FunctionType
  <2> QED BY <2>1 DEF Keeps, CoroBlock
<1>3. n \in Nat /\ Blocks(f) = 1 .. n
  BY FunctionType
<1>4a. B = [b \in 1 .. n |-> B[b]]
  BY <1>3
<1> HIDE DEF B, n, x, y
<1>4. B \in Seq({B[b] : b \in 1 .. n}) /\ Len(B) = n
  BY <1>3, <1>4a
<1>5. /\ Len(A) = n + 2 /\ A[n + 1] = x /\ A[n + 2] = y /\ DOMAIN A = 1 .. n + 2
      /\ \A b \in 1 .. n : A[b] = B[b]
  BY <1>3, <1>4
<1> HIDE DEF A
<1>6. /\ q.blocks = A /\ q.entry = n + 1 /\ q.cases = Cases(f, isDestroy)
      /\ q.live = Reach(Blocks(q), SuccsOf(q), q.entry)
  <2> HIDE DEF q
  <2> QED BY <1>1, PrunedIs
<1> USE DEF n, x, y
<1>7. Blocks(q) = 1 .. n + 2
  BY <1>5, <1>6 DEF Blocks
<1>8. \A b \in Blocks(f) : q.blocks[b] = B[b]
  BY <1>3, <1>5, <1>6
<1> HIDE DEF q
<1>9. /\ q.entry = Len(f.blocks) + 1
      /\ q.cases = Cases(f, isDestroy)
      /\ Blocks(q) = 1 .. Len(f.blocks) + 2
      /\ Len(q.blocks) = Len(f.blocks) + 2
      /\ q.live = Reach(Blocks(q), SuccsOf(q), q.entry)
      /\ q.blocks[Len(f.blocks) + 1] = Block("switch", <<Len(f.blocks) + 2>>)
      /\ q.blocks[Len(f.blocks) + 2] = Block("unreachable", <<>>)
  BY <1>5, <1>6, <1>7
<1>10. \A b \in Blocks(f) :
              /\ Keeps(q.blocks[b], f.blocks[b])
              /\ Leaves(f.blocks[b]) => /\ q.blocks[b].kind = "return"
                                        /\ q.blocks[b].to = <<>>
              /\ ~Leaves(f.blocks[b]) => q.blocks[b] = f.blocks[b]
  BY <1>2, <1>8
<1> QED BY <1>9, <1>10 DEF q

\* A part is a graph that has the code of the function.
LEMMA PartGraph ==
  ASSUME NEW f, WellFormed(f), NEW p \in PartNames
  PROVE  /\ Graph(PartOf(f, p)) /\ Blocks(f) \subseteq Blocks(PartOf(f, p))
         /\ \A b \in Blocks(f) : Keeps(PartOf(f, p).blocks[b], f.blocks[b])
<1>0. Len(f.blocks) \in Nat /\ Blocks(f) = 1 .. Len(f.blocks) /\ IsFiniteSet(Blocks(f))
  BY FunctionType
<1>1. \A b \in Blocks(f) : f.blocks[b].code \in Seq(Instruction)
  BY FunctionType DEF CoroBlock
<1>2. 1 \in Blocks(f)
  BY DEF WellFormed
<1>3. CASE p = "ramp"
  <2>1. PartOf(f, p) = Ramp(f)
    BY <1>3 DEF PartOf
  <2>2. \A b \in Blocks(f) : Ramp(f).blocks[b].code \in Seq(Instruction)
    BY <1>1, RampIs DEF Keeps
  <2>3. Graph(Ramp(f))
    BY <1>0, <1>2, <2>2, RampIs DEF Graph
  <2> QED BY <2>1, <2>3, RampIs
<1>4. CASE p # "ramp"
  <2> DEFINE d == IsDestroy(p)
             q == Clone(f, d)
  <2>1. PartOf(f, p) = q
    BY <1>4 DEF PartOf
  <2> HIDE DEF d
  <2>2. /\ Blocks(q) = 1 .. Len(f.blocks) + 2 /\ q.entry = Len(f.blocks) + 1
        /\ q.live = Reach(Blocks(q), SuccsOf(q), q.entry)
        /\ q.blocks[Len(f.blocks) + 1] = Block("switch", <<Len(f.blocks) + 2>>)
        /\ q.blocks[Len(f.blocks) + 2] = Block("unreachable", <<>>)
        /\ \A b \in Blocks(f) : Keeps(q.blocks[b], f.blocks[b])
    BY CloneIs
  <2> HIDE DEF q
  <2>3. \A b \in Blocks(q) : q.blocks[b].code \in Seq(Instruction)
    <3> SUFFICES ASSUME NEW b \in Blocks(q) PROVE q.blocks[b].code \in Seq(Instruction)
      OBVIOUS
    <3>1. CASE b \in Blocks(f)
      BY <1>1, <2>2, <3>1 DEF Keeps
    <3>2. CASE b \notin Blocks(f)
      <4>1. b = Len(f.blocks) + 1 \/ b = Len(f.blocks) + 2
        BY <1>0, <2>2, <3>2
      <4>2. q.blocks[b].code = <<>>
        BY <2>2, <4>1 DEF Block
      <4> QED BY <4>2
    <3> QED BY <3>1, <3>2
  <2>4. IsFiniteSet(Blocks(q)) /\ q.entry \in Blocks(q) /\ Blocks(f) \subseteq Blocks(q)
    <3>1. Len(f.blocks) + 2 \in Int /\ 1 \in Int
      BY <1>0
    <3>2. IsFiniteSet(1 .. Len(f.blocks) + 2)
      BY <3>1, FS_Interval
    <3> QED BY <1>0, <2>2, <3>2
  <2>5. Graph(q)
    BY <2>2, <2>3, <2>4 DEF Graph
  <2> QED BY <2>1, <2>2, <2>4, <2>5
<1> QED BY <1>3, <1>4

\* Where the whole coroutine goes on from a block.
WholeSuccs(f, b) ==
  Succs(f, b)
    \cup (IF Leaves(f.blocks[b]) THEN {f.ramp_return} ELSE {})
    \cup (IF f.blocks[b].throws THEN {f.blocks[FinalSuspend(f)].to[2]} ELSE {})

\* The same for three.
LEMMA RangeConcat3 ==
  ASSUME NEW S, NEW s \in Seq(S), NEW t \in Seq(S), NEW u \in Seq(S)
  PROVE  Range(s \o t \o u) = Range(s) \cup Range(t) \cup Range(u)
<1> DEFINE r == s \o t
<1>1. r \in Seq(S) /\ Range(r) = Range(s) \cup Range(t)
  BY RangeConcat
<1>2. s \o t \o u = r \o u
  OBVIOUS
<1> HIDE DEF r
<1>3. Range(r \o u) = Range(r) \cup Range(u)
  BY <1>1, RangeConcat
<1> QED BY <1>1, <1>2, <1>3

\* There is at most one final suspension, and FinalSuspend finds it.
LEMMA FinalIs ==
  ASSUME NEW f, WellFormed(f), NEW s \in Suspends(f), f.blocks[s].final
  PROVE  FinalSuspend(f) = s
<1>1. \A r \in Suspends(f) : f.blocks[r].final => r = s
  BY DEF WellFormed
<1> QED BY <1>1 DEF FinalSuspend

\* Both targets of a suspension are blocks, and places where a clone goes on.
LEMMA SuspendTargets ==
  ASSUME NEW f, WellFormed(f), NEW s \in Suspends(f), NEW k \in {1, 2}
  PROVE  /\ s \in Blocks(f)
         /\ f.blocks[s].to[k] \in Succs(f, s) /\ f.blocks[s].to[k] \in Blocks(f)
         /\ f.blocks[s].to[k] \in Nat /\ f.blocks[s].to[k] \in RootTargets(f)
<1>1. s \in Blocks(f) /\ Len(f.blocks[s].to) = 2 /\ Succs(f, s) \subseteq Blocks(f)
  BY DEF WellFormed, Suspends
<1>2. f.blocks[s].to \in Seq(Nat)
  BY <1>1, FunctionType DEF CoroBlock
<1>3. k \in DOMAIN f.blocks[s].to /\ f.blocks[s].to[k] \in Nat
  <2> DEFINE t == f.blocks[s].to
  <2>1. t \in Seq(Nat) /\ Len(t) = 2
    BY <1>1, <1>2
  <2> HIDE DEF t
  <2>2. k \in DOMAIN t /\ t[k] \in Nat
    BY <2>1
  <2> QED BY <2>2 DEF t
<1>4. f.blocks[s].to[k] \in Range(f.blocks[s].to)
  BY <1>3 DEF Range
<1> QED BY <1>1, <1>3, <1>4 DEF Succs, RootTargets

\* The edges of the whole coroutine.
LEMMA WholeIs ==
  ASSUME NEW f, WellFormed(f)
  PROVE  /\ Graph(Whole(f)) /\ Blocks(Whole(f)) = Blocks(f) /\ Whole(f).entry = 1
         /\ Whole(f).live = Reach(Blocks(Whole(f)), SuccsOf(Whole(f)), 1)
         /\ SuccsOf(Whole(f)) = [b \in Blocks(f) |-> WholeSuccs(f, b)]
         /\ \A b \in Blocks(f) : Keeps(Whole(f).blocks[b], f.blocks[b])
<1> DEFINE L(b) == IF Leaves(f.blocks[b]) THEN <<f.ramp_return>> ELSE <<>>
           E(b) == IF f.blocks[b].throws THEN <<f.blocks[FinalSuspend(f)].to[2]>> ELSE <<>>
           B == [b \in Blocks(f) |-> [f.blocks[b] EXCEPT !.to = @ \o L(b) \o E(b)]]
           w == Whole(f)
<1>1. w = Pruned([blocks |-> B, entry |-> 1, cases |-> {}, live |-> {}])
  BY DEF Whole
<1>2. \A b \in Blocks(f) : /\ f.blocks[b] \in CoroBlock
                           /\ Keeps(B[b], f.blocks[b])
                           /\ B[b].to = f.blocks[b].to \o L(b) \o E(b)
  <2> SUFFICES ASSUME NEW b \in Blocks(f)
               PROVE  /\ f.blocks[b] \in CoroBlock
                      /\ Keeps(B[b], f.blocks[b])
                      /\ B[b].to = f.blocks[b].to \o L(b) \o E(b)
    OBVIOUS
  <2>1. f.blocks[b] \in CoroBlock
    BY FunctionType
  <2> HIDE DEF L, E
  <2> QED BY <2>1 DEF Keeps, CoroBlock
<1>3. DOMAIN B = Blocks(f)
  OBVIOUS
<1>4. \A b \in Blocks(f) : Range(f.blocks[b].to \o L(b) \o E(b)) =
         Range(f.blocks[b].to)
            \cup (IF Leaves(f.blocks[b]) THEN {f.ramp_return} ELSE {})
            \cup (IF f.blocks[b].throws THEN {f.blocks[FinalSuspend(f)].to[2]} ELSE {})
  <2> SUFFICES ASSUME NEW b \in Blocks(f)
               PROVE  Range(f.blocks[b].to \o L(b) \o E(b)) =
         Range(f.blocks[b].to)
            \cup (IF Leaves(f.blocks[b]) THEN {f.ramp_return} ELSE {})
            \cup (IF f.blocks[b].throws THEN {f.blocks[FinalSuspend(f)].to[2]} ELSE {})
    OBVIOUS
  <2>1. f.blocks[b].to \in Seq(Nat) /\ f.blocks[b].throws \in BOOLEAN
    BY FunctionType DEF CoroBlock
  <2>2. L(b) \in Seq(Nat) /\ Range(L(b)) = IF Leaves(f.blocks[b]) THEN {f.ramp_return} ELSE {}
    <3>1. f.ramp_return \in Blocks(f)
      BY DEF WellFormed, Quiet
    <3>2. f.ramp_return \in Nat
      BY <3>1, FunctionType
    <3> QED BY <3>2 DEF Range
  <2>3. /\ E(b) \in Seq(Nat)
        /\ Range(E(b)) = IF f.blocks[b].throws THEN {f.blocks[FinalSuspend(f)].to[2]} ELSE {}
    <3>1. CASE f.blocks[b].throws
      <4>1. PICK s \in Suspends(f) : f.blocks[s].final
        BY <3>1 DEF WellFormed
      <4>2. f.blocks[FinalSuspend(f)].to[2] \in Nat
        BY <4>1, FinalIs, SuspendTargets
      <4> QED BY <3>1, <4>2 DEF Range
    <3>2. CASE ~f.blocks[b].throws
      BY <3>2 DEF Range
    <3> QED BY <3>1, <3>2
  <2> HIDE DEF L, E
  <2>7. Range(f.blocks[b].to \o L(b) \o E(b)) = Range(f.blocks[b].to) \cup Range(L(b)) \cup Range(E(b))
    <3> DEFINE t == f.blocks[b].to
               k == L(b)
               e == E(b)
    <3>1. t \in Seq(Nat) /\ k \in Seq(Nat) /\ e \in Seq(Nat)
      BY <2>1, <2>2, <2>3
    <3> HIDE DEF t, k, e
    <3>2. Range(t \o k \o e) = Range(t) \cup Range(k) \cup Range(e)
      BY <3>1, RangeConcat3
    <3> QED BY <3>2 DEF t, k, e
  <2> DEFINE x == IF Leaves(f.blocks[b]) THEN {f.ramp_return} ELSE {}
             y == IF f.blocks[b].throws THEN {f.blocks[FinalSuspend(f)].to[2]} ELSE {}
  <2>8. Range(L(b)) = x /\ Range(E(b)) = y
    BY <2>2, <2>3
  <2> HIDE DEF x, y
  <2>9. Range(f.blocks[b].to \o L(b) \o E(b)) = Range(f.blocks[b].to) \cup x \cup y
    BY <2>7, <2>8
  <2> QED BY <2>9 DEF x, y
<1> HIDE DEF B, L, E, w
<1>5. /\ w.blocks = B /\ w.entry = 1 /\ w.cases = {}
      /\ w.live = Reach(Blocks(w), SuccsOf(w), w.entry)
  BY <1>1, PrunedIs
<1>6. Blocks(w) = Blocks(f)
  BY <1>3, <1>5 DEF Blocks
<1>7. \A b \in Blocks(f) : Succs(w, b) = WholeSuccs(f, b)
  <2> SUFFICES ASSUME NEW b \in Blocks(f) PROVE Succs(w, b) = WholeSuccs(f, b)
    OBVIOUS
  <2>1. w.blocks[b].unwind = f.blocks[b].unwind
    BY <1>2, <1>5 DEF Keeps
  <2> DEFINE x == IF Leaves(f.blocks[b]) THEN {f.ramp_return} ELSE {}
             y == IF f.blocks[b].throws THEN {f.blocks[FinalSuspend(f)].to[2]} ELSE {}
             u == IF f.blocks[b].unwind = NoBlock THEN {} ELSE {f.blocks[b].unwind}
  <2>2. Range(w.blocks[b].to) = Range(f.blocks[b].to) \cup x \cup y
    BY <1>2, <1>4, <1>5
  <2>3. Succs(w, b) = Range(w.blocks[b].to) \cup u
    BY <2>1 DEF Succs
  <2>4. WholeSuccs(f, b) = (Range(f.blocks[b].to) \cup u) \cup x \cup y
    BY DEF WholeSuccs, Succs
  <2> HIDE DEF x, y, u
  <2> QED BY <2>2, <2>3, <2>4
<1>8. SuccsOf(w) = [b \in Blocks(f) |-> WholeSuccs(f, b)]
  <2>1. SuccsOf(w) = [b \in Blocks(f) |-> Succs(w, b)]
    BY <1>5, <1>6 DEF SuccsOf
  <2> QED BY <1>7, <2>1
<1>9. \A b \in Blocks(f) : Keeps(w.blocks[b], f.blocks[b]) /\ w.blocks[b].code \in Seq(Instruction)
  BY <1>2, <1>5 DEF Keeps, CoroBlock
<1>10. Graph(w)
  BY <1>5, <1>6, <1>9, FunctionType DEF Graph, WellFormed
<1> QED BY <1>5, <1>6, <1>8, <1>9, <1>10 DEF w

-----------------------------------------------------------------------------
(* What apply_spills leaves as it is. *)

SameInst(i, j) == i.kind = j.kind /\ i.def = j.def /\ i.final = j.final /\ i.index = j.index

SameControl(f, g) ==
  /\ Blocks(g) = Blocks(f) /\ g.ramp_return = f.ramp_return /\ g.place = f.place
  /\ \A b \in Blocks(f) :
       /\ g.blocks[b].kind = f.blocks[b].kind
       /\ g.blocks[b].to = f.blocks[b].to /\ g.blocks[b].unwind = f.blocks[b].unwind
       /\ g.blocks[b].index = f.blocks[b].index /\ g.blocks[b].final = f.blocks[b].final
       /\ g.blocks[b].throws = f.blocks[b].throws
       /\ Len(g.blocks[b].code) = Len(f.blocks[b].code)
       /\ DOMAIN g.blocks[b].code = DOMAIN f.blocks[b].code
       /\ \A k \in DOMAIN f.blocks[b].code : SameInst(g.blocks[b].code[k], f.blocks[b].code[k])

Applied(f) == [f EXCEPT !.blocks = [b \in Blocks(f) |-> SpilledBlock(f, b)]]

\* apply_spills adds a store to a definition that is spilled and loads to operands.
LEMMA SpillingIs ==
  ASSUME NEW f, WellFormed(f), NEW b \in Blocks(f)
  PROVE  /\ Spilling(f, b) \in Seq(Instruction)
         /\ Len(Spilling(f, b)) = Len(f.blocks[b].code)
         /\ DOMAIN Spilling(f, b) = DOMAIN f.blocks[b].code
         /\ \A k \in DOMAIN f.blocks[b].code :
              /\ SameInst(Spilling(f, b)[k], f.blocks[b].code[k])
              /\ Spilling(f, b)[k].stored = (f.blocks[b].code[k].def \in spilled)
              /\ Spilling(f, b)[k].reloads \subseteq spilled \cap f.blocks[b].code[k].uses
<1> DEFINE c == f.blocks[b].code
           n == Len(c)
<1>1. c \in Seq(Instruction)
  BY FunctionType DEF CoroBlock
<1>2. n \in Nat /\ DOMAIN c = 1 .. n
  BY <1>1
<1>3. \A k \in 1 .. n : c[k] \in Instruction
  BY <1>1
<1> DEFINE s == [k \in 1 .. n |-> Remapped(f, b, c[k], c[k].def \in spilled)]
<1>4. Spilling(f, b) = s
  BY <1>2 DEF Spilling
<1> HIDE DEF c, n
<1>5. \A k \in 1 .. n :
         /\ s[k] \in Instruction
         /\ SameInst(s[k], c[k])
         /\ s[k].stored = (c[k].def \in spilled)
         /\ s[k].reloads \subseteq spilled \cap c[k].uses
  <2> SUFFICES ASSUME NEW k \in 1 .. n
               PROVE  /\ s[k] \in Instruction
                      /\ SameInst(s[k], c[k])
                      /\ s[k].stored = (c[k].def \in spilled)
                      /\ s[k].reloads \subseteq spilled \cap c[k].uses
    OBVIOUS
  <2> DEFINE i == c[k]
             r == Reloaded(f, b, i.uses)
             st == i.def \in spilled
  <2>1. i \in Instruction
    BY <1>3
  <2>2. r \subseteq i.uses /\ r \subseteq spilled
    BY DEF Reloaded
  <2>3. s[k] = [i EXCEPT !.uses = @ \ r, !.reloads = r, !.stored = st]
    BY DEF Remapped
  <2>4. st \in BOOLEAN
    OBVIOUS
  <2> HIDE DEF i, r, st
  <2>5. /\ s[k].kind = i.kind /\ s[k].def = i.def /\ s[k].final = i.final /\ s[k].index = i.index
        /\ s[k].stored = st /\ s[k].reloads = r /\ s[k].uses = i.uses \ r
        /\ s[k] = [kind |-> i.kind, def |-> i.def, uses |-> i.uses \ r, reloads |-> r,
                   stored |-> st, final |-> i.final, index |-> i.index]
    BY <2>1, <2>3 DEF Instruction
  <2>6. i.uses \ r \in SUBSET STRING /\ r \in SUBSET STRING
    BY <2>1, <2>2 DEF Instruction
  <2>7. s[k] \in Instruction
    BY <2>1, <2>4, <2>5, <2>6 DEF Instruction
  <2> QED BY <2>2, <2>5, <2>7 DEF i, st, SameInst
<1>6. s = [k \in 1 .. n |-> s[k]]
  OBVIOUS
<1> HIDE DEF s
<1>7. s \in Seq(Instruction) /\ Len(s) = n /\ DOMAIN s = 1 .. n
  BY <1>2, <1>5, <1>6
<1>8. /\ Spilling(f, b) \in Seq(Instruction)
      /\ Len(Spilling(f, b)) = n
      /\ DOMAIN Spilling(f, b) = DOMAIN c
  BY <1>2, <1>4, <1>7
<1>9. \A k \in DOMAIN c :
              /\ SameInst(Spilling(f, b)[k], c[k])
              /\ Spilling(f, b)[k].stored = (c[k].def \in spilled)
              /\ Spilling(f, b)[k].reloads \subseteq spilled \cap c[k].uses
  BY <1>2, <1>4, <1>5
<1> QED BY <1>8, <1>9 DEF c, n

\* apply_spills leaves the control flow, the definitions and the saves as they are.
LEMMA AppliedIs ==
  ASSUME NEW f, WellFormed(f)
  PROVE  /\ SameControl(f, Applied(f))
         /\ Applied(f).blocks \in Seq(CoroBlock)
         /\ Applied(f) = [blocks |-> Applied(f).blocks, ramp_return |-> Applied(f).ramp_return,
                          place |-> Applied(f).place]
         /\ \A b \in Blocks(f) :
              /\ Applied(f).blocks[b].code = Spilling(f, b)
              /\ Applied(f).blocks[b].reloads \subseteq spilled \cap f.blocks[b].uses
<1> DEFINE B == [b \in Blocks(f) |-> SpilledBlock(f, b)]
           n == Len(f.blocks)
           g == Applied(f)
<1>1. n \in Nat /\ Blocks(f) = 1 .. n
  BY FunctionType
<1>2. \A b \in Blocks(f) :
         /\ B[b] \in CoroBlock
         /\ B[b].kind = f.blocks[b].kind
         /\ B[b].to = f.blocks[b].to /\ B[b].unwind = f.blocks[b].unwind
         /\ B[b].index = f.blocks[b].index /\ B[b].final = f.blocks[b].final
         /\ B[b].throws = f.blocks[b].throws
         /\ B[b].code = Spilling(f, b)
         /\ B[b].reloads \subseteq spilled \cap f.blocks[b].uses
  <2> SUFFICES ASSUME NEW b \in Blocks(f)
               PROVE
         /\ B[b] \in CoroBlock
         /\ B[b].kind = f.blocks[b].kind
         /\ B[b].to = f.blocks[b].to /\ B[b].unwind = f.blocks[b].unwind
         /\ B[b].index = f.blocks[b].index /\ B[b].final = f.blocks[b].final
         /\ B[b].throws = f.blocks[b].throws
         /\ B[b].code = Spilling(f, b)
         /\ B[b].reloads \subseteq spilled \cap f.blocks[b].uses
    OBVIOUS
  <2> DEFINE x == f.blocks[b]
             r == Reloaded(f, b, x.uses)
             c == Spilling(f, b)
  <2>1. x \in CoroBlock
    BY FunctionType
  <2>2. r \subseteq x.uses /\ r \subseteq spilled
    BY DEF Reloaded
  <2>3. c \in Seq(Instruction)
    BY SpillingIs
  <2>4. B[b] = [x EXCEPT !.code = c, !.uses = @ \ r, !.reloads = r]
    BY DEF SpilledBlock
  <2> HIDE DEF x, r, c
  <2>5. /\ B[b] \in CoroBlock
        /\ B[b].kind = x.kind
        /\ B[b].to = x.to /\ B[b].unwind = x.unwind
        /\ B[b].index = x.index /\ B[b].final = x.final
        /\ B[b].throws = x.throws
        /\ B[b].code = c
        /\ B[b].reloads \subseteq spilled \cap x.uses
    BY <2>1, <2>2, <2>3, <2>4 DEF CoroBlock
  <2> QED BY <2>5 DEF x, c
<1>3. B = [b \in 1 .. n |-> B[b]]
  BY <1>1
<1> HIDE DEF n
<1>4. f = [blocks |-> f.blocks, ramp_return |-> f.ramp_return, place |-> f.place]
  BY DEF WellFormed
<1>5. g = [blocks |-> B, ramp_return |-> f.ramp_return, place |-> f.place]
  <2> HIDE DEF B
  <2>1. g = [f EXCEPT !.blocks = B]
    BY DEF Applied, B
  <2> QED BY <1>4, <2>1
<1> HIDE DEF B, g
<1>6. g.blocks = B /\ g.ramp_return = f.ramp_return /\ g.place = f.place
  BY <1>5
<1>7. B \in Seq(CoroBlock) /\ DOMAIN B = 1 .. n
  BY <1>1, <1>2, <1>3
<1>8. Blocks(g) = Blocks(f)
  BY <1>1, <1>6, <1>7 DEF Blocks
<1>9. SameControl(f, g)
  BY <1>2, <1>6, <1>8, SpillingIs DEF SameControl
<1>10. g = [blocks |-> g.blocks, ramp_return |-> g.ramp_return, place |-> g.place]
  BY <1>5, <1>6
<1>11. \A b \in Blocks(f) : /\ g.blocks[b].code = Spilling(f, b)
                            /\ g.blocks[b].reloads \subseteq spilled \cap f.blocks[b].uses
  BY <1>2, <1>6
<1> QED BY <1>6, <1>7, <1>9, <1>10, <1>11 DEF g

\* What only depends on control flow, definitions and saves.
LEMMA ControlIs ==
  ASSUME NEW f, WellFormed(f), NEW g, SameControl(f, g)
  PROVE  /\ \A b \in Blocks(f) : Succs(g, b) = Succs(f, b) /\ (Leaves(g.blocks[b]) = Leaves(f.blocks[b]))
         /\ Suspends(g) = Suspends(f) /\ RootTargets(g) = RootTargets(f)
         /\ SsaValues(g) = SsaValues(f)
         /\ Quiet(g) = Quiet(f)
         /\ \A b \in Blocks(f) : \A s \in Suspends(f) : SavesLast(g, b, s) = SavesLast(f, b, s)
         /\ \A b \in Blocks(f) : Unsaved(g, b) = Unsaved(f, b)
<1>0. Blocks(g) = Blocks(f)
  BY DEF SameControl
<1>1. \A b \in Blocks(f) : Succs(g, b) = Succs(f, b) /\ (Leaves(g.blocks[b]) = Leaves(f.blocks[b]))
  BY DEF SameControl, Succs, Leaves
<1>2. Suspends(g) = Suspends(f)
  BY <1>0 DEF SameControl, Suspends
<1>3. RootTargets(g) = RootTargets(f)
  <2>1. \A s \in Suspends(f) : g.blocks[s].to = f.blocks[s].to
    BY DEF SameControl, Suspends
  <2> QED BY <1>2, <2>1 DEF RootTargets
<1>4. SsaValues(g) = SsaValues(f)
  BY <1>0 DEF SameControl, SsaValues
<1>5. \A b \in Blocks(f) : \A k \in DOMAIN f.blocks[b].code :
         Touches(g.blocks[b].code[k]) = Touches(f.blocks[b].code[k])
  BY DEF SameControl, SameInst, Touches
<1>6. \A b \in Blocks(f) : DOMAIN g.blocks[b].code = DOMAIN f.blocks[b].code
  BY DEF SameControl
<1>7. Quiet(g) = Quiet(f)
  BY <1>0, <1>5, <1>6 DEF Quiet
<1>8. ASSUME NEW b \in Blocks(f), NEW s \in Suspends(f)
      PROVE  SavesLast(g, b, s) = SavesLast(f, b, s)
  <2>1. \A k \in DOMAIN f.blocks[b].code :
           IsSaveFor(g, g.blocks[b].code[k], s) = IsSaveFor(f, f.blocks[b].code[k], s)
    BY <1>8 DEF SameControl, SameInst, IsSaveFor, Suspends
  <2> QED BY <1>5, <1>6, <2>1 DEF SavesLast
<1>9. Preds(g) = Preds(f)
  BY <1>0, <1>1 DEF Preds
<1>10. \A b \in Blocks(f) : Unsaved(g, b) = Unsaved(f, b)
  BY <1>7, <1>9 DEF Unsaved
<1> QED BY <1>1, <1>2, <1>3, <1>4, <1>7, <1>8, <1>10

\* So does what is saved before a suspension,
LEMMA SavedKept ==
  ASSUME NEW f, WellFormed(f), NEW g, SameControl(f, g),
         NEW b \in Blocks(f), NEW s \in Suspends(f)
  PROVE  SavedFor(g, b, s) = SavedFor(f, b, s)
<1>1. Blocks(g) = Blocks(f) /\ g.ramp_return = f.ramp_return
  BY DEF SameControl
<1>2. /\ \A c \in Blocks(f) : Succs(g, c) = Succs(f, c)
      /\ RootTargets(g) = RootTargets(f) /\ Quiet(g) = Quiet(f)
      /\ \A c \in Blocks(f) : SavesLast(g, c, s) = SavesLast(f, c, s)
      /\ Unsaved(g, b) = Unsaved(f, b)
  BY ControlIs
<1> QED BY <1>1, <1>2 DEF SavedFor

\* whether the coroutine is well formed,
LEMMA WellFormedKept ==
  ASSUME NEW f, WellFormed(f), NEW g, SameControl(f, g), g.blocks \in Seq(CoroBlock),
         g = [blocks |-> g.blocks, ramp_return |-> g.ramp_return, place |-> g.place]
  PROVE  WellFormed(g)
<1>1. Blocks(g) = Blocks(f) /\ g.ramp_return = f.ramp_return
  BY DEF SameControl
<1>2. /\ \A c \in Blocks(f) : Succs(g, c) = Succs(f, c)
      /\ Suspends(g) = Suspends(f) /\ SsaValues(g) = SsaValues(f) /\ Quiet(g) = Quiet(f)
  BY ControlIs
<1>3. 1 \in Blocks(g) \ Suspends(g) /\ g.ramp_return \in Quiet(g) /\ NoValue \notin SsaValues(g)
  BY <1>1, <1>2 DEF WellFormed
<1>4. g.blocks[g.ramp_return].kind = "return" /\ ~g.blocks[g.ramp_return].throws
  <2>1. f.ramp_return \in Blocks(f)
    BY DEF WellFormed, Quiet
  <2> QED BY <1>1, <2>1 DEF WellFormed, SameControl
<1>5. ASSUME NEW b \in Blocks(g)
      PROVE  /\ Succs(g, b) \subseteq Blocks(g)
             /\ \A k \in DOMAIN g.blocks[b].code :
                   g.blocks[b].code[k].kind # "op" => g.blocks[b].code[k].def = NoValue
             /\ g.blocks[b].throws =>
                   \E s \in Suspends(g) : g.blocks[s].final /\ SavedFor(g, b, s)
  <2>1. Succs(g, b) \subseteq Blocks(g)
    BY <1>1, <1>2 DEF WellFormed
  <2>2. \A k \in DOMAIN g.blocks[b].code :
                   g.blocks[b].code[k].kind # "op" => g.blocks[b].code[k].def = NoValue
    <3>1. b \in Blocks(f)
      BY <1>1
    <3>2. \A k \in DOMAIN f.blocks[b].code :
             f.blocks[b].code[k].kind # "op" => f.blocks[b].code[k].def = NoValue
      BY <3>1 DEF WellFormed
    <3>3. /\ DOMAIN g.blocks[b].code = DOMAIN f.blocks[b].code
          /\ \A k \in DOMAIN f.blocks[b].code : SameInst(g.blocks[b].code[k], f.blocks[b].code[k])
      BY <3>1 DEF SameControl
    <3> QED BY <3>2, <3>3 DEF SameInst
  <2>3. ASSUME g.blocks[b].throws
        PROVE  \E s \in Suspends(g) : g.blocks[s].final /\ SavedFor(g, b, s)
    <3>1. b \in Blocks(f) /\ f.blocks[b].throws
      BY <1>1, <2>3 DEF SameControl
    <3>2. PICK s \in Suspends(f) : f.blocks[s].final /\ SavedFor(f, b, s)
      BY <3>1 DEF WellFormed
    <3>3. g.blocks[s].final
      BY <3>2 DEF SameControl, Suspends
    <3> QED BY <1>2, <3>1, <3>2, <3>3, SavedKept
  <2> QED BY <2>1, <2>2, <2>3
<1>6. ASSUME NEW s \in Suspends(g)
      PROVE  /\ Len(g.blocks[s].to) = 2
             /\ s \in Quiet(g) /\ SavedFor(g, s, s)
             /\ \A r \in Suspends(g) \ {s} :
                  /\ g.blocks[r].index # g.blocks[s].index
                  /\ ~(g.blocks[r].final /\ g.blocks[s].final)
  <2>1. s \in Suspends(f) /\ s \in Blocks(f)
    BY <1>2 DEF Suspends
  <2>2. /\ Len(f.blocks[s].to) = 2
        /\ s \in Quiet(f) /\ SavedFor(f, s, s)
        /\ \A r \in Suspends(f) \ {s} :
             /\ f.blocks[r].index # f.blocks[s].index
             /\ ~(f.blocks[r].final /\ f.blocks[s].final)
    BY <2>1 DEF WellFormed
  <2>3. SavedFor(g, s, s)
    BY <2>1, <2>2, SavedKept
  <2>4. \A r \in Suspends(f) : /\ g.blocks[r].index = f.blocks[r].index
                               /\ g.blocks[r].final = f.blocks[r].final
                               /\ g.blocks[r].to = f.blocks[r].to
    BY DEF SameControl, Suspends
  <2> QED BY <1>2, <2>1, <2>2, <2>3, <2>4
<1> QED BY <1>3, <1>4, <1>5, <1>6 DEF WellFormed

\* and what dominates what.
LEMMA WholeKept ==
  ASSUME NEW f, WellFormed(f), NEW g, SameControl(f, g), WellFormed(g)
  PROVE  /\ Whole(g).live = Whole(f).live
         /\ Dom(Whole(g)) = Dom(Whole(f))
<1>1. Blocks(g) = Blocks(f) /\ g.ramp_return = f.ramp_return
  BY DEF SameControl
<1>2. /\ \A c \in Blocks(f) : Succs(g, c) = Succs(f, c) /\ (Leaves(g.blocks[c]) = Leaves(f.blocks[c]))
      /\ Suspends(g) = Suspends(f)
  BY ControlIs
<1>3. \A b \in Blocks(f) : WholeSuccs(g, b) = WholeSuccs(f, b)
  <2> SUFFICES ASSUME NEW b \in Blocks(f) PROVE WholeSuccs(g, b) = WholeSuccs(f, b)
    OBVIOUS
  <2>1. g.blocks[b].throws = f.blocks[b].throws
    BY DEF SameControl
  <2>2. CASE f.blocks[b].throws
    <3>1. PICK s \in Suspends(f) : f.blocks[s].final
      BY <2>2 DEF WellFormed
    <3>2. g.blocks[s].final /\ g.blocks[s].to = f.blocks[s].to
      BY <3>1 DEF SameControl, Suspends
    <3>3. FinalSuspend(f) = s /\ FinalSuspend(g) = s
      BY <1>2, <3>1, <3>2, FinalIs
    <3> QED BY <1>1, <1>2, <2>1, <3>2, <3>3 DEF WholeSuccs
  <2>3. CASE ~f.blocks[b].throws
    BY <1>1, <1>2, <2>1, <2>3 DEF WholeSuccs
  <2> QED BY <2>2, <2>3
<1>4. SuccsOf(Whole(g)) = SuccsOf(Whole(f))
  BY <1>1, <1>3, WholeIs
<1>5. Whole(g).live = Whole(f).live /\ Whole(g).entry = Whole(f).entry
  BY <1>1, <1>4, WholeIs
<1> QED BY <1>4, <1>5 DEF Dom

-----------------------------------------------------------------------------
(* CoroSplit: the invariant.  A part of it is about the part that is active,  *)
(* another about the coroutine as a whole: what dominates a place in Whole    *)
(* was executed by one activation or another before the place was reached.    *)

\* The values that have to be in the frame.
Kept(f, sp) == sp \cap SsaValues(f)

\* The instructions on the way to a place have run in this activation.
Ran(p, rg, b, pos) ==
  /\ b \in p.live
  /\ \A i \in Before(p, Dom(p), b, pos) : i.def \in DOMAIN rg => rg[i.def] = "new"

\* The instructions on the way to a place have run in this activation or an earlier
\* one, and the frame has what they computed.
Framed(f, sp, fr, b, pos) ==
  /\ b \in Whole(f).live
  /\ \A i \in Before(Whole(f), Dom(Whole(f)), b, pos) : i.def \in Kept(f, sp) => fr[i.def] = "new"

\* The state is that of suspension s.
InState(f, st, re, s) == st = f.blocks[s].index /\ (f.blocks[s].final => ~re)

\* What is known of the state at a place.
Saved(f, st, re, b, pos) ==
  /\ \A k \in 1 .. pos - 1 :
       /\ f.blocks[b].code[k].kind = "save"
       /\ \A j \in k + 1 .. pos - 1 : ~Touches(f.blocks[b].code[j])
       => st = f.blocks[b].code[k].index /\ (f.blocks[b].code[k].final => ~re)
  /\ \A x \in Blocks(f), s \in Suspends(f) :
       SavedFor(f, x, s) /\ b \in Unsaved(f, x) => InState(f, st, re, s)

\* The coroutine can be entered behind suspension s.
Stopped(f, sp, fr, st, re, s) ==
  /\ s \in Suspends(f) /\ InState(f, st, re, s)
  /\ Framed(f, sp, fr, f.blocks[s].to[2], 1)
  /\ re => Framed(f, sp, fr, f.blocks[s].to[1], 1)

\* An activation in part p.
Active(f, sp, a, rg, fr, st, re, su) ==
  /\ a \in [part : PartNames, block : Nat, pos : Nat \ {0}]
  /\ a.block \in Blocks(PartOf(f, a.part))
  /\ a.pos <= Len(PartOf(f, a.part).blocks[a.block].code) + 1
  /\ Ran(PartOf(f, a.part), rg, a.block, a.pos)
  /\ a.block \in Blocks(f) => Framed(f, sp, fr, a.block, a.pos) /\ Saved(f, st, re, a.block, a.pos)
  /\ a.part = "ramp" /\ su # NoBlock =>
       a.block = f.ramp_return /\ Stopped(f, sp, fr, st, re, su)
  /\ a.part # "ramp" /\ a.block = Len(f.blocks) + 1 =>
       Stopped(f, sp, fr, st, re, su) /\ (a.part = "resume" => re)

\* What apply_spills has done.
Reloads(f, sp) ==
  /\ \A b \in Blocks(f) : \A k \in DOMAIN f.blocks[b].code :
       f.blocks[b].code[k].stored = (f.blocks[b].code[k].def \in sp)
  /\ \A b \in Whole(f).live : \A pos \in 1 .. Len(f.blocks[b].code) + 1 :
       \A v \in At(f, b, pos).reloads :
         v \in sp /\ \E i \in Before(Whole(f), Dom(Whole(f)), b, pos) : i.def = v

PartsOf(f) == [ramp |-> Ramp(f), resume |-> Clone(f, FALSE), destroy |-> Clone(f, TRUE)]

Prepared ==
  /\ act = [part |-> "ramp", block |-> 1, pos |-> 1] /\ suspended = NoBlock
  /\ DOMAIN regs = SsaValues(fn) /\ DOMAIN frame = SsaValues(fn)

Executing ==
  /\ DOMAIN regs = SsaValues(fn) /\ DOMAIN frame = SsaValues(fn)
  /\ parts = PartsOf(fn)
  /\ \A p \in PartNames : Validated(PartOf(fn, p), p = "ramp")
  /\ \/ act = Idle /\ (suspended = NoBlock \/ Stopped(fn, spilled, frame, state, resumable, suspended))
     \/ Active(fn, spilled, act, regs, frame, state, resumable, suspended)

CoroInv ==
  /\ phase \in {"analyze_spills", "apply_spills", "split", "run", "failed"}
  /\ phase \in {"analyze_spills", "apply_spills"} => fn \in Coroutines
  /\ phase \in {"split", "run"} => WellFormed(fn) /\ Reloads(fn, spilled)
  /\ phase \in {"analyze_spills", "apply_spills", "split"} => Prepared
  /\ phase = "run" => Executing

-----------------------------------------------------------------------------
(* Steps within a block. *)

\* No value of vs that was right becomes wrong.
Better(old, new, vs) == \A v \in vs : old[v] = "new" => new[v] = "new"

\* Unsaved is closed under the quiet predecessors.
LEMMA UnsavedQuiet ==
  ASSUME NEW f, WellFormed(f), NEW x
  PROVE  /\ Unsaved(f, x) \subseteq Quiet(f)
         /\ x \in Quiet(f) => x \in Unsaved(f, x)
         /\ \A c \in Unsaved(f, x) : Preds(f)[c] \cap Quiet(f) \subseteq Unsaved(f, x)
<1>1. Quiet(f) \subseteq Blocks(f)
  BY DEF Quiet
<1>2. IsFiniteSet(Quiet(f))
  BY <1>1, FunctionType, FS_Subset
<1> QED BY <1>2, ReachClosed DEF Unsaved

\* An instruction has run.
LEMMA RanNext ==
  ASSUME NEW p, NEW rg, NEW rh, NEW b, NEW pos \in Nat \ {0}, Ran(p, rg, b, pos),
         DOMAIN rh = DOMAIN rg, Better(rg, rh, DOMAIN rg),
         p.blocks[b].code[pos].def \in DOMAIN rh => rh[p.blocks[b].code[pos].def] = "new"
  PROVE  Ran(p, rh, b, pos + 1)
<1> SUFFICES ASSUME NEW i \in Before(p, Dom(p), b, pos + 1), i.def \in DOMAIN rh
             PROVE  rh[i.def] = "new"
  BY DEF Ran
<1>1. i \in Before(p, Dom(p), b, pos) \/ i = p.blocks[b].code[pos]
  BY BeforeNext
<1>2. CASE i \in Before(p, Dom(p), b, pos)
  BY <1>2 DEF Ran, Better
<1> QED BY <1>1, <1>2

\* Its result is in the frame if it has to be.
LEMMA FramedNext ==
  ASSUME NEW f, WellFormed(f), NEW sp, NEW fr, NEW fh, NEW b \in Blocks(f), NEW pos \in Nat \ {0},
         Framed(f, sp, fr, b, pos), Better(fr, fh, Kept(f, sp)),
         f.blocks[b].code[pos].def \in Kept(f, sp) => fh[f.blocks[b].code[pos].def] = "new"
  PROVE  Framed(f, sp, fh, b, pos + 1)
<1> DEFINE w == Whole(f)
<1>0. w.blocks[b].code = f.blocks[b].code
  BY WholeIs DEF Keeps
<1> HIDE DEF w
<1>3. Framed(f, sp, fh, b, pos + 1) <=>
        /\ b \in w.live
        /\ \A i \in Before(w, Dom(w), b, pos + 1) : i.def \in Kept(f, sp) => fh[i.def] = "new"
  BY DEF Framed, w
<1>4. /\ b \in w.live
      /\ \A i \in Before(w, Dom(w), b, pos) : i.def \in Kept(f, sp) => fr[i.def] = "new"
  BY DEF Framed, w
<1>5. ASSUME NEW i \in Before(w, Dom(w), b, pos + 1), i.def \in Kept(f, sp)
      PROVE  fh[i.def] = "new"
  <2>1. i \in Before(w, Dom(w), b, pos) \/ i = w.blocks[b].code[pos]
    BY <1>5, BeforeNext
  <2>2. CASE i \in Before(w, Dom(w), b, pos)
    BY <1>4, <1>5, <2>2 DEF Better
  <2>3. CASE i = w.blocks[b].code[pos]
    BY <1>0, <1>5, <2>3
  <2> QED BY <2>1, <2>2, <2>3
<1> QED BY <1>3, <1>4, <1>5

\* A frame in which nothing that was right became wrong.
LEMMA FramedBetter ==
  ASSUME NEW f, NEW sp, NEW fr, NEW fh, NEW b, NEW pos,
         Framed(f, sp, fr, b, pos), Better(fr, fh, Kept(f, sp))
  PROVE  Framed(f, sp, fh, b, pos)
BY DEF Framed, Better

\* The same for a coroutine that stopped.
LEMMA StoppedBetter ==
  ASSUME NEW f, NEW sp, NEW fr, NEW fh, NEW st, NEW re, NEW s,
         Stopped(f, sp, fr, st, re, s), Better(fr, fh, Kept(f, sp))
  PROVE  Stopped(f, sp, fh, st, re, s)
BY FramedBetter DEF Stopped

\* An instruction that does not write the state.
LEMMA TrackedNext ==
  ASSUME NEW f, NEW st, NEW re, NEW b, NEW pos \in Nat \ {0},
         Saved(f, st, re, b, pos), ~Touches(f.blocks[b].code[pos])
  PROVE  Saved(f, st, re, b, pos + 1)
<1>1. ASSUME NEW k \in 1 .. (pos + 1) - 1,
             f.blocks[b].code[k].kind = "save",
             \A j \in k + 1 .. (pos + 1) - 1 : ~Touches(f.blocks[b].code[j])
      PROVE  st = f.blocks[b].code[k].index /\ (f.blocks[b].code[k].final => ~re)
  <2>1. k # pos
    BY <1>1 DEF Touches
  <2>2. k \in 1 .. pos - 1 /\ \A j \in k + 1 .. pos - 1 : j \in k + 1 .. (pos + 1) - 1
    BY <2>1
  <2>3. \A j \in k + 1 .. pos - 1 : ~Touches(f.blocks[b].code[j])
    BY <1>1, <2>2
  <2> QED BY <1>1, <2>2, <2>3 DEF Saved
<1>2. \A x \in Blocks(f), s \in Suspends(f) :
         SavedFor(f, x, s) /\ b \in Unsaved(f, x) => InState(f, st, re, s)
  BY DEF Saved
<1> QED BY <1>1, <1>2 DEF Saved

\* An instruction that does.
LEMMA TrackedTouch ==
  ASSUME NEW f, WellFormed(f), NEW st, NEW re, NEW b \in Blocks(f), NEW pos \in DOMAIN f.blocks[b].code,
         Touches(f.blocks[b].code[pos]),
         f.blocks[b].code[pos].kind = "save" =>
            st = f.blocks[b].code[pos].index /\ (f.blocks[b].code[pos].final => ~re)
  PROVE  Saved(f, st, re, b, pos + 1)
<1>0. pos \in Nat
  <2>1. f.blocks[b].code \in Seq(Instruction)
    BY FunctionType DEF CoroBlock
  <2> QED BY <2>1
<1>1. ASSUME NEW k \in 1 .. (pos + 1) - 1,
             f.blocks[b].code[k].kind = "save",
             \A j \in k + 1 .. (pos + 1) - 1 : ~Touches(f.blocks[b].code[j])
      PROVE  st = f.blocks[b].code[k].index /\ (f.blocks[b].code[k].final => ~re)
  <2>1. CASE k = pos
    BY <1>1, <2>1
  <2>2. CASE k # pos
    <3>1. pos \in k + 1 .. (pos + 1) - 1
      BY <1>0, <2>2
    <3> QED BY <1>1, <3>1
  <2> QED BY <2>1, <2>2
<1>2. b \notin Quiet(f)
  BY DEF Quiet
<1>3. \A x \in Blocks(f) : b \notin Unsaved(f, x)
  BY <1>2, UnsavedQuiet
<1> QED BY <1>1, <1>3 DEF Saved

\* The instruction or terminator at the place of an activation.
LEMMA InCode ==
  ASSUME NEW f, WellFormed(f), NEW p \in PartNames, NEW b \in Blocks(PartOf(f, p)),
         NEW pos \in Nat \ {0}, pos <= Len(PartOf(f, p).blocks[b].code) + 1
  PROVE  /\ At(PartOf(f, p), b, pos).kind # "terminator" =>
              /\ b \in Blocks(f) /\ pos \in DOMAIN f.blocks[b].code
              /\ At(PartOf(f, p), b, pos) = f.blocks[b].code[pos]
              /\ f.blocks[b].code[pos] \in Instruction
              /\ pos + 1 <= Len(PartOf(f, p).blocks[b].code) + 1
         /\ At(PartOf(f, p), b, pos).kind = "terminator" =>
              pos = Len(PartOf(f, p).blocks[b].code) + 1
<1> DEFINE q == PartOf(f, p)
           c == q.blocks[b].code
<1>1. c \in Seq(Instruction)
  BY PartGraph DEF Graph
<1>2. b \in Blocks(f) => c = f.blocks[b].code
  BY PartGraph DEF Keeps
<1>3. b \notin Blocks(f) => Len(c) = 0
  <2> SUFFICES ASSUME b \notin Blocks(f) PROVE Len(c) = 0
    OBVIOUS
  <2>1. p # "ramp"
    BY RampIs DEF PartOf
  <2> DEFINE d == IsDestroy(p)
             g == Clone(f, d)
  <2>2. q = g
    BY <2>1 DEF PartOf
  <2>3. Len(f.blocks) \in Nat /\ Blocks(f) = 1 .. Len(f.blocks)
    BY FunctionType
  <2> HIDE DEF d
  <2>4. /\ Blocks(g) = 1 .. Len(f.blocks) + 2
        /\ g.blocks[Len(f.blocks) + 1] = Block("switch", <<Len(f.blocks) + 2>>)
        /\ g.blocks[Len(f.blocks) + 2] = Block("unreachable", <<>>)
    BY CloneIs
  <2> HIDE DEF g
  <2>5. b = Len(f.blocks) + 1 \/ b = Len(f.blocks) + 2
    BY <2>2, <2>3, <2>4
  <2>6. g.blocks[b].code = <<>>
    BY <2>4, <2>5 DEF Block
  <2> QED BY <2>2, <2>6
<1>4. At(q, b, pos) = IF pos <= Len(c) THEN c[pos]
                      ELSE [kind |-> "terminator", def |-> NoValue, uses |-> q.blocks[b].uses,
                            reloads |-> q.blocks[b].reloads, stored |-> FALSE, final |-> FALSE, index |-> 0]
  BY DEF At
<1> HIDE DEF c
<1>5. pos <= Len(c) + 1
  BY DEF c
<1> HIDE DEF q
<1>6. CASE pos <= Len(c)
  <2>1. c[pos] \in Instruction /\ pos \in DOMAIN c
    BY <1>1, <1>6
  <2>2. c[pos].kind # "terminator"
    BY <2>1 DEF Instruction
  <2>3. At(q, b, pos) = c[pos]
    BY <1>4, <1>6
  <2>4. b \in Blocks(f)
    BY <1>3, <1>6
  <2>5. pos + 1 <= Len(c) + 1
    BY <1>1, <1>6
  <2> QED BY <1>2, <2>1, <2>2, <2>3, <2>4, <2>5 DEF q, c
<1>7. CASE ~(pos <= Len(c))
  <2>1. pos = Len(c) + 1
    BY <1>1, <1>5, <1>7
  <2>2. At(q, b, pos).kind = "terminator"
    BY <1>4, <1>7
  <2> QED BY <2>1, <2>2 DEF q, c
<1> QED BY <1>6, <1>7

\* The terminator is behind the last instruction.
LEMMA AtEnd ==
  ASSUME NEW f, WellFormed(f), NEW p \in PartNames, NEW b \in Blocks(PartOf(f, p)),
         NEW pos \in Nat \ {0}, pos <= Len(PartOf(f, p).blocks[b].code) + 1,
         At(PartOf(f, p), b, pos).kind = "terminator"
  PROVE  pos = Len(PartOf(f, p).blocks[b].code) + 1
BY InCode

\* An activation goes on to the next instruction.
LEMMA Advances ==
  ASSUME NEW f, WellFormed(f), NEW sp, NEW a, NEW rg, NEW fr, NEW st, NEW re, NEW su,
         Active(f, sp, a, rg, fr, st, re, su),
         At(PartOf(f, a.part), a.block, a.pos).kind # "terminator",
         NEW rh, DOMAIN rh = DOMAIN rg, Better(rg, rh, DOMAIN rg),
         f.blocks[a.block].code[a.pos].def \in DOMAIN rh => rh[f.blocks[a.block].code[a.pos].def] = "new",
         NEW fh, Better(fr, fh, Kept(f, sp)),
         f.blocks[a.block].code[a.pos].def \in Kept(f, sp) => fh[f.blocks[a.block].code[a.pos].def] = "new",
         NEW st2, NEW re2, Saved(f, st2, re2, a.block, a.pos + 1),
         (st2 = st /\ re2 = re) \/ Touches(f.blocks[a.block].code[a.pos])
  PROVE  Active(f, sp, [a EXCEPT !.pos = @ + 1], rh, fh, st2, re2, su)
<1> DEFINE a2 == [a EXCEPT !.pos = @ + 1]
           p == a.part
           b == a.block
           pos == a.pos
           q == PartOf(f, p)
<1>1. /\ p \in PartNames /\ b \in Nat /\ pos \in Nat \ {0}
      /\ a2 = [part |-> p, block |-> b, pos |-> pos + 1]
  BY DEF Active
<1>2. /\ b \in Blocks(q) /\ pos <= Len(q.blocks[b].code) + 1
      /\ Ran(q, rg, b, pos)
  BY DEF Active
<1>3. /\ b \in Blocks(f) /\ pos \in DOMAIN f.blocks[b].code
      /\ pos + 1 <= Len(q.blocks[b].code) + 1
  BY <1>1, <1>2, InCode
<1>4. Framed(f, sp, fr, b, pos)
  BY <1>3 DEF Active
<1>5. q.blocks[b].code = f.blocks[b].code
  BY <1>1, <1>3, PartGraph DEF Keeps
<1>6. b # Len(f.blocks) + 1
  BY <1>3, FunctionType
<1>7. Saved(f, st2, re2, b, pos + 1)
  OBVIOUS
<1>8. /\ f.blocks[b].code[pos].def \in DOMAIN rh => rh[f.blocks[b].code[pos].def] = "new"
      /\ f.blocks[b].code[pos].def \in Kept(f, sp) => fh[f.blocks[b].code[pos].def] = "new"
      /\ (st2 = st /\ re2 = re) \/ Touches(f.blocks[b].code[pos])
  OBVIOUS
<1>9. p = "ramp" /\ su # NoBlock => b = f.ramp_return /\ Stopped(f, sp, fr, st, re, su)
  BY DEF Active
<1> HIDE DEF a2, p, b, pos
<1>10. Ran(q, rh, b, pos + 1)
  BY <1>1, <1>2, <1>5, <1>8, RanNext
<1>11. Framed(f, sp, fh, b, pos + 1)
  BY <1>1, <1>3, <1>4, <1>8, FramedNext
<1>12. ASSUME p = "ramp", su # NoBlock
       PROVE  b = f.ramp_return /\ Stopped(f, sp, fh, st2, re2, su)
  <2>1. b = f.ramp_return /\ Stopped(f, sp, fr, st, re, su)
    BY <1>9, <1>12
  <2>2. b \in Quiet(f)
    BY <2>1 DEF WellFormed
  <2>3. st2 = st /\ re2 = re
    BY <1>3, <1>8, <2>2 DEF Quiet
  <2> QED BY <2>1, <2>3, StoppedBetter
<1>13. /\ a2.part = p /\ a2.block = b /\ a2.pos = pos + 1
       /\ a2 \in [part : PartNames, block : Nat, pos : Nat \ {0}]
  BY <1>1
<1> HIDE DEF q
<1>14. Active(f, sp, a2, rh, fh, st2, re2, su)
  BY <1>2, <1>3, <1>6, <1>7, <1>10, <1>11, <1>12, <1>13 DEF Active, q
<1> QED BY <1>14 DEF a2

-----------------------------------------------------------------------------
(* Steps from block to block. *)

\* An edge of a part leads where all that dominates it has run.
LEMMA RanArrive ==
  ASSUME NEW p, Graph(p), NEW rg, NEW rh, NEW b,
         Ran(p, rg, b, Len(p.blocks[b].code) + 1),
         DOMAIN rh = DOMAIN rg, Better(rg, rh, DOMAIN rg),
         NEW c \in SuccsOf(p)[b] \cap Blocks(p)
  PROVE  Ran(p, rh, c, 1)
<1>1. b \in p.live
  BY DEF Ran
<1>2. /\ c \in p.live
      /\ \A i \in Before(p, Dom(p), c, 1) : i \in Before(p, Dom(p), b, Len(p.blocks[b].code) + 1)
  BY <1>1, GraphWalk
<1>3. ASSUME NEW i \in Before(p, Dom(p), c, 1), i.def \in DOMAIN rh
      PROVE  rh[i.def] = "new"
  <2>1. rg[i.def] = "new"
    BY <1>2, <1>3 DEF Ran
  <2> QED BY <1>3, <2>1 DEF Better
<1> QED BY <1>2, <1>3 DEF Ran

\* An edge of the whole coroutine leads where the frame has what dominates it.
LEMMA FramedArrive ==
  ASSUME NEW f, WellFormed(f), NEW sp, NEW fr, NEW b \in Blocks(f),
         Framed(f, sp, fr, b, Len(f.blocks[b].code) + 1),
         NEW c \in WholeSuccs(f, b), c \in Blocks(f)
  PROVE  Framed(f, sp, fr, c, 1)
<1> DEFINE w == Whole(f)
<1>1. /\ Graph(w) /\ Blocks(w) = Blocks(f) /\ w.blocks[b].code = f.blocks[b].code
      /\ SuccsOf(w) = [x \in Blocks(f) |-> WholeSuccs(f, x)]
  BY WholeIs DEF Keeps
<1>2. /\ b \in w.live
      /\ \A i \in Before(w, Dom(w), b, Len(w.blocks[b].code) + 1) : i.def \in Kept(f, sp) => fr[i.def] = "new"
  BY <1>1 DEF Framed
<1>3. Framed(f, sp, fr, c, 1) <=>
        /\ c \in w.live
        /\ \A i \in Before(w, Dom(w), c, 1) : i.def \in Kept(f, sp) => fr[i.def] = "new"
  BY DEF Framed
<1> HIDE DEF w
<1>4. c \in SuccsOf(w)[b] \cap Blocks(w)
  BY <1>1
<1>5. /\ c \in w.live
      /\ \A i \in Before(w, Dom(w), c, 1) : i \in Before(w, Dom(w), b, Len(w.blocks[b].code) + 1)
  BY <1>1, <1>2, <1>4, GraphWalk
<1> QED BY <1>2, <1>3, <1>5

\* Where the whole coroutine begins nothing has run.
LEMMA FramedFirst ==
  ASSUME NEW f, WellFormed(f), NEW sp, NEW fr
  PROVE  Framed(f, sp, fr, 1, 1)
<1> DEFINE w == Whole(f)
<1>1. Graph(w) /\ w.entry = 1
  BY WholeIs
<1>2. Framed(f, sp, fr, 1, 1) <=>
        /\ 1 \in w.live
        /\ \A i \in Before(w, Dom(w), 1, 1) : i.def \in Kept(f, sp) => fr[i.def] = "new"
  BY DEF Framed
<1> HIDE DEF w
<1>3. 1 \in w.live /\ \A i : i \notin Before(w, Dom(w), 1, 1)
  BY <1>1, GraphWalk
<1> QED BY <1>2, <1>3

\* Nothing is promised of the state where a part begins or goes on.
LEMMA TrackedFresh ==
  ASSUME NEW f, NEW st, NEW re, NEW c, c \in {1, f.ramp_return} \cup RootTargets(f)
  PROVE  Saved(f, st, re, c, 1)
<1>1. 1 .. 1 - 1 = {}
  OBVIOUS
<1>2. \A x \in Blocks(f), s \in Suspends(f) : SavedFor(f, x, s) => c \notin Unsaved(f, x)
  BY DEF SavedFor
<1> QED BY <1>1, <1>2 DEF Saved

\* The save on every path to the end of b has been made.
LEMMA SavedHolds ==
  ASSUME NEW f, WellFormed(f), NEW st, NEW re, NEW b \in Blocks(f), NEW s \in Suspends(f),
         Saved(f, st, re, b, Len(f.blocks[b].code) + 1), SavesLast(f, b, s)
  PROVE  InState(f, st, re, s)
<1> DEFINE c == f.blocks[b].code
           n == Len(c)
<1>1. c \in Seq(Instruction)
  BY FunctionType DEF CoroBlock
<1>2. n \in Nat /\ DOMAIN c = 1 .. n /\ (n + 1) - 1 = n
  BY <1>1
<1>3. PICK k \in DOMAIN c : /\ IsSaveFor(f, c[k], s)
                            /\ \A j \in DOMAIN c : j > k => ~Touches(c[j])
  BY DEF SavesLast
<1>4. \A x \in 1 .. n :
       /\ c[x].kind = "save"
       /\ \A j \in x + 1 .. n : ~Touches(c[j])
       => st = c[x].index /\ (c[x].final => ~re)
  <2>1. \A x \in 1 .. (n + 1) - 1 :
       /\ c[x].kind = "save"
       /\ \A j \in x + 1 .. (n + 1) - 1 : ~Touches(c[j])
       => st = c[x].index /\ (c[x].final => ~re)
    BY DEF Saved
  <2> QED BY <1>2, <2>1
<1>5. k \in Nat /\ \A j \in k + 1 .. n : j \in DOMAIN c /\ j > k
  BY <1>2, <1>3
<1>6. \A j \in k + 1 .. n : ~Touches(c[j])
  BY <1>3, <1>5
<1>7. c[k].kind = "save" /\ c[k].index = f.blocks[s].index /\ c[k].final = f.blocks[s].final
  BY <1>3 DEF IsSaveFor
<1> HIDE DEF c, n
<1>8. st = c[k].index /\ (c[k].final => ~re)
  BY <1>2, <1>4, <1>6, <1>7
<1> QED BY <1>7, <1>8 DEF InState

\* What is promised of the state behind an edge holds before it.
LEMMA TrackedArrive ==
  ASSUME NEW f, WellFormed(f), NEW st, NEW re, NEW b \in Blocks(f),
         Saved(f, st, re, b, Len(f.blocks[b].code) + 1), NEW c \in Succs(f, b)
  PROVE  Saved(f, st, re, c, 1)
<1>1. 1 .. 1 - 1 = {}
  OBVIOUS
<1>2. c \in Blocks(f)
  BY DEF WellFormed
<1>3. ASSUME NEW x \in Blocks(f), NEW s \in Suspends(f), SavedFor(f, x, s), c \in Unsaved(f, x)
      PROVE  InState(f, st, re, s)
  <2>1. CASE b \in Quiet(f)
    <3>1. b \in Preds(f)[c]
      BY <1>2 DEF Preds
    <3>2. b \in Unsaved(f, x)
      BY <1>3, <2>1, <3>1, UnsavedQuiet
    <3> QED BY <1>3, <3>2 DEF Saved
  <2>2. CASE b \notin Quiet(f)
    <3>1. SavesLast(f, b, s)
      BY <1>3, <2>2 DEF SavedFor
    <3> QED BY <3>1, SavedHolds
  <2> QED BY <2>1, <2>2
<1> QED BY <1>1, <1>3 DEF Saved

\* Where a save precedes on every path the state is that of its suspension.
LEMMA HoldsAtEnd ==
  ASSUME NEW f, WellFormed(f), NEW st, NEW re, NEW b \in Blocks(f), NEW s \in Suspends(f),
         Saved(f, st, re, b, Len(f.blocks[b].code) + 1), SavedFor(f, b, s)
  PROVE  InState(f, st, re, s)
<1>1. CASE b \in Quiet(f)
  BY <1>1, UnsavedQuiet DEF Saved
<1>2. CASE b \notin Quiet(f)
  BY <1>2, SavedHolds DEF SavedFor
<1> QED BY <1>1, <1>2

\* At its end a suspension has left the frame and the state as its targets need them.
LEMMA StopsAtSuspend ==
  ASSUME NEW f, WellFormed(f), NEW sp, NEW fr, NEW st, NEW re, NEW s \in Suspends(f),
         Framed(f, sp, fr, s, Len(f.blocks[s].code) + 1),
         Saved(f, st, re, s, Len(f.blocks[s].code) + 1)
  PROVE  Stopped(f, sp, fr, st, re, s)
<1>1. s \in Blocks(f) /\ SavedFor(f, s, s)
  BY DEF WellFormed, Suspends
<1>2. InState(f, st, re, s)
  BY <1>1, HoldsAtEnd
<1>3. /\ f.blocks[s].to[1] \in Succs(f, s) /\ f.blocks[s].to[1] \in Blocks(f)
      /\ f.blocks[s].to[2] \in Succs(f, s) /\ f.blocks[s].to[2] \in Blocks(f)
  <2>1. 1 \in {1, 2} /\ 2 \in {1, 2}
    OBVIOUS
  <2> QED BY <2>1, SuspendTargets
<1>4. f.blocks[s].to[1] \in WholeSuccs(f, s) /\ f.blocks[s].to[2] \in WholeSuccs(f, s)
  BY <1>3 DEF WholeSuccs
<1>5. Framed(f, sp, fr, f.blocks[s].to[1], 1)
  BY <1>1, <1>3, <1>4, FramedArrive
<1>6. Framed(f, sp, fr, f.blocks[s].to[2], 1)
  BY <1>1, <1>3, <1>4, FramedArrive
<1> QED BY <1>2, <1>5, <1>6 DEF Stopped

\* The same for a block that an exception leaves, which counts as the final suspension.
LEMMA StopsByThrow ==
  ASSUME NEW f, WellFormed(f), NEW sp, NEW fr, NEW st, NEW re, NEW b \in Blocks(f),
         f.blocks[b].throws,
         Framed(f, sp, fr, b, Len(f.blocks[b].code) + 1),
         Saved(f, st, re, b, Len(f.blocks[b].code) + 1)
  PROVE  Stopped(f, sp, fr, st, re, FinalSuspend(f))
<1>1. PICK s \in Suspends(f) : f.blocks[s].final /\ SavedFor(f, b, s)
  BY DEF WellFormed
<1>2. FinalSuspend(f) = s
  BY <1>1, FinalIs
<1>3. InState(f, st, re, s)
  BY <1>1, HoldsAtEnd
<1>4. ~re
  BY <1>1, <1>3 DEF InState
<1>5. f.blocks[s].to[2] \in Blocks(f)
  BY SuspendTargets
<1>6. f.blocks[s].to[2] \in WholeSuccs(f, b)
  BY <1>2 DEF WholeSuccs
<1>7. Framed(f, sp, fr, f.blocks[s].to[2], 1)
  BY <1>5, <1>6, FramedArrive
<1> QED BY <1>2, <1>3, <1>4, <1>7 DEF Stopped

\* An activation goes on to another block.
LEMMA Arrives ==
  ASSUME NEW f, WellFormed(f), NEW sp, NEW a, NEW rg, NEW fr, NEW st, NEW re, NEW su,
         Active(f, sp, a, rg, fr, st, re, su),
         At(PartOf(f, a.part), a.block, a.pos).kind = "terminator",
         NEW rh, DOMAIN rh = DOMAIN rg, Better(rg, rh, DOMAIN rg),
         NEW fh, Better(fr, fh, Kept(f, sp)),
         NEW c \in Nat, c \in SuccsOf(PartOf(f, a.part))[a.block], c \in Blocks(PartOf(f, a.part)),
         c \in Blocks(f) => Framed(f, sp, fr, c, 1) /\ Saved(f, st, re, c, 1),
         NEW s2,
         a.part = "ramp" /\ s2 # NoBlock => c = f.ramp_return /\ Stopped(f, sp, fr, st, re, s2),
         a.part # "ramp" => c # Len(f.blocks) + 1
  PROVE  Active(f, sp, [part |-> a.part, block |-> c, pos |-> 1], rh, fh, st, re, s2)
<1> DEFINE a2 == [part |-> a.part, block |-> c, pos |-> 1]
           p == a.part
           b == a.block
           q == PartOf(f, p)
<1>1. /\ p \in PartNames /\ b \in Nat /\ a.pos \in Nat \ {0}
      /\ a2 = [part |-> p, block |-> c, pos |-> 1]
  <2>1. a \in [part : PartNames, block : Nat, pos : Nat \ {0}]
    BY DEF Active
  <2> QED BY <2>1
<1>2. /\ b \in Blocks(q) /\ a.pos <= Len(q.blocks[b].code) + 1
      /\ Ran(q, rg, b, a.pos)
  BY DEF Active
<1>3. a.pos = Len(q.blocks[b].code) + 1
  <2> DEFINE k == a.pos
  <2>1. k \in Nat \ {0} /\ k <= Len(q.blocks[b].code) + 1 /\ At(q, b, k).kind = "terminator"
    BY <1>1, <1>2
  <2> HIDE DEF k, p, b
  <2>2. k = Len(q.blocks[b].code) + 1
    BY <1>1, <1>2, <2>1, AtEnd
  <2> QED BY <2>2 DEF k
<1>4. Graph(q)
  BY <1>1, PartGraph
<1>5. c \in SuccsOf(q)[b] \cap Blocks(q)
  OBVIOUS
<1>6. /\ p = "ramp" /\ s2 # NoBlock => c = f.ramp_return /\ Stopped(f, sp, fr, st, re, s2)
      /\ p # "ramp" => c # Len(f.blocks) + 1
  OBVIOUS
<1>7. c \in Blocks(f) => Framed(f, sp, fh, c, 1) /\ Saved(f, st, re, c, 1)
  BY FramedBetter
<1> HIDE DEF a2, p, b
<1>8. Ran(q, rh, c, 1)
  <2> HIDE DEF q
  <2> QED BY <1>2, <1>3, <1>4, <1>5, RanArrive
<1>9. p = "ramp" /\ s2 # NoBlock => c = f.ramp_return /\ Stopped(f, sp, fh, st, re, s2)
  BY <1>6, StoppedBetter
<1>10. 1 <= Len(q.blocks[c].code) + 1
  <2> DEFINE d == q.blocks[c].code
  <2>1. d \in Seq(Instruction)
    BY <1>4, <1>5 DEF Graph
  <2> HIDE DEF d
  <2>2. Len(d) \in Nat
    BY <2>1
  <2>3. 1 <= Len(d) + 1
    BY <2>2
  <2> QED BY <2>3 DEF d
<1>11. /\ a2.part = p /\ a2.block = c /\ a2.pos = 1
       /\ a2 \in [part : PartNames, block : Nat, pos : Nat \ {0}]
  BY <1>1
<1>12. c \in Blocks(q)
  BY <1>5
<1> HIDE DEF q
<1>13. Active(f, sp, a2, rh, fh, st, re, s2)
  BY <1>6, <1>7, <1>8, <1>9, <1>10, <1>11, <1>12 DEF Active, q
<1> QED BY <1>13 DEF a2

-----------------------------------------------------------------------------
(* The passes. *)

\* What dominates a live block is live.
LEMMA DomIn ==
  ASSUME NEW p, NEW b \in p.live, NEW d \in Dom(p)[b]
  PROVE  d \in p.live
BY DEF Dom, Dominators

\* An operand that is loaded from the frame is one that an instruction on every path
\* to the load has computed.
LEMMA ReloadsApplied ==
  ASSUME NEW f, WellFormed(f), Validated(Whole(f), FALSE)
  PROVE  /\ WellFormed(Applied(f)) /\ Reloads(Applied(f), spilled)
         /\ SsaValues(Applied(f)) = SsaValues(f)
<1> DEFINE g == Applied(f)
           w == Whole(f)
           x == Whole(g)
<1>1. /\ SameControl(f, g) /\ g.blocks \in Seq(CoroBlock)
      /\ g = [blocks |-> g.blocks, ramp_return |-> g.ramp_return, place |-> g.place]
      /\ \A b \in Blocks(f) : /\ g.blocks[b].code = Spilling(f, b)
                              /\ g.blocks[b].reloads \subseteq spilled \cap f.blocks[b].uses
  BY AppliedIs
<1>2. Validated(w, FALSE)
  OBVIOUS
<1> HIDE DEF g
<1>3. WellFormed(g)
  BY <1>1, WellFormedKept
<1>4. x.live = w.live /\ Dom(x) = Dom(w)
  BY <1>1, <1>3, WholeKept
<1>5. Blocks(g) = Blocks(f) /\ SsaValues(g) = SsaValues(f)
  BY <1>1, ControlIs DEF SameControl
<1>6. /\ Graph(w) /\ Blocks(w) = Blocks(f) /\ \A b \in Blocks(f) : Keeps(w.blocks[b], f.blocks[b])
      /\ \A b \in Blocks(g) : Keeps(x.blocks[b], g.blocks[b])
  BY <1>3, WholeIs
<1>7. /\ w.live \subseteq Blocks(f) /\ \A b \in w.live : \A d \in Dom(w)[b] : d \in w.live
  BY <1>6, GraphWalk, DomIn
<1> HIDE DEF w, x
<1>8. ASSUME NEW b \in Blocks(g), NEW k \in DOMAIN g.blocks[b].code
      PROVE  g.blocks[b].code[k].stored = (g.blocks[b].code[k].def \in spilled)
  <2>1. b \in Blocks(f) /\ g.blocks[b].code = Spilling(f, b)
    BY <1>1, <1>5
  <2>2. k \in DOMAIN f.blocks[b].code
    BY <2>1, SpillingIs
  <2> QED BY <2>1, <2>2, SpillingIs DEF SameInst
<1>9. ASSUME NEW b \in w.live, NEW pos \in 1 .. Len(g.blocks[b].code) + 1,
             NEW v \in At(g, b, pos).reloads
      PROVE  v \in spilled /\ \E i \in Before(x, Dom(w), b, pos) : i.def = v
  <2>1. /\ b \in Blocks(f) /\ g.blocks[b].code = Spilling(f, b)
        /\ Len(g.blocks[b].code) = Len(f.blocks[b].code)
        /\ Len(f.blocks[b].code) \in Nat /\ DOMAIN f.blocks[b].code = 1 .. Len(f.blocks[b].code)
    <3>1. b \in Blocks(f) /\ g.blocks[b].code = Spilling(f, b)
      BY <1>1, <1>7
    <3>2. f.blocks[b].code \in Seq(Instruction)
      BY <3>1, FunctionType DEF CoroBlock
    <3> QED BY <3>1, <3>2, SpillingIs
  <2>2. w.blocks[b].code = f.blocks[b].code /\ w.blocks[b].uses = f.blocks[b].uses
    BY <1>6, <2>1 DEF Keeps
  <2> DEFINE n == Len(f.blocks[b].code)
  <2>3. pos \in 1 .. n + 1 /\ pos \in Nat
    BY <2>1
  <2>4. v \in spilled /\ v \in At(w, b, pos).uses
    <3>1. CASE pos <= n
      <4>1. At(g, b, pos) = Spilling(f, b)[pos] /\ At(w, b, pos) = f.blocks[b].code[pos]
        BY <2>1, <2>2, <3>1 DEF At
      <4>2. pos \in DOMAIN f.blocks[b].code
        BY <2>1, <2>3, <3>1
      <4> QED BY <1>9, <2>1, <4>1, <4>2, SpillingIs
    <3>2. CASE ~(pos <= n)
      <4>1. At(g, b, pos).reloads = g.blocks[b].reloads /\ At(w, b, pos).uses = f.blocks[b].uses
        BY <2>1, <2>2, <3>2 DEF At
      <4> QED BY <1>1, <1>9, <2>1, <4>1
    <3> QED BY <3>1, <3>2
  <2>5. DefinedBefore(w, Dom(w), b, pos, v)
    <3>1. pos \in 1 .. Len(w.blocks[b].code) + 1
      BY <2>2, <2>3
    <3> QED BY <1>2, <2>4, <3>1 DEF Validated, Dom
  <2>7. PICK i \in Before(w, Dom(w), b, pos) : i.def = v
    BY <2>5 DEF DefinedBefore
  <2>8. \A d \in Blocks(f) : \A j \in DOMAIN f.blocks[d].code :
           /\ j \in DOMAIN x.blocks[d].code
           /\ x.blocks[d].code[j].def = w.blocks[d].code[j].def
           /\ DOMAIN w.blocks[d].code = DOMAIN f.blocks[d].code
    <3> SUFFICES ASSUME NEW d \in Blocks(f), NEW j \in DOMAIN f.blocks[d].code
                 PROVE  /\ j \in DOMAIN x.blocks[d].code
                        /\ x.blocks[d].code[j].def = w.blocks[d].code[j].def
                        /\ DOMAIN w.blocks[d].code = DOMAIN f.blocks[d].code
      OBVIOUS
    <3>1. x.blocks[d].code = g.blocks[d].code /\ w.blocks[d].code = f.blocks[d].code
      BY <1>5, <1>6 DEF Keeps
    <3>2. DOMAIN g.blocks[d].code = DOMAIN f.blocks[d].code /\ g.blocks[d].code[j].def = f.blocks[d].code[j].def
      BY <1>1 DEF SameControl, SameInst
    <3> QED BY <3>1, <3>2
  <2>9. CASE \E j \in 1 .. pos - 1 : i = w.blocks[b].code[j]
    <3>1. PICK j \in 1 .. pos - 1 : i = w.blocks[b].code[j]
      BY <2>9
    <3>2. j \in DOMAIN f.blocks[b].code
      BY <2>1, <2>3
    <3>3. x.blocks[b].code[j] \in Before(x, Dom(w), b, pos)
      BY <2>3, BeforeIs
    <3>4. x.blocks[b].code[j].def = v
      BY <2>1, <2>7, <2>8, <3>1, <3>2
    <3> QED BY <2>4, <3>3, <3>4
  <2>10. CASE \E d \in Dom(w)[b] \ {b} : \E j \in DOMAIN w.blocks[d].code : i = w.blocks[d].code[j]
    <3>1. PICK d \in Dom(w)[b] \ {b} : \E j \in DOMAIN w.blocks[d].code : i = w.blocks[d].code[j]
      BY <2>10
    <3>2. PICK j \in DOMAIN w.blocks[d].code : i = w.blocks[d].code[j]
      BY <3>1
    <3>3. d \in Blocks(f)
      BY <1>7
    <3>3a. j \in DOMAIN f.blocks[d].code
      BY <1>6, <3>3 DEF Keeps
    <3>4. j \in DOMAIN x.blocks[d].code /\ x.blocks[d].code[j].def = v
      BY <2>7, <2>8, <3>2, <3>3, <3>3a
    <3>5. x.blocks[d].code[j] \in Before(x, Dom(w), b, pos)
      BY <2>3, <3>4, BeforeIs
    <3> QED BY <2>4, <3>4, <3>5
  <2> QED BY <2>3, <2>9, <2>10, BeforeIs
<1>10. Reloads(g, spilled)
  BY <1>4, <1>5, <1>8, <1>9 DEF Reloads, x
<1> QED BY <1>3, <1>5, <1>10 DEF g

\* The ramp begins.
LEMMA Begins ==
  ASSUME NEW f, WellFormed(f), NEW sp, NEW rg, NEW fr, NEW st, NEW re
  PROVE  Active(f, sp, [part |-> "ramp", block |-> 1, pos |-> 1], rg, fr, st, re, NoBlock)
<1> DEFINE a == [part |-> "ramp", block |-> 1, pos |-> 1]
           q == PartOf(f, "ramp")
<1>1. a \in [part : PartNames, block : Nat, pos : Nat \ {0}]
  BY DEF PartNames
<1>2. q = Ramp(f)
  BY DEF PartOf
<1>3. q.entry = 1 /\ Blocks(q) = Blocks(f)
  BY <1>2, RampIs
<1>4. Graph(q)
  <2>1. "ramp" \in PartNames
    BY DEF PartNames
  <2> QED BY <2>1, PartGraph
<1>5. 1 \in Blocks(f)
  BY DEF WellFormed
<1> HIDE DEF q
<1>6. 1 \in q.live /\ \A i : i \notin Before(q, Dom(q), 1, 1)
  BY <1>3, <1>4, GraphWalk
<1>7. Ran(q, rg, 1, 1)
  BY <1>6 DEF Ran
<1>8. 1 <= Len(q.blocks[1].code) + 1
  <2> DEFINE c == q.blocks[1].code
  <2>1. c \in Seq(Instruction)
    BY <1>3, <1>4, <1>5 DEF Graph
  <2> HIDE DEF c
  <2>2. Len(c) \in Nat
    BY <2>1
  <2>3. 1 <= Len(c) + 1
    BY <2>2
  <2> QED BY <2>3 DEF c
<1>9. Framed(f, sp, fr, 1, 1) /\ Saved(f, st, re, 1, 1)
  BY FramedFirst, TrackedFresh
<1>10. a.part = "ramp" /\ a.block = 1 /\ a.pos = 1
  OBVIOUS
<1> HIDE DEF a
<1>11. Active(f, sp, a, rg, fr, st, re, NoBlock)
  BY <1>1, <1>3, <1>5, <1>7, <1>8, <1>9, <1>10 DEF Active, q
<1> QED BY <1>11 DEF a

-----------------------------------------------------------------------------
(* The invariant is kept. *)

\* It holds at first.
LEMMA CoroInitInv ==
  CoroInit => CoroInv
BY DEF CoroInit, CoroInv, Prepared

\* analyze_spills changes nothing but spilled.
LEMMA AnalyzeInv ==
  CoroInv /\ AnalyzeSpills => CoroInv'
BY DEF CoroInv, AnalyzeSpills, Prepared, Machine

\* apply_spills, see ReloadsApplied.
LEMMA ApplyInv ==
  CoroInv /\ ApplySpills => CoroInv'
<1> SUFFICES ASSUME CoroInv, ApplySpills PROVE CoroInv'
  OBVIOUS
<1>1. WellFormed(fn) /\ Validated(Whole(fn), FALSE) /\ Prepared
  BY CoroAssumption DEF CoroInv, ApplySpills
<1>2. /\ fn' = Applied(fn) /\ phase' = "split"
      /\ UNCHANGED <<spilled, act, regs, frame, suspended>>
  BY DEF ApplySpills, Applied, Machine
<1>3. /\ WellFormed(Applied(fn)) /\ Reloads(Applied(fn), spilled)
      /\ SsaValues(Applied(fn)) = SsaValues(fn)
  BY <1>1, ReloadsApplied
<1>4. WellFormed(fn') /\ Reloads(fn', spilled') /\ SsaValues(fn') = SsaValues(fn)
  BY <1>2, <1>3
<1>5. Prepared'
  BY <1>1, <1>2, <1>4 DEF Prepared
<1> QED BY <1>2, <1>4, <1>5 DEF CoroInv

\* The parts by name.
LEMMA PartsIs ==
  ASSUME NEW f
  PROVE  DOMAIN PartsOf(f) = PartNames /\ \A p \in PartNames : PartsOf(f)[p] = PartOf(f, p)
BY DEF PartsOf, PartNames, PartOf, IsDestroy

\* The split begins the ramp, if the parts were found valid.
LEMMA SplitInv ==
  CoroInv /\ Split => CoroInv'
<1> SUFFICES ASSUME CoroInv, Split PROVE CoroInv'
  OBVIOUS
<1>1. WellFormed(fn) /\ Reloads(fn, spilled) /\ Prepared
  BY DEF CoroInv, Split
<1>2. /\ parts' = PartsOf(fn) /\ phase' \in {"run", "failed"}
      /\ UNCHANGED <<fn, spilled, act, regs, frame, state, resumable, suspended>>
      /\ phase' = "run" => \A p \in DOMAIN parts' : Validated(parts'[p], p = "ramp")
  BY DEF Split, PartsOf, Machine
<1>3. DOMAIN PartsOf(fn) = PartNames /\ \A p \in PartNames : PartsOf(fn)[p] = PartOf(fn, p)
  BY PartsIs
<1>4. CASE phase' = "run"
  <2>1. \A p \in PartNames : Validated(PartOf(fn, p), p = "ramp")
    BY <1>2, <1>3, <1>4
  <2>2. Active(fn, spilled, act, regs, frame, state, resumable, suspended)
    BY <1>1, Begins DEF Prepared
  <2>3. DOMAIN regs = SsaValues(fn) /\ DOMAIN frame = SsaValues(fn)
    BY <1>1 DEF Prepared
  <2>4. Executing'
    BY <1>2, <2>1, <2>2, <2>3 DEF Executing
  <2> QED BY <1>1, <1>2, <1>4, <2>4 DEF CoroInv
<1>5. CASE phase' = "failed"
  BY <1>5 DEF CoroInv
<1> QED BY <1>2, <1>4, <1>5

\* What holds where an instruction is executed.
LEMMA WhileRunning ==
  ASSUME CoroInv, Running
  PROVE  /\ phase = "run" /\ WellFormed(fn) /\ Reloads(fn, spilled) /\ Executing
         /\ Active(fn, spilled, act, regs, frame, state, resumable, suspended)
         /\ act \in [part : PartNames, block : Nat, pos : Nat \ {0}]
         /\ Part = PartOf(fn, act.part)
         /\ Here = At(PartOf(fn, act.part), act.block, act.pos)
<1>1. phase = "run" /\ WellFormed(fn) /\ Reloads(fn, spilled) /\ Executing
  BY DEF CoroInv, Running
<1>2. Active(fn, spilled, act, regs, frame, state, resumable, suspended)
  BY <1>1 DEF Executing, Running, Idle
<1>3. act \in [part : PartNames, block : Nat, pos : Nat \ {0}]
  BY <1>2 DEF Active
<1>4. Part = PartOf(fn, act.part)
  <2>1. parts = PartsOf(fn) /\ act.part \in PartNames
    BY <1>1, <1>3 DEF Executing
  <2> QED BY <2>1, PartsIs DEF Part
<1> QED BY <1>1, <1>2, <1>3, <1>4 DEF Here

\* What a step of the execution has to show.
LEMMA StillExecuting ==
  ASSUME CoroInv, phase = "run", UNCHANGED <<phase, fn, spilled, parts>>,
         DOMAIN regs' = DOMAIN regs, DOMAIN frame' = DOMAIN frame,
         \/ /\ act' = Idle
            /\ \/ suspended' = NoBlock
               \/ Stopped(fn, spilled, frame', state', resumable', suspended')
         \/ Active(fn, spilled, act', regs', frame', state', resumable', suspended')
  PROVE  CoroInv'
<1>1. WellFormed(fn) /\ Reloads(fn, spilled) /\ Executing
  BY DEF CoroInv
<1>2. Executing'
  BY <1>1 DEF Executing
<1> QED BY <1>1, <1>2 DEF CoroInv

\* The result of an instruction is new, in the frame too if it is stored.
LEMMA ComputeInv ==
  CoroInv /\ Compute => CoroInv'
<1> SUFFICES ASSUME CoroInv, Compute PROVE CoroInv'
  OBVIOUS
<1> DEFINE b == act.block
           pos == act.pos
           p == act.part
           i == fn.blocks[b].code[pos]
<1>1. Running /\ Here.kind = "op"
  BY DEF Compute
<1>2. /\ phase = "run" /\ WellFormed(fn) /\ Reloads(fn, spilled) /\ Executing
      /\ Active(fn, spilled, act, regs, frame, state, resumable, suspended)
      /\ p \in PartNames /\ b \in Nat /\ pos \in Nat \ {0}
      /\ Here = At(PartOf(fn, p), b, pos)
  BY <1>1, WhileRunning
<1>3. b \in Blocks(PartOf(fn, p)) /\ pos <= Len(PartOf(fn, p).blocks[b].code) + 1
  BY <1>2 DEF Active
<1>4. At(PartOf(fn, p), b, pos).kind # "terminator"
  BY <1>1, <1>2
<1>5. b \in Blocks(fn) /\ pos \in DOMAIN fn.blocks[b].code /\ Here = i
  <2> HIDE DEF b, pos, p
  <2>1. /\ b \in Blocks(fn) /\ pos \in DOMAIN fn.blocks[b].code
        /\ At(PartOf(fn, p), b, pos) = fn.blocks[b].code[pos]
    BY <1>2, <1>3, <1>4, InCode, SMTT(60)
  <2> QED BY <1>2, <2>1
<1>6. DOMAIN regs = SsaValues(fn) /\ DOMAIN frame = SsaValues(fn)
  BY <1>2 DEF Executing
<1>7. i.stored = (i.def \in spilled)
  BY <1>2, <1>5 DEF Reloads
<1>8. /\ regs' = [v \in DOMAIN regs |-> IF v = i.def THEN "new" ELSE regs[v]]
      /\ frame' = [v \in DOMAIN frame |->
                    IF v # i.def THEN frame[v] ELSE IF i.stored THEN "new" ELSE Aged(v)]
      /\ act' = [act EXCEPT !.pos = @ + 1]
      /\ UNCHANGED <<phase, fn, spilled, parts, state, resumable, suspended>>
  BY <1>5 DEF Compute, Advance
<1>9. Saved(fn, state, resumable, b, pos + 1)
  <2>1. Saved(fn, state, resumable, b, pos)
    BY <1>2, <1>5 DEF Active
  <2>2. ~Touches(i)
    BY <1>1, <1>5 DEF Touches
  <2> HIDE DEF b, pos
  <2> QED BY <1>2, <2>1, <2>2, TrackedNext
<1>10. /\ DOMAIN regs' = DOMAIN regs /\ Better(regs, regs', DOMAIN regs)
       /\ i.def \in DOMAIN regs' => regs'[i.def] = "new"
  <2> HIDE DEF i
  <2> QED BY <1>8 DEF Better
<1>11. /\ DOMAIN frame' = DOMAIN frame /\ Better(frame, frame', Kept(fn, spilled))
       /\ i.def \in Kept(fn, spilled) => frame'[i.def] = "new"
  <2>1. Kept(fn, spilled) \subseteq DOMAIN frame /\ Kept(fn, spilled) \subseteq spilled
    BY <1>6 DEF Kept
  <2> HIDE DEF i
  <2> QED BY <1>7, <1>8, <2>1 DEF Better
<1>12. Active(fn, spilled, act', regs', frame', state, resumable, suspended)
  <2> DEFINE rh == regs'
             fh == frame'
             a == act
  <2>1. At(PartOf(fn, a.part), a.block, a.pos).kind # "terminator"
    BY <1>4
  <2>2. /\ DOMAIN rh = DOMAIN regs /\ Better(regs, rh, DOMAIN regs)
        /\ fn.blocks[a.block].code[a.pos].def \in DOMAIN rh => rh[fn.blocks[a.block].code[a.pos].def] = "new"
    BY <1>10
  <2>3. /\ Better(frame, fh, Kept(fn, spilled))
        /\ fn.blocks[a.block].code[a.pos].def \in Kept(fn, spilled) => fh[fn.blocks[a.block].code[a.pos].def] = "new"
    BY <1>11
  <2>4. Saved(fn, state, resumable, a.block, a.pos + 1)
    BY <1>9
  <2>5. WellFormed(fn) /\ Active(fn, spilled, a, regs, frame, state, resumable, suspended)
    BY <1>2
  <2> HIDE DEF rh, fh, a
  <2>6. Active(fn, spilled, [a EXCEPT !.pos = @ + 1], rh, fh, state, resumable, suspended)
    BY <2>1, <2>2, <2>3, <2>4, <2>5, Advances
  <2> QED BY <1>8, <2>6 DEF rh, fh, a
<1> QED BY <1>2, <1>8, <1>10, <1>11, <1>12, StillExecuting

\* A write of the state is the last one now.
LEMMA TouchInv ==
  ASSUME CoroInv, Running, Touches(Here),
         Here.kind = "save" => state' = Here.index /\ (Here.final => ~resumable'),
         Advance, UNCHANGED <<phase, fn, spilled, parts, regs, frame, suspended>>
  PROVE  CoroInv'
<1> DEFINE b == act.block
           pos == act.pos
           p == act.part
           i == fn.blocks[b].code[pos]
<1>2. /\ phase = "run" /\ WellFormed(fn) /\ Reloads(fn, spilled) /\ Executing
      /\ Active(fn, spilled, act, regs, frame, state, resumable, suspended)
      /\ p \in PartNames /\ b \in Nat /\ pos \in Nat \ {0}
      /\ Here = At(PartOf(fn, p), b, pos)
  BY WhileRunning
<1>3. b \in Blocks(PartOf(fn, p)) /\ pos <= Len(PartOf(fn, p).blocks[b].code) + 1
  BY <1>2 DEF Active
<1>4. At(PartOf(fn, p), b, pos).kind # "terminator"
  BY <1>2 DEF Touches
<1>5. b \in Blocks(fn) /\ pos \in DOMAIN fn.blocks[b].code /\ Here = i
  <2> HIDE DEF b, pos, p
  <2>1. /\ b \in Blocks(fn) /\ pos \in DOMAIN fn.blocks[b].code
        /\ At(PartOf(fn, p), b, pos) = fn.blocks[b].code[pos]
    BY <1>2, <1>3, <1>4, InCode, SMTT(60)
  <2> QED BY <1>2, <2>1
<1>6. DOMAIN regs = SsaValues(fn) /\ DOMAIN frame = SsaValues(fn)
  BY <1>2 DEF Executing
<1>7. i.def \notin SsaValues(fn)
  <2>1. i.kind # "op"
    BY <1>5 DEF Touches
  <2>2. i.def = NoValue
    BY <1>2, <1>5, <2>1 DEF WellFormed
  <2> QED BY <1>2, <2>2 DEF WellFormed
<1>8. act' = [act EXCEPT !.pos = @ + 1]
  BY DEF Advance
<1>9. Saved(fn, state', resumable', b, pos + 1)
  <2> DEFINE st == state'
             re == resumable'
  <2>1. Touches(i)
    BY <1>5
  <2>2. i.kind = "save" => st = i.index /\ (i.final => ~re)
    BY <1>5
  <2> HIDE DEF b, pos, st, re
  <2>3. Saved(fn, st, re, b, pos + 1)
    BY <1>2, <1>5, <2>1, <2>2, TrackedTouch
  <2> QED BY <2>3 DEF st, re
<1>12. Active(fn, spilled, act', regs, frame, state', resumable', suspended)
  <2> DEFINE st == state'
             re == resumable'
             a == act
  <2>1. At(PartOf(fn, a.part), a.block, a.pos).kind # "terminator"
    BY <1>4
  <2>2. /\ Better(regs, regs, DOMAIN regs)
        /\ fn.blocks[a.block].code[a.pos].def \in DOMAIN regs => regs[fn.blocks[a.block].code[a.pos].def] = "new"
    BY <1>6, <1>7 DEF Better
  <2>3. /\ Better(frame, frame, Kept(fn, spilled))
        /\ fn.blocks[a.block].code[a.pos].def \in Kept(fn, spilled) => frame[fn.blocks[a.block].code[a.pos].def] = "new"
    BY <1>7 DEF Better, Kept
  <2>4. Saved(fn, st, re, a.block, a.pos + 1) /\ Touches(fn.blocks[a.block].code[a.pos])
    BY <1>5, <1>9
  <2>5. WellFormed(fn) /\ Active(fn, spilled, a, regs, frame, state, resumable, suspended)
    BY <1>2
  <2> HIDE DEF st, re, a
  <2>6. Active(fn, spilled, [a EXCEPT !.pos = @ + 1], regs, frame, st, re, suspended)
    BY <2>1, <2>2, <2>3, <2>4, <2>5, Advances
  <2> QED BY <1>8, <2>6 DEF st, re, a
<1> QED BY <1>2, <1>12, StillExecuting

\* The frame is made.
LEMMA BeginFrameInv ==
  CoroInv /\ BeginFrame => CoroInv'
<1> SUFFICES ASSUME CoroInv, BeginFrame PROVE CoroInv'
  OBVIOUS
<1>1. /\ Running /\ Here.kind = "begin" /\ Advance
      /\ UNCHANGED <<phase, fn, spilled, parts, regs, frame, suspended>>
  BY DEF BeginFrame
<1>2. Touches(Here) /\ Here.kind # "save"
  BY <1>1 DEF Touches
<1> QED BY <1>1, <1>2, TouchInv

\* CoroSave stores the index.
LEMMA SaveInv ==
  CoroInv /\ Save => CoroInv'
<1> SUFFICES ASSUME CoroInv, Save PROVE CoroInv'
  OBVIOUS
<1>1. /\ Running /\ Here.kind = "save" /\ Advance
      /\ UNCHANGED <<phase, fn, spilled, parts, regs, frame, suspended>>
      /\ state' = Here.index /\ (Here.final => ~resumable')
  BY DEF Save
<1>2. Touches(Here)
  BY <1>1 DEF Touches
<1> QED BY <1>1, <1>2, TouchInv

\* The blocks a clone has besides those of the function.
LEMMA OtherBlocks ==
  ASSUME NEW f, WellFormed(f), NEW p \in PartNames, NEW b \in Blocks(PartOf(f, p)), b \notin Blocks(f)
  PROVE  /\ p # "ramp"
         /\ \/ b = Len(f.blocks) + 1 /\ PartOf(f, p).blocks[b].kind = "switch"
            \/ b = Len(f.blocks) + 2 /\ PartOf(f, p).blocks[b].kind = "unreachable"
         /\ ~PartOf(f, p).blocks[b].throws
         /\ PartOf(f, p).blocks[b].uses = {} /\ PartOf(f, p).blocks[b].reloads = {}
<1>1. p # "ramp"
  BY RampIs DEF PartOf
<1> DEFINE d == IsDestroy(p)
           g == Clone(f, d)
<1>2. PartOf(f, p) = g
  BY <1>1 DEF PartOf
<1>3. Len(f.blocks) \in Nat /\ Blocks(f) = 1 .. Len(f.blocks)
  BY FunctionType
<1> HIDE DEF d
<1>4. /\ Blocks(g) = 1 .. Len(f.blocks) + 2
      /\ g.blocks[Len(f.blocks) + 1] = Block("switch", <<Len(f.blocks) + 2>>)
      /\ g.blocks[Len(f.blocks) + 2] = Block("unreachable", <<>>)
  BY CloneIs
<1> HIDE DEF g
<1>5. b = Len(f.blocks) + 1 \/ b = Len(f.blocks) + 2
  BY <1>2, <1>3, <1>4
<1>6. /\ \/ b = Len(f.blocks) + 1 /\ g.blocks[b].kind = "switch"
         \/ b = Len(f.blocks) + 2 /\ g.blocks[b].kind = "unreachable"
      /\ ~g.blocks[b].throws
      /\ g.blocks[b].uses = {} /\ g.blocks[b].reloads = {}
  BY <1>4, <1>5 DEF Block
<1> QED BY <1>1, <1>2, <1>6

\* The blocks of the function, in a part.
LEMMA BodyBlocks ==
  ASSUME NEW f, WellFormed(f), NEW p \in PartNames, NEW b \in Blocks(f)
  PROVE  /\ Leaves(f.blocks[b]) /\ p = "ramp" =>
               PartOf(f, p).blocks[b].kind = "branch" /\ PartOf(f, p).blocks[b].to = <<f.ramp_return>>
         /\ Leaves(f.blocks[b]) /\ p # "ramp" => PartOf(f, p).blocks[b].kind = "return"
         /\ ~Leaves(f.blocks[b]) => PartOf(f, p).blocks[b] = f.blocks[b]
         /\ PartOf(f, p).blocks[b].kind # "switch"
<1>0. f.blocks[b].kind # "switch"
  <2>1. f.blocks[b] \in CoroBlock
    BY FunctionType
  <2> QED BY <2>1 DEF CoroBlock, Terminators
<1>1. CASE p = "ramp"
  BY <1>0, <1>1, RampIs DEF PartOf
<1>2. CASE p # "ramp"
  <2> DEFINE d == IsDestroy(p)
             g == Clone(f, d)
  <2>1. PartOf(f, p) = g
    BY <1>2 DEF PartOf
  <2> HIDE DEF d
  <2>2. \A x \in Blocks(f) :
              /\ Keeps(g.blocks[x], f.blocks[x])
              /\ Leaves(f.blocks[x]) => g.blocks[x].kind = "return" /\ g.blocks[x].to = <<>>
              /\ ~Leaves(f.blocks[x]) => g.blocks[x] = f.blocks[x]
    BY CloneIs
  <2> HIDE DEF g
  <2> QED BY <1>0, <1>2, <2>1, <2>2
<1> QED BY <1>1, <1>2

\* A branch follows an edge of the whole coroutine.
LEMMA JumpTargets ==
  ASSUME NEW f, WellFormed(f), NEW p \in PartNames, NEW b \in Blocks(f),
         PartOf(f, p).blocks[b].kind \in {"branch", "cond"},
         NEW c \in IF b \in Suspends(f) THEN Range(PartOf(f, p).blocks[b].to) ELSE Succs(PartOf(f, p), b)
  PROVE  /\ c \in Blocks(f) /\ c \in WholeSuccs(f, b) /\ c \in SuccsOf(PartOf(f, p))[b]
         /\ \/ c \in Succs(f, b) /\ b \notin Suspends(f)
            \/ p = "ramp" /\ c = f.ramp_return
<1> DEFINE q == PartOf(f, p)
<1>0. /\ b \in Blocks(q) /\ q.blocks[b].unwind = f.blocks[b].unwind
      /\ Succs(f, b) \subseteq Blocks(f) /\ f.ramp_return \in Blocks(f)
  BY PartGraph DEF Keeps, WellFormed, Quiet
<1>1. Range(q.blocks[b].to) \subseteq Succs(q, b)
  BY DEF Succs
<1>2. c \in SuccsOf(q)[b]
  BY <1>0, <1>1 DEF SuccsOf
<1>3. CASE ~Leaves(f.blocks[b])
  <2>1. q.blocks[b] = f.blocks[b] /\ b \notin Suspends(f)
    BY <1>3, BodyBlocks DEF Leaves, Suspends
  <2>2. c \in Succs(f, b)
    BY <2>1 DEF Succs
  <2>3. c \in WholeSuccs(f, b)
    BY <2>2 DEF WholeSuccs
  <2> QED BY <1>0, <1>2, <2>1, <2>2, <2>3
<1>4. CASE Leaves(f.blocks[b])
  <2>1. p = "ramp" /\ q.blocks[b].to = <<f.ramp_return>>
    BY <1>4, BodyBlocks
  <2>2. Range(q.blocks[b].to) = {f.ramp_return}
    BY <2>1 DEF Range
  <2>3. f.ramp_return \in WholeSuccs(f, b)
    BY <1>4 DEF WholeSuccs
  <2>4. CASE c = f.ramp_return
    BY <1>0, <1>2, <2>1, <2>3, <2>4
  <2>5. CASE c # f.ramp_return
    <3>1. b \notin Suspends(f) /\ c \in Succs(q, b)
      BY <2>2, <2>5
    <3>2. c \in Succs(f, b)
      BY <1>0, <2>2, <2>5, <3>1 DEF Succs
    <3>3. c \in WholeSuccs(f, b)
      BY <3>2 DEF WholeSuccs
    <3> QED BY <1>0, <1>2, <3>1, <3>2, <3>3
  <2> QED BY <2>4, <2>5
<1> QED BY <1>3, <1>4

\* The case of a suspension in the switch of a clone.
LEMMA CasesIs ==
  ASSUME NEW f, WellFormed(f), NEW d \in BOOLEAN, NEW s \in Suspends(f), d \/ ~f.blocks[s].final
  PROVE  /\ \E c \in Cases(f, d) : c.index = f.blocks[s].index
         /\ \A c \in Cases(f, d) :
              c.index = f.blocks[s].index => c.target = f.blocks[s].to[IF d THEN 2 ELSE 1]
<1>1. [index |-> f.blocks[s].index, target |-> f.blocks[s].to[IF d THEN 2 ELSE 1]] \in Cases(f, d)
  BY DEF Cases
<1>2. ASSUME NEW c \in Cases(f, d), c.index = f.blocks[s].index
      PROVE  c.target = f.blocks[s].to[IF d THEN 2 ELSE 1]
  <2>1. PICK r \in Suspends(f) : c = [index |-> f.blocks[r].index, target |-> f.blocks[r].to[IF d THEN 2 ELSE 1]]
    BY DEF Cases
  <2>2. f.blocks[r].index = f.blocks[s].index
    BY <1>2, <2>1
  <2>3. r = s
    BY <2>2 DEF WellFormed
  <2> QED BY <2>1, <2>3
<1> QED BY <1>1, <1>2

\* What is known at the end of a block.
LEMMA AtTerminator ==
  ASSUME CoroInv, Running, Terminates
  PROVE  /\ act.block \in Blocks(PartOf(fn, act.part))
         /\ act.pos = Len(PartOf(fn, act.part).blocks[act.block].code) + 1
         /\ act.block \in Blocks(fn) =>
              /\ act.pos = Len(fn.blocks[act.block].code) + 1
              /\ Framed(fn, spilled, frame, act.block, Len(fn.blocks[act.block].code) + 1)
              /\ Saved(fn, state, resumable, act.block, Len(fn.blocks[act.block].code) + 1)
<1> DEFINE b == act.block
           k == act.pos
           p == act.part
<1>1. /\ WellFormed(fn) /\ Active(fn, spilled, act, regs, frame, state, resumable, suspended)
      /\ p \in PartNames /\ b \in Nat /\ k \in Nat \ {0}
      /\ Here = At(PartOf(fn, p), b, k)
  BY WhileRunning
<1>2. b \in Blocks(PartOf(fn, p)) /\ k <= Len(PartOf(fn, p).blocks[b].code) + 1
  BY <1>1 DEF Active
<1>3. At(PartOf(fn, p), b, k).kind = "terminator"
  BY <1>1 DEF Terminates
<1>4. b \in Blocks(fn) => Framed(fn, spilled, frame, b, k) /\ Saved(fn, state, resumable, b, k)
  BY <1>1 DEF Active
<1> HIDE DEF b, k, p
<1>5. k = Len(PartOf(fn, p).blocks[b].code) + 1
  BY <1>1, <1>2, <1>3, AtEnd
<1>6. b \in Blocks(fn) => PartOf(fn, p).blocks[b].code = fn.blocks[b].code
  BY <1>1, PartGraph DEF Keeps
<1>7. b \in Blocks(fn) => k = Len(fn.blocks[b].code) + 1
  BY <1>5, <1>6
<1> QED BY <1>2, <1>4, <1>5, <1>7 DEF b, k, p

\* Entering a block.
LEMMA GoToInv ==
  ASSUME CoroInv, Running, Terminates, NEW c \in Nat, GoTo(c),
         c \in SuccsOf(PartOf(fn, act.part))[act.block], c \in Blocks(PartOf(fn, act.part)),
         c \in Blocks(fn) => Framed(fn, spilled, frame, c, 1) /\ Saved(fn, state, resumable, c, 1),
         act.part = "ramp" /\ suspended' # NoBlock =>
            c = fn.ramp_return /\ Stopped(fn, spilled, frame, state, resumable, suspended'),
         act.part # "ramp" => c # Len(fn.blocks) + 1
  PROVE  CoroInv'
<1> DEFINE rh == regs'
           fh == frame'
           s2 == suspended'
           a == act
<1>1. /\ phase = "run" /\ WellFormed(fn) /\ Executing
      /\ Active(fn, spilled, a, regs, frame, state, resumable, suspended)
      /\ a.part \in PartNames
      /\ Part = PartOf(fn, a.part)
      /\ Here = At(PartOf(fn, a.part), a.block, a.pos)
  BY WhileRunning
<1>2. At(PartOf(fn, a.part), a.block, a.pos).kind = "terminator"
  BY <1>1 DEF Terminates
<1>3. /\ act' = [part |-> a.part, block |-> c, pos |-> 1]
      /\ rh = regs /\ fh = frame
      /\ UNCHANGED <<phase, fn, spilled, parts, state, resumable>>
  BY DEF GoTo
<1>7. /\ c \in SuccsOf(PartOf(fn, a.part))[a.block] /\ c \in Blocks(PartOf(fn, a.part))
      /\ a.part = "ramp" /\ s2 # NoBlock =>
            c = fn.ramp_return /\ Stopped(fn, spilled, frame, state, resumable, s2)
      /\ a.part # "ramp" => c # Len(fn.blocks) + 1
  OBVIOUS
<1> HIDE DEF rh, fh, s2, a
<1>8. DOMAIN rh = DOMAIN regs /\ Better(regs, rh, DOMAIN regs)
  BY <1>3 DEF Better
<1>9. DOMAIN fh = DOMAIN frame /\ Better(frame, fh, Kept(fn, spilled))
  BY <1>3 DEF Better
<1>10. Active(fn, spilled, [part |-> a.part, block |-> c, pos |-> 1], rh, fh, state, resumable, s2)
  BY <1>1, <1>2, <1>7, <1>8, <1>9, Arrives
<1>11. /\ Active(fn, spilled, act', regs', frame', state', resumable', suspended')
       /\ DOMAIN regs' = DOMAIN regs /\ DOMAIN frame' = DOMAIN frame
  BY <1>3, <1>8, <1>9, <1>10 DEF rh, fh, s2
<1> QED BY <1>1, <1>3, <1>11, StillExecuting

\* A branch, or a suspension of the ramp.
LEMMA JumpInv ==
  CoroInv /\ Jump => CoroInv'
<1> SUFFICES ASSUME CoroInv, Jump PROVE CoroInv'
  OBVIOUS
<1> DEFINE b == act.block
           p == act.part
<1>1. Running /\ Terminates /\ Part.blocks[b].kind \in {"branch", "cond"}
  BY DEF Jump
<1>2. PICK c \in IF SuspendsHere THEN Range(Part.blocks[b].to) ELSE Succs(Part, b) : GoTo(c)
  BY DEF Jump
<1>3. suspended' = IF SuspendsHere THEN b ELSE suspended
  BY DEF Jump
<1>4. /\ WellFormed(fn) /\ Active(fn, spilled, act, regs, frame, state, resumable, suspended)
      /\ p \in PartNames /\ Part = PartOf(fn, p)
  BY <1>1, WhileRunning
<1>5. /\ b \in Blocks(PartOf(fn, p))
      /\ b \in Blocks(fn) =>
           /\ Framed(fn, spilled, frame, b, Len(fn.blocks[b].code) + 1)
           /\ Saved(fn, state, resumable, b, Len(fn.blocks[b].code) + 1)
  BY <1>1, AtTerminator
<1>6. PartOf(fn, p).blocks[b].kind \in {"branch", "cond"}
  BY <1>1, <1>4
<1>7. c \in IF b \in Suspends(fn) THEN Range(PartOf(fn, p).blocks[b].to) ELSE Succs(PartOf(fn, p), b)
  BY <1>2, <1>4 DEF SuspendsHere
<1>8. p = "ramp" /\ suspended # NoBlock => b = fn.ramp_return
  BY <1>4 DEF Active
<1>9. suspended' = IF b \in Suspends(fn) THEN b ELSE suspended
  BY <1>3 DEF SuspendsHere
<1>10. b \in Blocks(fn)
  <2> HIDE DEF b, p
  <2> QED BY <1>4, <1>5, <1>6, OtherBlocks
<1>11. p = "ramp" => suspended = NoBlock
  <2> SUFFICES ASSUME p = "ramp", suspended # NoBlock PROVE FALSE
    OBVIOUS
  <2>1. b = fn.ramp_return /\ fn.blocks[b].kind = "return" /\ ~Leaves(fn.blocks[b])
    BY <1>4, <1>8 DEF WellFormed, Leaves
  <2> HIDE DEF b, p
  <2>2. PartOf(fn, p).blocks[b] = fn.blocks[b]
    BY <1>4, <1>10, <2>1, BodyBlocks
  <2> QED BY <1>6, <2>1, <2>2
<1>12. /\ c \in Blocks(fn) /\ c \in WholeSuccs(fn, b) /\ c \in SuccsOf(PartOf(fn, p))[b]
       /\ \/ c \in Succs(fn, b) /\ b \notin Suspends(fn)
          \/ p = "ramp" /\ c = fn.ramp_return
  <2> HIDE DEF b, p
  <2> QED BY <1>4, <1>6, <1>7, <1>10, JumpTargets
<1>13. Framed(fn, spilled, frame, c, 1)
  BY <1>4, <1>5, <1>10, <1>12, FramedArrive
<1>14. Saved(fn, state, resumable, c, 1)
  <2>1. CASE c \in Succs(fn, b)
    BY <1>4, <1>5, <1>10, <2>1, TrackedArrive
  <2>2. CASE c = fn.ramp_return
    BY <2>2, TrackedFresh
  <2> QED BY <1>12, <2>1, <2>2
<1>15. ASSUME p = "ramp", suspended' # NoBlock
       PROVE  c = fn.ramp_return /\ Stopped(fn, spilled, frame, state, resumable, suspended')
  <2>1. b \in Suspends(fn) /\ suspended' = b
    BY <1>9, <1>11, <1>15
  <2>2. c = fn.ramp_return
    BY <1>12, <2>1
  <2>3. Stopped(fn, spilled, frame, state, resumable, b)
    BY <1>4, <1>5, <1>10, <2>1, StopsAtSuspend
  <2> QED BY <2>1, <2>2, <2>3
<1>16. c \in Nat /\ c # Len(fn.blocks) + 1 /\ c \in Blocks(PartOf(fn, p))
  BY <1>4, <1>12, FunctionType, PartGraph
<1> QED BY <1>1, <1>2, <1>12, <1>13, <1>14, <1>15, <1>16, GoToInv

\* The switch of a clone goes on behind the suspension at which the coroutine stopped.
LEMMA SwitchFinds ==
  ASSUME NEW f, WellFormed(f), NEW p \in {"resume", "destroy"}, NEW sp, NEW fr, NEW st, NEW re, NEW su,
         Stopped(f, sp, fr, st, re, su), p = "resume" => re
  PROVE  /\ \E c \in PartOf(f, p).cases : c.index = st
         /\ \A c \in PartOf(f, p).cases :
              c.index = st => c.target = f.blocks[su].to[IF p = "destroy" THEN 2 ELSE 1]
<1> DEFINE d == IsDestroy(p)
           g == Clone(f, d)
<1>1. PartOf(f, p) = g
  BY DEF PartOf
<1>2. d \in BOOLEAN /\ (d = TRUE <=> p = "destroy") /\ (IF d THEN 2 ELSE 1) = (IF p = "destroy" THEN 2 ELSE 1)
  BY DEF IsDestroy
<1>3. su \in Suspends(f) /\ st = f.blocks[su].index /\ (f.blocks[su].final => ~re)
  BY DEF Stopped, InState
<1>4. d \/ ~f.blocks[su].final
  BY <1>2, <1>3
<1> HIDE DEF d
<1>5. g.cases = Cases(f, d)
  BY CloneIs
<1> HIDE DEF g
<1>6. /\ \E c \in Cases(f, d) : c.index = st
      /\ \A c \in Cases(f, d) : c.index = st => c.target = f.blocks[su].to[IF d THEN 2 ELSE 1]
  BY <1>2, <1>3, <1>4, CasesIs
<1> QED BY <1>1, <1>2, <1>5, <1>6

\* The switch of a clone finds the case of the suspension.
LEMMA DispatchInv ==
  CoroInv /\ Dispatch => CoroInv'
<1> SUFFICES ASSUME CoroInv, Dispatch PROVE CoroInv'
  OBVIOUS
<1> DEFINE b == act.block
           p == act.part
           k == IF p = "destroy" THEN 2 ELSE 1
           c == fn.blocks[suspended].to[k]
<1>1. Running /\ Terminates /\ Part.blocks[b].kind = "switch" /\ UNCHANGED suspended
  BY DEF Dispatch
<1>2. /\ WellFormed(fn) /\ Active(fn, spilled, act, regs, frame, state, resumable, suspended)
      /\ p \in PartNames /\ Part = PartOf(fn, p)
  BY <1>1, WhileRunning
<1>3. b \in Blocks(PartOf(fn, p))
  BY <1>1, AtTerminator
<1>4. PartOf(fn, p).blocks[b].kind = "switch"
  BY <1>1, <1>2
<1>5. b \notin Blocks(fn)
  <2> HIDE DEF b, p
  <2> QED BY <1>2, <1>4, BodyBlocks
<1>6. p # "ramp" /\ b = Len(fn.blocks) + 1
  <2> HIDE DEF b, p
  <2> QED BY <1>2, <1>3, <1>4, <1>5, OtherBlocks
<1>7. Stopped(fn, spilled, frame, state, resumable, suspended) /\ (p = "resume" => resumable)
  BY <1>2, <1>6 DEF Active
<1>8. p \in {"resume", "destroy"}
  BY <1>2, <1>6 DEF PartNames
<1>9. /\ \E x \in Part.cases : x.index = state
      /\ \A x \in Part.cases : x.index = state => x.target = c
  <2>1. /\ \E x \in PartOf(fn, p).cases : x.index = state
        /\ \A x \in PartOf(fn, p).cases : x.index = state => x.target = fn.blocks[suspended].to[IF p = "destroy" THEN 2 ELSE 1]
    <3> HIDE DEF p
    <3> QED BY <1>2, <1>7, <1>8, SwitchFinds
  <2> QED BY <1>2, <2>1
<1> DEFINE x == CHOOSE y \in Part.cases : y.index = state
<1>10. x \in Part.cases /\ x.index = state
  BY <1>9
<1>11. x.target = c
  BY <1>9, <1>10
<1>12. GoTo(c)
  <2>1. GoTo(IF \E y \in Part.cases : y.index = state THEN x.target ELSE Len(Part.blocks))
    BY DEF Dispatch
  <2> HIDE DEF x, c
  <2> QED BY <1>9, <1>11, <2>1
<1>13. suspended \in Suspends(fn) /\ k \in {1, 2}
  BY <1>7 DEF Stopped
<1>14. c \in Blocks(fn) /\ c \in Nat /\ c \in RootTargets(fn)
  <2> HIDE DEF k
  <2> QED BY <1>2, <1>13, SuspendTargets
<1>15. Framed(fn, spilled, frame, c, 1)
  BY <1>7, <1>8 DEF Stopped
<1>16. Saved(fn, state, resumable, c, 1)
  BY <1>14, TrackedFresh
<1>17. c \in SuccsOf(PartOf(fn, p))[b] /\ c \in Blocks(PartOf(fn, p))
  <2> DEFINE q == PartOf(fn, p)
  <2>1. b = q.entry
    <3> DEFINE d == IsDestroy(p)
    <3>1. q = Clone(fn, d)
      BY <1>6 DEF PartOf
    <3> HIDE DEF d
    <3>2. Clone(fn, d).entry = Len(fn.blocks) + 1
      BY <1>2, CloneIs
    <3> QED BY <1>6, <3>1, <3>2
  <2>2. c \in {y.target : y \in q.cases}
    BY <1>2, <1>10, <1>11
  <2>3. c \in Blocks(q)
    BY <1>2, <1>14, PartGraph
  <2> HIDE DEF q, c, b
  <2>4. b \in Blocks(q)
    BY <1>3 DEF q
  <2>5. c \in SuccsOf(q)[b]
    BY <2>1, <2>2, <2>4 DEF SuccsOf
  <2> QED BY <2>3, <2>5 DEF q
<1>18. c # Len(fn.blocks) + 1
  BY <1>2, <1>14, FunctionType
<1> HIDE DEF c
<1> QED BY <1>1, <1>6, <1>12, <1>14, <1>15, <1>16, <1>17, <1>18, GoToInv

\* An activation ends, by a suspension or at the end of the coroutine.
LEMMA ReturnInv ==
  CoroInv /\ Return => CoroInv'
<1> SUFFICES ASSUME CoroInv, Return PROVE CoroInv'
  OBVIOUS
<1> DEFINE b == act.block
           p == act.part
<1>1. /\ Running /\ Terminates /\ Part.blocks[b].kind = "return"
      /\ act' = Idle /\ DOMAIN regs' = DOMAIN regs
      /\ UNCHANGED <<phase, fn, spilled, parts, frame, state, resumable>>
      /\ suspended' = IF b \in Suspends(fn) THEN b ELSE IF p = "ramp" THEN suspended ELSE NoBlock
  BY DEF Return, LeaveActivation, SuspendsHere
<1>2. /\ phase = "run" /\ WellFormed(fn)
      /\ Active(fn, spilled, act, regs, frame, state, resumable, suspended)
  BY <1>1, WhileRunning
<1>3. b \in Blocks(fn) =>
           /\ Framed(fn, spilled, frame, b, Len(fn.blocks[b].code) + 1)
           /\ Saved(fn, state, resumable, b, Len(fn.blocks[b].code) + 1)
  BY <1>1, AtTerminator
<1>4. suspended' = NoBlock \/ Stopped(fn, spilled, frame, state, resumable, suspended')
  <2>1. CASE b \in Suspends(fn)
    <3>1. b \in Blocks(fn)
      BY <2>1 DEF Suspends
    <3>2. Stopped(fn, spilled, frame, state, resumable, b)
      BY <1>2, <1>3, <2>1, <3>1, StopsAtSuspend
    <3> QED BY <1>1, <2>1, <3>2
  <2>2. CASE b \notin Suspends(fn) /\ p = "ramp"
    BY <1>1, <1>2, <2>2 DEF Active
  <2>3. CASE b \notin Suspends(fn) /\ p # "ramp"
    BY <1>1, <2>3
  <2> QED BY <2>1, <2>2, <2>3
<1>5. suspended' = NoBlock \/ Stopped(fn, spilled, frame', state', resumable', suspended')
  BY <1>1, <1>4
<1> QED BY <1>1, <1>2, <1>5, StillExecuting

\* unhandled_exception throws.
LEMMA ExceptionInv ==
  CoroInv /\ LeaveByException => CoroInv'
<1> SUFFICES ASSUME CoroInv, LeaveByException PROVE CoroInv'
  OBVIOUS
<1> DEFINE b == act.block
           p == act.part
<1>1. /\ Running /\ Terminates /\ Part.blocks[b].throws
      /\ act' = Idle /\ DOMAIN regs' = DOMAIN regs
      /\ UNCHANGED <<phase, fn, spilled, parts, frame, state, resumable>>
      /\ suspended' = FinalSuspend(fn)
  BY DEF LeaveByException, LeaveActivation
<1>2. /\ phase = "run" /\ WellFormed(fn) /\ p \in PartNames /\ Part = PartOf(fn, p)
  BY <1>1, WhileRunning
<1>3. /\ b \in Blocks(PartOf(fn, p))
      /\ b \in Blocks(fn) =>
           /\ Framed(fn, spilled, frame, b, Len(fn.blocks[b].code) + 1)
           /\ Saved(fn, state, resumable, b, Len(fn.blocks[b].code) + 1)
  BY <1>1, AtTerminator
<1>4. PartOf(fn, p).blocks[b].throws
  BY <1>1, <1>2
<1>5. b \in Blocks(fn)
  <2> HIDE DEF b, p
  <2> QED BY <1>2, <1>3, <1>4, OtherBlocks
<1>6. fn.blocks[b].throws
  <2> HIDE DEF b, p
  <2> QED BY <1>2, <1>4, <1>5, PartGraph DEF Keeps
<1>7. Stopped(fn, spilled, frame, state, resumable, FinalSuspend(fn))
  BY <1>2, <1>3, <1>5, <1>6, StopsByThrow
<1>8. Stopped(fn, spilled, frame', state', resumable', suspended')
  BY <1>1, <1>7
<1> QED BY <1>1, <1>2, <1>8, StillExecuting

\* resume() and destroy().
LEMMA EnterInv ==
  ASSUME CoroInv, NEW p \in {"resume", "destroy"}, Enter(p)
  PROVE  CoroInv'
<1> DEFINE q == PartOf(fn, p)
           a == [part |-> p, block |-> Len(fn.blocks) + 1, pos |-> 1]
<1>1. /\ phase = "run" /\ act.part = "none" /\ suspended # NoBlock /\ (p = "resume" => resumable)
      /\ act' = [part |-> p, block |-> parts[p].entry, pos |-> 1]
      /\ UNCHANGED <<phase, fn, spilled, parts, regs, frame, state, resumable, suspended>>
  BY DEF Enter
<1>2. WellFormed(fn) /\ Executing /\ p \in PartNames
  BY <1>1 DEF CoroInv, PartNames
<1>3. Stopped(fn, spilled, frame, state, resumable, suspended)
  <2>1. ~Active(fn, spilled, act, regs, frame, state, resumable, suspended)
    <3>1. "none" \notin PartNames
      BY DEF PartNames
    <3> QED BY <1>1, <3>1 DEF Active
  <2> QED BY <1>1, <1>2, <2>1 DEF Executing
<1>4. parts[p] = q
  BY <1>2, PartsIs DEF Executing
<1>5. /\ q.entry = Len(fn.blocks) + 1 /\ Graph(q) /\ Len(fn.blocks) \in Nat
      /\ Len(fn.blocks) + 1 \notin Blocks(fn)
  <2> DEFINE d == IsDestroy(p)
  <2>1. q = Clone(fn, d)
    BY DEF PartOf
  <2> HIDE DEF d
  <2>2. Clone(fn, d).entry = Len(fn.blocks) + 1
    BY <1>2, CloneIs
  <2>3. Len(fn.blocks) \in Nat /\ Len(fn.blocks) + 1 \notin Blocks(fn)
    BY <1>2, FunctionType
  <2> QED BY <1>2, <2>1, <2>2, <2>3, PartGraph
<1>6. act' = a
  BY <1>1, <1>4, <1>5
<1> DEFINE e == Len(fn.blocks) + 1
<1>7. e \in Nat /\ e = q.entry /\ e \notin Blocks(fn)
  BY <1>5
<1>8. a.part = p /\ a.block = e /\ a.pos = 1 /\ a \in [part : PartNames, block : Nat, pos : Nat \ {0}]
  BY <1>2, <1>7
<1> HIDE DEF q, a, e
<1>9. Ran(q, regs, e, 1) /\ e \in Blocks(q)
  BY <1>5, <1>7, GraphWalk DEF Ran
<1>10. 1 <= Len(q.blocks[e].code) + 1
  <2> DEFINE c == q.blocks[e].code
  <2>1. c \in Seq(Instruction)
    BY <1>5, <1>9 DEF Graph
  <2> HIDE DEF c
  <2>2. Len(c) \in Nat
    BY <2>1
  <2>3. 1 <= Len(c) + 1
    BY <2>2
  <2> QED BY <2>3 DEF c
<1>11. Active(fn, spilled, a, regs, frame, state, resumable, suspended)
  BY <1>1, <1>3, <1>7, <1>8, <1>9, <1>10 DEF Active, q
<1>12. Active(fn, spilled, act', regs', frame', state', resumable', suspended')
  BY <1>1, <1>6, <1>11
<1> QED BY <1>1, <1>12, StillExecuting

\* Every step.
LEMMA CoroStep ==
  CoroInv /\ [CoroNext]_coroVars => CoroInv'
<1> SUFFICES ASSUME CoroInv, [CoroNext]_coroVars PROVE CoroInv'
  OBVIOUS
<1>1. CASE UNCHANGED coroVars
  BY <1>1 DEF coroVars, CoroInv, Prepared, Executing
<1>2. CASE CoroNext
  BY <1>2, AnalyzeInv, ApplyInv, SplitInv, ComputeInv, BeginFrameInv, SaveInv, JumpInv, DispatchInv,
     ReturnInv, ExceptionInv, EnterInv DEF CoroNext
<1> QED BY <1>1, <1>2

\* The invariant: at every place of an activation what dominates it has run, the
\* frame has what the whole coroutine computed on the way to it and what the saves
\* on that way promise of __coro_state holds; a coroutine that stopped has the
\* state of the suspension it stopped at and a frame its targets can go on with
\* (CoroSplitter, emit_await).
THEOREM CoroInvariant == CoroSpec => []CoroInv
BY CoroInitInv, CoroStep, PTL DEF CoroSpec

\* CoroSplitter::build_clone: resume and destroy go on behind the suspension the
\* coroutine is in, however it got there: through an await_suspend that declined
\* to suspend, by an exception, after any number of suspensions.
THEOREM ClonesGoOn == CoroSpec => []GoesOn
<1>1. CoroInv => GoesOn
  <2> SUFFICES ASSUME CoroInv, Running, act.part # "ramp", act.block = Part.entry
               PROVE  {c.target : c \in {d \in Part.cases : d.index = state}} =
                        {fn.blocks[suspended].to[IF act.part = "destroy" THEN 2 ELSE 1]}
    BY DEF GoesOn
  <2> DEFINE p == act.part
             t == fn.blocks[suspended].to[IF p = "destroy" THEN 2 ELSE 1]
  <2>1. /\ WellFormed(fn) /\ Active(fn, spilled, act, regs, frame, state, resumable, suspended)
        /\ p \in PartNames /\ Part = PartOf(fn, p)
    BY WhileRunning
  <2>2. p \in {"resume", "destroy"}
    BY <2>1 DEF PartNames
  <2>3. Part.entry = Len(fn.blocks) + 1
    <3> DEFINE d == IsDestroy(p)
    <3>1. Part = Clone(fn, d)
      BY <2>1, <2>2 DEF PartOf
    <3> HIDE DEF d
    <3>2. Clone(fn, d).entry = Len(fn.blocks) + 1
      BY <2>1, CloneIs
    <3> QED BY <3>1, <3>2
  <2>4. Stopped(fn, spilled, frame, state, resumable, suspended) /\ (p = "resume" => resumable)
    BY <2>1, <2>2, <2>3 DEF Active
  <2>5. /\ \E x \in PartOf(fn, p).cases : x.index = state
        /\ \A x \in PartOf(fn, p).cases : x.index = state => x.target = t
    <3> HIDE DEF p
    <3> QED BY <2>1, <2>2, <2>4, SwitchFinds
  <2> HIDE DEF t
  <2>6. {c.target : c \in {d \in Part.cases : d.index = state}} = {t}
    BY <2>1, <2>5
  <2> QED BY <2>6 DEF t
<1> QED BY <1>1, CoroInvariant, PTL

\* CoroSplitter::apply_spills and validate_values: an operand, a parameter of a
\* block or the result of an instruction, is read as it was computed last, in the
\* activation or in the frame, if the passes reported no error.
THEOREM NoValueLost == CoroSpec => []ValuesSurvive
<1>1. CoroInv => ValuesSurvive
  <2> SUFFICES ASSUME CoroInv, Running, NEW v \in SsaValues(fn) PROVE ReadRight(v)
    BY DEF ValuesSurvive
  <2> DEFINE p == act.part
             b == act.block
             k == act.pos
             q == PartOf(fn, p)
  <2>1. /\ WellFormed(fn) /\ Reloads(fn, spilled) /\ Executing
        /\ Active(fn, spilled, act, regs, frame, state, resumable, suspended)
        /\ p \in PartNames /\ b \in Nat /\ k \in Nat \ {0}
        /\ Part = q /\ Here = At(q, b, k)
    BY WhileRunning
  <2>2. /\ DOMAIN regs = SsaValues(fn) /\ DOMAIN frame = SsaValues(fn)
        /\ Validated(q, p = "ramp")
    BY <2>1 DEF Executing
  <2>3. /\ b \in Blocks(q) /\ k <= Len(q.blocks[b].code) + 1 /\ Ran(q, regs, b, k)
        /\ b \in Blocks(fn) => Framed(fn, spilled, frame, b, k)
    BY <2>1 DEF Active
  <2>4. Graph(q) /\ q.blocks[b].code \in Seq(Instruction)
    BY <2>1, <2>3, PartGraph DEF Graph
  <2>5. k \in 1 .. Len(q.blocks[b].code) + 1
    <3> DEFINE c == q.blocks[b].code
    <3>1. c \in Seq(Instruction) /\ k <= Len(c) + 1
      BY <2>3, <2>4
    <3> HIDE DEF c
    <3>2. k \in 1 .. Len(c) + 1
      BY <2>1, <3>1
    <3> QED BY <3>2 DEF c
  <2>6. ASSUME v \in Here.uses PROVE regs[v] = "new"
    <3>1. DefinedBefore(q, Dom(q), b, k, v)
      BY <2>1, <2>2, <2>3, <2>5, <2>6 DEF Validated, Dom, Ran
    <3>3. PICK i \in Before(q, Dom(q), b, k) : i.def = v
      BY <3>1 DEF DefinedBefore
    <3> QED BY <2>2, <2>3, <3>3 DEF Ran
  <2>7. ASSUME v \in Here.reloads PROVE frame[v] = "new"
    <3>1. b \in Blocks(fn)
      <4> SUFFICES ASSUME b \notin Blocks(fn) PROVE FALSE
        OBVIOUS
      <4>1. Here.kind = "terminator"
        <5> HIDE DEF p, b, k
        <5> QED BY <2>1, <2>3, InCode
      <4>2. k = Len(q.blocks[b].code) + 1
        BY <4>1, AtTerminator DEF Terminates
      <4>3. Here.reloads = q.blocks[b].reloads
        <5> DEFINE c == q.blocks[b].code
        <5>1. c \in Seq(Instruction) /\ k = Len(c) + 1
          BY <2>4, <4>2
        <5>2. Here = IF k <= Len(c) THEN c[k]
                     ELSE [kind |-> "terminator", def |-> NoValue, uses |-> q.blocks[b].uses,
                           reloads |-> q.blocks[b].reloads, stored |-> FALSE, final |-> FALSE, index |-> 0]
          BY <2>1 DEF At
        <5> HIDE DEF c
        <5>3. ~(k <= Len(c))
          BY <5>1
        <5> QED BY <5>2, <5>3
      <4>4. q.blocks[b].reloads = {}
        <5> HIDE DEF p, b
        <5> QED BY <2>1, <2>3, OtherBlocks
      <4> QED BY <2>7, <4>3, <4>4
    <3>2. /\ q.blocks[b].code = fn.blocks[b].code /\ q.blocks[b].reloads = fn.blocks[b].reloads
      BY <2>1, <3>1, PartGraph DEF Keeps
    <3>3. At(fn, b, k).reloads = Here.reloads
      BY <2>1, <3>2 DEF At
    <3>4. b \in Whole(fn).live /\ k \in 1 .. Len(fn.blocks[b].code) + 1
      BY <2>3, <2>5, <3>1, <3>2 DEF Framed
    <3>5. v \in At(fn, b, k).reloads
      BY <2>7, <3>3
    <3> DEFINE w == Whole(fn)
    <3>6. v \in spilled /\ \E i \in Before(w, Dom(w), b, k) : i.def = v
      BY <2>1, <3>4, <3>5 DEF Reloads
    <3>7. PICK i \in Before(w, Dom(w), b, k) : i.def = v
      BY <3>6
    <3>8. v \in Kept(fn, spilled)
      BY <3>6 DEF Kept
    <3> QED BY <2>3, <3>1, <3>7, <3>8 DEF Framed
  <2> QED BY <2>6, <2>7 DEF ReadRight
<1> QED BY <1>1, CoroInvariant, PTL
=============================================================================
