------------------------------- MODULE CirFile -------------------------------
(***************************************************************************)
(* cir::File (cir/file.cpp, cir/file.h): the tables of a translation unit  *)
(* and the undo journal of its nested transactions.                        *)
(*                                                                         *)
(* The tables follow four schemes, and the model has one of each.          *)
(*  - bindings: a table of records that are changed in place, with a       *)
(*    generation for every slot (entities, places, insts, blocks,          *)
(*    functions ... are kept in the same way);                             *)
(*  - names: an append-only table with an index from contents to id        *)
(*    (types and value expressions likewise);                              *)
(*  - facts: a map that gets and loses keys (five maps of facts, and the   *)
(*    provenance of imports);                                              *)
(*  - contexts: records journalled either as a whole or by small deltas.   *)
(* Left out are the plain members, which a transaction copies when it      *)
(* begins, and the diagnostics, which are truncated like the other tables  *)
(* but never below what pin_diagnostics protects.                          *)
(***************************************************************************)
EXTENDS Naturals, Sequences, SequencesExt

CONSTANTS
    Names,          \* spellings
    Keys,           \* keys of facts
    Facts,          \* contents of a fact
    NoFact, NoId,
    MaxBindings, MaxContexts, MaxDepth, MaxGeneration, MaxDeltas  \* bounds

VARIABLES
    graph,        \* the semantic graph: what debug_semantic_fingerprint prints
    gens,         \* *_generations_, by table
    transactions, \* transactions_
    begun         \* history: the graph in which each of them was begun

-------------------------------------------------------------------------------
(* Records and ids. *)

Ids == [index : Nat, gen : Nat]

\* The invalid id is told from the others.
ASSUME CirFileAssumption == NoId \notin Ids

\* Mutant: the generations are resized with the table.
NextGenerationReset(table, g) == 1

\* add_record: a slot that was used before gets its next generation.
NextGeneration(table, g) ==
    IF Len(table) < Len(g) THEN g[Len(table) + 1] + 1 ELSE 1

NewId(table, g) == [index |-> Len(table) + 1, gen |-> NextGeneration(table, g)]

Generations(table, g) ==
    IF Len(table) < Len(g)
    THEN [g EXCEPT ![Len(table) + 1] = NextGeneration(table, g)]
    ELSE Append(g, NextGeneration(table, g))

\* valid_id.
Valid(id, table, g) ==
    id # NoId /\ id.index \in 1 .. Len(table) /\ g[id.index] = id.gen

ValidBinding(id) == Valid(id, graph.bindings, gens.bindings)

ValidContext(id) == Valid(id, graph.contexts, gens.contexts)

\* The current id of a context, as a caller holds it.
ContextId(c) == [index |-> c, gen |-> gens.contexts[c]]

NoContext == [bindings |-> <<>>, children |-> <<>>, using |-> <<>>,
              index |-> [n \in Names |-> NoId], inline |-> FALSE]

-------------------------------------------------------------------------------
(* The journal of the innermost transaction. *)

Top == Last(transactions)

Journal(t) ==
    IF transactions = <<>> THEN <<>>
    ELSE [transactions EXCEPT ![Len(transactions)] = t]

\* emplace: the first value recorded for a key stays.
Emplace(f, k, v) == [x \in DOMAIN f \cup {k} |-> IF x \in DOMAIN f THEN f[x] ELSE v]

\* record_binding_mutation: only for records older than the transaction.
RecordBinding(t, b) ==
    IF b > t.bindings_size THEN t
    ELSE [t EXCEPT !.binding_mutations = Emplace(@, b, graph.bindings[b])]

\* record_decl_context_mutation.
RecordContext(t, c) ==
    IF c > t.contexts_size THEN t
    ELSE [t EXCEPT !.context_mutations = Emplace(@, c, graph.contexts[c])]

\* record_record_facts_mutation and its likes: an absent key is recorded as absent.
RecordFact(t, k) == [t EXCEPT !.fact_mutations = Emplace(@, k, graph.facts[k])]

\* decl_context_delta_journal: no delta is kept for a context that is younger
\* than the transaction or has been recorded as a whole.
RecordDeltas(t, c, ds) ==
    IF c > t.contexts_size \/ c \in DOMAIN t.context_mutations THEN t
    ELSE [t EXCEPT !.deltas = @ \o ds]

Appended(c, list) == [context |-> c, kind |-> list]

IndexAssigned(c, n) ==
    [context |-> c, kind |-> "index", name |-> n, previous |-> graph.contexts[c].index[n]]

-------------------------------------------------------------------------------
(* Going back. *)

\* undo_decl_context_delta, as context number c sees it.
UndoDelta(c, context, d) ==
    IF d.context # c THEN context
    ELSE IF d.kind = "index" THEN [context EXCEPT !.index[d.name] = d.previous]
    ELSE [context EXCEPT ![d.kind] = IF @ = <<>> THEN @ ELSE Front(@)]

Overlay(table, mutations) ==
    [i \in DOMAIN table |-> IF i \in DOMAIN mutations THEN mutations[i] ELSE table[i]]

\* Mutant: the deltas are undone in the order in which they were made.
UndoDeltasForward(c, context, ds) ==
    LET undone[i \in 0 .. Len(ds)] ==
           IF i = 0 THEN context ELSE UndoDelta(c, undone[i - 1], ds[i])
    IN  undone[Len(ds)]

\* The deltas are undone from the last to the first: undone[i] is the context when
\* those behind position i are.
UndoDeltas(c, context, ds) ==
    LET undone[i \in 0 .. Len(ds)] ==
           IF i = Len(ds) THEN context ELSE UndoDelta(c, undone[i + 1], ds[i + 1])
    IN  undone[0]

\* Whole contexts first, then the deltas.
UndoContexts(t, g) ==
    [c \in DOMAIN g.contexts |->
        UndoDeltas(c, Overlay(g.contexts, t.context_mutations)[c], t.deltas)]

\* rollback_transaction, with rollback_table_sizes.
Undo(t, g) ==
    [names      |-> SubSeq(g.names, 1, t.names_size),
     name_index |-> [n \in Names |-> IF n \in t.inserted THEN NoId ELSE g.name_index[n]],
     bindings   |-> SubSeq(Overlay(g.bindings, t.binding_mutations), 1, t.bindings_size),
     contexts   |-> SubSeq(UndoContexts(t, g), 1, t.contexts_size),
     facts      |-> Overlay(g.facts, t.fact_mutations)]

-------------------------------------------------------------------------------
(* Transactions. *)

Begin ==
    /\ Len(transactions) < MaxDepth
    /\ transactions' = Append(transactions,
          [names_size |-> Len(graph.names), bindings_size |-> Len(graph.bindings),
           contexts_size |-> Len(graph.contexts),
           inserted |-> {}, binding_mutations |-> <<>>, context_mutations |-> <<>>,
           deltas |-> <<>>, fact_mutations |-> <<>>])
    /\ begun' = Append(begun, graph)
    /\ UNCHANGED <<graph, gens>>

\* The mutations a committed transaction adds to those of the one around it.
MergeMutations(old, new, size) ==
    [i \in DOMAIN old \cup {k \in DOMAIN new : k <= size} |->
        IF i \in DOMAIN old THEN old[i] ELSE new[i]]

\* The deltas of a committed transaction are pushed behind those of the one around
\* it, unless that one has no use for them.
PushDeltas(parent, whole, ds) ==
    LET pushed[i \in 0 .. Len(ds)] ==
           IF i = 0 THEN parent.deltas
           ELSE IF ds[i].context <= parent.contexts_size /\ ds[i].context \notin DOMAIN whole
           THEN Append(pushed[i - 1], ds[i])
           ELSE pushed[i - 1]
    IN  pushed[Len(ds)]

\* merge_committed_transaction.
Merge(parent, t) ==
    LET whole == MergeMutations(parent.context_mutations, t.context_mutations,
                                parent.contexts_size)
    IN  [parent EXCEPT
           !.inserted = @ \cup t.inserted,
           !.binding_mutations = MergeMutations(@, t.binding_mutations, parent.bindings_size),
           !.context_mutations = whole,
           !.deltas = PushDeltas(parent, whole, t.deltas),
           !.fact_mutations = [k \in DOMAIN @ \cup DOMAIN t.fact_mutations |->
                                  IF k \in DOMAIN @ THEN @[k] ELSE t.fact_mutations[k]]]

Commit ==
    /\ transactions # <<>>
    /\ LET outer == Front(transactions)
       IN  transactions' =
             IF outer = <<>> THEN <<>>
             ELSE [outer EXCEPT ![Len(outer)] = Merge(Last(outer), Top)]
    /\ begun' = Front(begun)
    /\ UNCHANGED <<graph, gens>>

\* The generations stay as they are.
Rollback ==
    /\ transactions # <<>>
    /\ graph' = Undo(Top, graph)
    /\ transactions' = Front(transactions)
    /\ begun' = Front(begun)
    /\ UNCHANGED gens

-------------------------------------------------------------------------------
(* The operations on the graph. *)

\* intern_name, when the spelling is new.
InternName(n) ==
    /\ graph.name_index[n] = NoId
    /\ NextGeneration(graph.names, gens.names) <= MaxGeneration
    /\ graph' = [graph EXCEPT !.names = Append(@, n),
                              !.name_index[n] = NewId(graph.names, gens.names)]
    /\ gens' = [gens EXCEPT !.names = Generations(graph.names, @)]
    /\ transactions' = Journal([Top EXCEPT !.inserted = @ \cup {n}])

\* bind_entity and add_binding: a new record, appended and indexed in its context.
BindEntity(c, n) ==
    /\ graph.name_index[n] # NoId
    /\ Len(graph.bindings) < MaxBindings
    /\ NextGeneration(graph.bindings, gens.bindings) <= MaxGeneration
    /\ LET id == NewId(graph.bindings, gens.bindings)
       IN  graph' = [graph EXCEPT
              !.bindings = Append(@, [name |-> n, definition |-> FALSE, predecessor |-> NoId]),
              !.contexts[c].bindings = Append(@, id),
              !.contexts[c].index[n] = id]
    /\ gens' = [gens EXCEPT !.bindings = Generations(graph.bindings, @)]
    /\ transactions' =
          Journal(RecordDeltas(Top, c, <<Appended(c, "bindings"), IndexAssigned(c, n)>>))

\* bind_callable_overload, when the context has a binding of the name already.
BindOverload(c, n) ==
    /\ ValidBinding(graph.contexts[c].index[n])
    /\ transactions # <<>> => Len(Top.deltas) < MaxDeltas
    /\ LET b == graph.contexts[c].index[n].index
       IN  /\ graph' = [graph EXCEPT !.bindings[b].definition = TRUE]
           /\ transactions' =
                Journal(RecordDeltas(RecordBinding(Top, b), c, <<IndexAssigned(c, n)>>))
    /\ UNCHANGED gens

\* binding_mut, and the other functions named ..._mut.
BindingMut(b) ==
    /\ graph' = [graph EXCEPT !.bindings[b].definition = ~@]
    /\ transactions' = Journal(RecordBinding(Top, b))
    /\ UNCHANGED gens

\* create_decl_context and add_decl_context.
AddContext(parent) ==
    /\ Len(graph.contexts) < MaxContexts
    /\ NextGeneration(graph.contexts, gens.contexts) <= MaxGeneration
    /\ graph' = [graph EXCEPT
          !.contexts = Append([graph.contexts EXCEPT ![parent].children =
                                  Append(@, NewId(graph.contexts, gens.contexts))],
                              NoContext)]
    /\ gens' = [gens EXCEPT !.contexts = Generations(graph.contexts, @)]
    /\ transactions' = Journal(RecordDeltas(Top, parent, <<Appended(parent, "children")>>))

\* add_using_directive.
AddUsingDirective(c, target) ==
    /\ c # target
    /\ \A i \in DOMAIN graph.contexts[c].using :
          graph.contexts[c].using[i] # ContextId(target)
    /\ graph' = [graph EXCEPT !.contexts[c].using = Append(@, ContextId(target))]
    /\ transactions' = Journal(RecordDeltas(Top, c, <<Appended(c, "using")>>))
    /\ UNCHANGED gens

\* How decl_context_mut and record_decl_context_mutation are called: for a context
\* made in the same transaction (enter_namespace), or by an import, before anything
\* else that is still open has touched the context (merge_top_level_bindings).
CalledInOrder(c) ==
    transactions # <<>> =>
        \/ c > Top.contexts_size
        \/ \A i \in DOMAIN transactions : \A j \in DOMAIN transactions[i].deltas :
              transactions[i].deltas[j].context # c

\* decl_context_mut.
ContextMut(c) ==
    /\ CalledInOrder(c)
    /\ graph' = [graph EXCEPT !.contexts[c].inline = ~@]
    /\ transactions' = Journal(RecordContext(Top, c))
    /\ UNCHANGED gens

\* set_record_facts and its likes.
SetFact(k, f) ==
    /\ graph.facts[k] # f
    /\ graph' = [graph EXCEPT !.facts[k] = f]
    /\ transactions' = Journal(RecordFact(Top, k))
    /\ UNCHANGED gens

\* One call of the file.
Operation ==
    \/ \E n \in Names : InternName(n)
    \/ \E c \in DOMAIN graph.contexts, n \in Names : BindEntity(c, n) \/ BindOverload(c, n)
    \/ \E b \in DOMAIN graph.bindings : BindingMut(b)
    \/ \E c \in DOMAIN graph.contexts : AddContext(c) \/ ContextMut(c)
    \/ \E c, t \in DOMAIN graph.contexts : AddUsingDirective(c, t)
    \/ \E k \in Keys, f \in Facts : SetFact(k, f)

\* The constructor of File makes the context of the translation unit.
FileInit ==
    /\ graph = [names |-> <<>>, name_index |-> [n \in Names |-> NoId], bindings |-> <<>>,
                contexts |-> <<NoContext>>, facts |-> [k \in Keys |-> NoFact]]
    /\ gens = [names |-> <<>>, bindings |-> <<>>, contexts |-> <<1>>]
    /\ transactions = <<>>
    /\ begun = <<>>
===============================================================================
