----------------------------- MODULE Speculation -----------------------------
(***************************************************************************)
(* Session::SpeculativeParseGuard (collect/collect_core.cpp) over the      *)
(* transactions of cir::File, and the transactions that the synthesis of   *)
(* comparisons (collect/collect_compare.cpp) begins without a guard.       *)
(*                                                                         *)
(* A guard also goes back in what the session remembers besides the file:  *)
(* some members are copied, the memos (typeinfo_entities_, templates_ ...) *)
(* are undone by the actions that track_speculative_rollback collects.  The *)
(* model has the memo of the declarations with C linkage.                  *)
(***************************************************************************)
EXTENDS CirFile

CONSTANT MaxMemo  \* bound on the undo actions of a guard

VARIABLES
    memo,       \* what the session remembers: c_language_entities_
    snapshots,  \* speculative_snapshots_
    leaked,     \* history: names whose memo has outlived its record
    recalled    \* history: the memos when each of the guards was made

sessionVars == <<memo, snapshots, leaked, recalled>>

vars == <<graph, gens, transactions, begun, sessionVars>>

\* The memos that can still be used.
Known == [n \in Names |-> IF ValidBinding(memo[n]) THEN memo[n] ELSE NoId]

\* The innermost transaction belongs to the innermost guard.
Guarded == snapshots # <<>> /\ Last(snapshots).file_transaction = Len(transactions)

BeginSpeculativeParse ==
    /\ Begin
    /\ snapshots' = Append(snapshots,
          [file_transaction |-> Len(transactions) + 1, memo_rollbacks |-> <<>>])
    /\ recalled' = Append(recalled, Known)
    /\ UNCHANGED <<memo, leaked>>

\* Mutant: the undo actions of an inner guard go with it.
HandOverNothing(outer, rollbacks) == outer

\* The undo actions of a guard that commits become those of the one around it.
HandOver(outer, rollbacks) ==
    IF outer = <<>> THEN <<>>
    ELSE [outer EXCEPT ![Len(outer)].memo_rollbacks = @ \o rollbacks]

CommitSpeculativeParse ==
    /\ Guarded
    /\ Commit
    /\ snapshots' = HandOver(Front(snapshots), Last(snapshots).memo_rollbacks)
    /\ recalled' = Front(recalled)
    /\ UNCHANGED <<memo, leaked>>

\* An undo action removes the entry it was made for, if it is still there, and no
\* other; so it does not matter that the last one runs first.
UndoMemos(m, rollbacks) ==
    [n \in Names |->
        IF \E i \in DOMAIN rollbacks : rollbacks[i] = [name |-> n, entity |-> m[n]]
        THEN NoId ELSE m[n]]

RollbackSpeculativeParse ==
    /\ Guarded
    /\ memo' = UndoMemos(memo, Last(snapshots).memo_rollbacks)
    /\ Rollback
    /\ snapshots' = Front(snapshots)
    /\ recalled' = Front(recalled)
    /\ UNCHANGED leaked

\* collect_synthesized_three_way_compare and the synthesis of defaulted
\* comparisons use the file's transaction alone.
BeginTrial == Begin /\ UNCHANGED sessionVars

CommitTrial ==
    /\ ~Guarded
    /\ Commit
    /\ UNCHANGED sessionVars

Stale(m, g) == {n \in Names : m[n] # NoId /\ ~Valid(m[n], g.bindings, gens.bindings)}

RollbackTrial ==
    /\ ~Guarded
    /\ Rollback
    /\ leaked' = leaked \cup Stale(memo, graph')
    /\ UNCHANGED <<memo, snapshots, recalled>>

\* Mutant: the undo action is not recorded.
TrackNothing(n, id) == snapshots

\* track_speculative_rollback.
Track(n, id) ==
    IF snapshots = <<>> THEN <<>>
    ELSE [snapshots EXCEPT ![Len(snapshots)].memo_rollbacks =
             Append(@, [name |-> n, entity |-> id])]

\* register_c_language_entity: the first declaration of a name with C linkage is
\* remembered, with the action that forgets it, and a later one is linked to it.
RegisterCLanguageEntity(b) ==
    LET id == [index |-> b, gen |-> gens.bindings[b]]
        n == graph.bindings[b].name
    IN  /\ \/ /\ memo[n] = NoId
              /\ snapshots # <<>> => Len(Last(snapshots).memo_rollbacks) < MaxMemo
              /\ memo' = [memo EXCEPT ![n] = id]
              /\ snapshots' = Track(n, id)
              /\ graph' = graph
           \/ /\ memo[n] # id /\ ValidBinding(memo[n])
              /\ graph' = [graph EXCEPT !.bindings[b].predecessor = memo[n]]
              /\ UNCHANGED <<memo, snapshots>>
        /\ transactions' = Journal(RecordBinding(Top, b))
        /\ UNCHANGED <<gens, begun, leaked, recalled>>

Collect == Operation /\ UNCHANGED <<begun, sessionVars>>

SessionInit ==
    /\ memo = [n \in Names |-> NoId]
    /\ snapshots = <<>>
    /\ leaked = {}
    /\ recalled = <<>>

Init == FileInit /\ SessionInit

Next ==
    \/ Collect
    \/ \E b \in DOMAIN graph.bindings : RegisterCLanguageEntity(b)
    \/ BeginSpeculativeParse \/ CommitSpeculativeParse \/ RollbackSpeculativeParse
    \/ BeginTrial \/ CommitTrial \/ RollbackTrial

Spec == Init /\ [][Next]_vars

-------------------------------------------------------------------------------
(* Properties. *)

File == INSTANCE Snapshots WITH live <- graph, saved <- begun

\* The journal of the file implements a stack of snapshots: whatever is done
\* inside a transaction, and however transactions inside it end, a rollback gives
\* back the graph in which the transaction was begun ("CIR transaction rollback
\* changed the live semantic graph", File::rollback_transaction).  The second
\* conjunct keeps a rollback from passing for a commit.
FileRestores ==
    /\ File!Spec
    /\ [][RollbackSpeculativeParse \/ RollbackTrial => File!Rollback]_vars

Memos == INSTANCE Snapshots WITH live <- Known, saved <- recalled

\* So do the undo actions of the guards for what the session can use of its memos,
\* although transactions without a guard begin and end between them and leave
\* memos behind whose records are gone.
MemoRestores ==
    /\ Memos!Spec
    /\ [][RollbackSpeculativeParse => Memos!Rollback]_vars

\* No id that the graph or a memo holds belongs to a record that was rolled back,
\* and every live name is found under its spelling; only a memo written in a
\* transaction without a guard can outlive its record.
NoDangling ==
    /\ \A c \in DOMAIN graph.contexts :
          LET context == graph.contexts[c] IN
          /\ \A i \in DOMAIN context.bindings : ValidBinding(context.bindings[i])
          /\ \A i \in DOMAIN context.children : ValidContext(context.children[i])
          /\ \A i \in DOMAIN context.using : ValidContext(context.using[i])
          /\ \A n \in Names : context.index[n] # NoId => ValidBinding(context.index[n])
    /\ \A b \in DOMAIN graph.bindings :
          graph.bindings[b].predecessor # NoId => ValidBinding(graph.bindings[b].predecessor)
    /\ \A i \in DOMAIN graph.names :
          graph.name_index[graph.names[i]] = [index |-> i, gen |-> gens.names[i]]
    /\ Stale(memo, graph) \subseteq leaked

Issued(g) == UNION {{[index |-> i, gen |-> k] : k \in 1 .. g[i]} : i \in DOMAIN g}

\* An id whose record was rolled back never becomes valid again, although its slot
\* is used again (valid_id).
StaysStale ==
    [][\A id \in Issued(gens.bindings) : ~ValidBinding(id) => ~ValidBinding(id)']_vars
===============================================================================
