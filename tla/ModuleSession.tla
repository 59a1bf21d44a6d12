--------------------------- MODULE ModuleSession ---------------------------
(***************************************************************************)
(* ModuleBuildSession (src/libaburi/modules/session.cpp): the driver       *)
(* registers the module units of a command line, then compiles the inputs  *)
(* in order; an import met while a unit is compiled makes the session      *)
(* compile, or read from an artifact, the unit that provides the module.   *)
(*                                                                         *)
(* The C++ call stack is the variable stack: a frame per run_frontend that *)
(* is under way.  The imports of a unit are handled in the order of its    *)
(* text, which is any order here.  An artifact is named by the key it is   *)
(* found under.                                                            *)
(***************************************************************************)
EXTENDS Naturals, Sequences

CONSTANTS Paths,     \* source files
          Keys,      \* module names, with their partitions
          None,      \* no module name, no artifact, no provider
          Inputs,    \* the source files of the command line, in order
          Projects,  \* what may be in the files
          MaxDepth   \* bound: the nested calls the thread's stack has room for

(* A source file: the module it declares (None: it declares none), whether *)
(* it is an interface others can import, the modules it imports, and       *)
(* whether its own text compiles ("gone": scanned, then no longer there).  *)
Unit == [key : Keys \cup {None}, interface : BOOLEAN,
         imports : SUBSET Keys, text : {"ok", "error", "gone"}]

(* An artifact: whether it can be read by this compiler, and the modules   *)
(* its unit had imported when it was written.                              *)
Artifact == [valid : BOOLEAN, deps : SUBSET Keys]

(* A project has one artifact per module named on the command line (files) *)
(* and one per module found in the prebuilt directories (prebuilt).  They  *)
(* may have been written at different times, so that artifacts can record  *)
(* one another as imports.                                                 *)
ASSUME ModuleSessionAssumption ==
    /\ Inputs \in Seq(Paths)
    /\ \A i, j \in DOMAIN Inputs : Inputs[i] = Inputs[j] => i = j
    /\ Keys \cap Paths = {} /\ None \notin Keys \cup Paths
    /\ Projects \subseteq [unit     : [Paths -> Unit],
                           files    : [Keys -> Artifact \cup {None}],
                           prebuilt : [Keys -> Artifact \cup {None}]]
    /\ \A j \in Projects : \A p \in Paths :
          j.unit[p].interface => j.unit[p].key # None
    /\ MaxDepth \in Nat

VARIABLES project,   \* the files of this run
          scanned,   \* inputs run_inputs has scanned
          finished,  \* inputs run_inputs has compiled
          resolver,  \* resolver_: the source that provides a module
          active,    \* active_loads_
          units,     \* units_by_path_
          stack,     \* the run_frontend calls under way, innermost last
          exit,      \* exit_code
          cyclic     \* history: sources reported as a cyclic dependency

vars == <<project, scanned, finished, resolver, active, units, stack, exit,
          cyclic>>

Source(p) == project.unit[p]

\* Mutant: only the innermost load is compared.
MemberLast(x, s) == s # <<>> /\ s[Len(s)] = x

Member(x, s) == \E i \in DOMAIN s : s[i] = x

-----------------------------------------------------------------------------
(* run_inputs: the units are registered before anything is compiled.       *)

(* register_module_source: the first interface of a module provides it; a  *)
(* second one is an error, and compiled without being importable.          *)
RegisterModuleSource ==
    /\ scanned < Len(Inputs)
    /\ scanned' = scanned + 1
    /\ LET p == Inputs[scanned + 1]
           k == Source(p).key
       IN IF ~Source(p).interface
            THEN UNCHANGED <<resolver, exit>>
            ELSE IF resolver[k] = None
              THEN resolver' = [resolver EXCEPT ![k] = p] /\ UNCHANGED exit
              ELSE exit' = 1 /\ UNCHANGED resolver
    /\ UNCHANGED <<project, finished, active, units, stack, cyclic>>

(* A run_frontend call: the unit, whether ensure_compiled made the call,   *)
(* the module the caller is loading, the import declarations still to come,*)
(* the replays of loaded units under way (innermost last), the imported    *)
(* modules, and whether an error was reported.                             *)
Frame(p, owned, k) ==
    [path |-> p, owned |-> owned, for |-> k, todo |-> Source(p).imports,
     replay |-> <<>>, imported |-> {}, failed |-> FALSE]

Cached(p) == p \in DOMAIN units

(* run_file on the next input. *)
RunFile ==
    /\ scanned = Len(Inputs) /\ finished < Len(Inputs) /\ stack = <<>>
    /\ LET p == Inputs[finished + 1]
       IN \/ /\ Source(p).text = "gone"
             /\ exit' = 1 /\ finished' = finished + 1
             /\ UNCHANGED <<stack, active>>
          \/ /\ Source(p).text # "gone"
             /\ Source(p).key # None /\ Cached(p)
             /\ exit' = IF units[p].ok THEN exit ELSE 1
             /\ finished' = finished + 1
             /\ UNCHANGED <<stack, active>>
          \/ /\ Source(p).text # "gone"
             /\ Source(p).key # None /\ ~Cached(p) /\ ~Member(p, active)
             /\ stack' = <<Frame(p, TRUE, None)>>
             /\ active' = Append(active, p)
             /\ UNCHANGED <<exit, finished>>
          \/ /\ Source(p).text # "gone"
             /\ Source(p).key # None => ~Cached(p) /\ Member(p, active)
             /\ stack' = <<Frame(p, FALSE, None)>>
             /\ UNCHANGED <<exit, finished, active>>
    /\ UNCHANGED <<project, scanned, resolver, units, cyclic>>

-----------------------------------------------------------------------------
(* The innermost compilation *)

Top == stack[Len(stack)]

Replaying(f) == f.replay # <<>>

Innermost(f) == f.replay[Len(f.replay)]

(* The imports that come next: those of the unit being replayed, or the    *)
(* declarations of the file.                                               *)
Wanted(f) == IF Replaying(f) THEN Innermost(f).deps ELSE f.todo

Took(f, k) ==
    IF Replaying(f)
      THEN [f EXCEPT !.replay[Len(f.replay)].deps = @ \ {k}]
      ELSE [f EXCEPT !.todo = @ \ {k}]

(* load gave a unit: replay_imported_unit first imports what the unit had  *)
(* imported.                                                               *)
Replay(f, k, deps) ==
    [f EXCEPT !.replay = Append(@, [key |-> k, deps |-> deps])]

(* load gave none: import_module_unit_by_key reports an error. *)
Failed(f) == [f EXCEPT !.failed = TRUE]

\* Mutant: a unit that failed to compile is replayed like any other.
LoadedAlways(f, k, u) == Replay(f, k, u.deps)

Loaded(f, k, u) == IF u.ok THEN Replay(f, k, u.deps) ELSE Failed(f)

(* An exception ends the frontend: run_frontend catches it, and the result *)
(* is not ok.                                                              *)
Aborted(f) == [Failed(f) EXCEPT !.todo = {}, !.replay = <<>>]

SetTop(f) == stack' = [stack EXCEPT ![Len(stack)] = f]

(* The artifact load takes: a -fmodule-file one before a prebuilt one. *)
ArtifactOf(k) ==
    IF project.files[k] # None THEN project.files[k] ELSE project.prebuilt[k]

(* Too many compilations inside each other, or replays inside each other:  *)
(* the thread's stack overflows, and the session is over.                  *)
Overflown == Len(stack) > MaxDepth \/ (stack # <<>> /\ Len(Top.replay) > MaxDepth)

Running == stack # <<>> /\ ~Overflown

Importing(k) == Running /\ k \in Wanted(Top)

(* import_module_unit_by_key of a module this file already imported. *)
ImportKnown(k) ==
    /\ Importing(k) /\ k \in Top.imported
    /\ SetTop(Took(Top, k))
    /\ UNCHANGED <<project, scanned, finished, resolver, active, units, exit,
                   cyclic>>

(* load of a module whose source was compiled before: ok or not, it is not *)
(* compiled again.                                                         *)
ImportCompiled(k) ==
    /\ Importing(k) /\ k \notin Top.imported
    /\ resolver[k] # None /\ Cached(resolver[k])
    /\ SetTop(Loaded(Took(Top, k), k, units[resolver[k]]))
    /\ UNCHANGED <<project, scanned, finished, resolver, active, units, exit,
                   cyclic>>

\* Mutant: active_loads_ is searched before units_by_path_.
ImportCycleFirst(k) ==
    /\ Importing(k) /\ k \notin Top.imported
    /\ resolver[k] # None
    /\ Member(resolver[k], active)
    /\ SetTop(Failed(Took(Top, k)))
    /\ cyclic' = cyclic \cup {resolver[k]}
    /\ UNCHANGED <<project, scanned, finished, resolver, active, units, exit>>

(* ensure_compiled of a source that is being compiled. *)
ImportCycle(k) ==
    /\ Importing(k) /\ k \notin Top.imported
    /\ resolver[k] # None
    /\ ~Cached(resolver[k]) /\ Member(resolver[k], active)
    /\ SetTop(Failed(Took(Top, k)))
    /\ cyclic' = cyclic \cup {resolver[k]}
    /\ UNCHANGED <<project, scanned, finished, resolver, active, units, exit>>

\* Mutant: active_loads_ is not searched.
ImportSourceAgain(k) ==
    /\ Importing(k) /\ k \notin Top.imported
    /\ resolver[k] # None
    /\ ~Cached(resolver[k])
    /\ LET p == resolver[k]
       IN /\ active' = Append(active, p)
          /\ IF Source(p).text = "gone"
               THEN SetTop(Aborted(Top))
               ELSE stack' = Append([stack EXCEPT ![Len(stack)] = Took(Top, k)],
                                    Frame(p, TRUE, k))
    /\ UNCHANGED <<project, scanned, finished, resolver, units, exit, cyclic>>

(* ensure_compiled of any other source: compile_ is called.  read_file     *)
(* throws if the file is gone, past the pop_back of active_loads_ and into *)
(* the run_frontend of the importing unit.                                 *)
ImportSource(k) ==
    /\ Importing(k) /\ k \notin Top.imported
    /\ resolver[k] # None
    /\ ~Cached(resolver[k]) /\ ~Member(resolver[k], active)
    /\ LET p == resolver[k]
       IN /\ active' = Append(active, p)
          /\ IF Source(p).text = "gone"
               THEN SetTop(Aborted(Top))
               ELSE stack' = Append([stack EXCEPT ![Len(stack)] = Took(Top, k)],
                                    Frame(p, TRUE, k))
    /\ UNCHANGED <<project, scanned, finished, resolver, units, exit, cyclic>>

(* load of a module no source provides: ensure_artifact_loaded, or an      *)
(* error if there is no artifact or it cannot be used.                     *)
ImportArtifact(k) ==
    /\ Importing(k) /\ k \notin Top.imported
    /\ resolver[k] = None
    /\ IF ArtifactOf(k) # None /\ ArtifactOf(k).valid
         THEN SetTop(Replay(Took(Top, k), k, ArtifactOf(k).deps))
         ELSE SetTop(Failed(Took(Top, k)))
    /\ UNCHANGED <<project, scanned, finished, resolver, active, units, exit,
                   cyclic>>

(* replay_imported_unit ends: the module is imported. *)
ReplayDone ==
    /\ Running /\ Replaying(Top) /\ Innermost(Top).deps = {}
    /\ SetTop([Top EXCEPT !.replay = SubSeq(@, 1, Len(@) - 1),
                          !.imported = @ \cup {Innermost(Top).key}])
    /\ UNCHANGED <<project, scanned, finished, resolver, active, units, exit,
                   cyclic>>

(* The frontend gives up on a file with errors (the error limit, or an     *)
(* error the preprocessor throws), with imports not handled.               *)
Abort ==
    /\ Running
    /\ Top.failed \/ Source(Top.path).text = "error"
    /\ Top.todo # {} \/ Replaying(Top)
    /\ SetTop(Aborted(Top))
    /\ UNCHANGED <<project, scanned, finished, resolver, active, units, exit,
                   cyclic>>

(* The rest of run_frontend and, for a unit of the session, of             *)
(* ensure_compiled: the last entry of active_loads_ goes and the result is *)
(* kept, ok or not.  The caller is a load, or run_file.                    *)
Finish ==
    /\ Running /\ Top.todo = {} /\ ~Replaying(Top)
    /\ LET f == Top
           u == [ok   |-> ~f.failed /\ Source(f.path).text = "ok",
                 deps |-> f.imported]
           n == Len(stack) - 1
       IN /\ IF f.owned
               THEN /\ active' = SubSeq(active, 1, Len(active) - 1)
                    /\ units' = [p \in DOMAIN units \cup {f.path} |->
                                   IF p = f.path THEN u ELSE units[p]]
               ELSE UNCHANGED <<active, units>>
          /\ IF n = 0
               THEN /\ stack' = <<>>
                    /\ exit' = IF u.ok THEN exit ELSE 1
                    /\ finished' = finished + 1
               ELSE /\ stack' = [i \in 1..n |->
                                   IF i = n THEN Loaded(stack[n], f.for, u)
                                            ELSE stack[i]]
                    /\ UNCHANGED <<exit, finished>>
    /\ UNCHANGED <<project, scanned, resolver, cyclic>>

-----------------------------------------------------------------------------
Init ==
    /\ project \in Projects
    /\ scanned = 0 /\ finished = 0
    /\ resolver = [k \in Keys |-> None]
    /\ active = <<>> /\ units = << >> /\ stack = <<>>
    /\ exit = 0 /\ cyclic = {}

Done == finished = Len(Inputs)

Terminated == (Done \/ Overflown) /\ UNCHANGED vars

Next ==
    \/ RegisterModuleSource
    \/ RunFile
    \/ \E k \in Keys :
          \/ ImportKnown(k) \/ ImportCompiled(k) \/ ImportCycle(k)
          \/ ImportSource(k) \/ ImportArtifact(k)
    \/ ReplayDone
    \/ Abort
    \/ Finish
    \/ Terminated

(* One thread runs the session: it takes a step whenever it can. *)
Spec == Init /\ [][Next]_vars /\ WF_vars(Next)

-----------------------------------------------------------------------------
(* Properties *)

(* What a module stands for: its source, else its artifact (by its key). *)
Provider(k) == IF resolver[k] # None THEN resolver[k] ELSE k

Nodes == Paths \cup Keys

Wants(n) ==
    IF n \in Paths THEN Source(n).imports
    ELSE IF ArtifactOf(n) = None THEN {} ELSE ArtifactOf(n).deps

Sound(n) ==
    IF n \in Paths THEN Source(n).text = "ok"
    ELSE ArtifactOf(n) # None /\ ArtifactOf(n).valid

Needs(n) == {Provider(k) : k \in Wants(n)}

(* The units that compile: the least set that holds every sound unit all   *)
(* of whose imports are in it.  Nothing on a cycle, and nothing that leads *)
(* to one, is in it.                                                       *)
Good ==
    {n \in Nodes : \A S \in SUBSET Nodes :
        (\A m \in Nodes : Sound(m) /\ Needs(m) \subseteq S => m \in S)
            => n \in S}

(* A unit is compiled at most once at a time, however the imports lead     *)
(* back to it: the recursion of load and ensure_compiled is bounded by the *)
(* number of units.                                                        *)
NoReentry ==
    \A i, j \in DOMAIN stack :
        i # j /\ stack[i].owned /\ stack[j].owned
            => stack[i].path # stack[j].path

(* A result the session keeps does not depend on which input, or which     *)
(* import, made the session compile the unit: it is ok exactly if the unit *)
(* and everything it imports is.  A unit compiled while another is under   *)
(* way, with that one not yet available, is the case to get wrong.  The    *)
(* exit code is 0 exactly if every input compiles and no module has two    *)
(* providers.                                                              *)
ResultsRight ==
    /\ \A p \in DOMAIN units : units[p].ok = (p \in Good)
    /\ Done => (exit = 0 <=>
                 /\ \A i \in DOMAIN Inputs : Inputs[i] \in Good
                 /\ \A i \in DOMAIN Inputs :
                       Source(Inputs[i]).interface
                          => resolver[Source(Inputs[i]).key] = Inputs[i])

(* A unit is reported as part of a cyclic dependency only if it is, or if  *)
(* its file is gone: an exception leaves entries in active_loads_, and one *)
(* that a file outside any module left there, which no pop_back takes      *)
(* away, is reported as a cycle to the next unit that imports it.  The     *)
(* other entries that are left over never count.                           *)
CyclesReal ==
    \A p \in cyclic :
        \/ Source(p).text = "gone"
        \/ \A S \in SUBSET Nodes :
              (Needs(p) \subseteq S /\ \A m \in S : Needs(m) \subseteq S) => p \in S

(* Artifacts that record one another as imports, around a circle, and no   *)
(* source that would be used instead.                                      *)
ArtifactsCyclic ==
    \E S \in SUBSET Keys :
        S # {} /\ \A k \in S : resolver[k] = None /\ Sound(k) /\ Wants(k) \cap S # {}

(* Every session ends and has looked at every input, cyclic imports of     *)
(* sources or not.  Only artifacts that record one another make the replay *)
(* go on until the stack overflows: a module counts as imported only when  *)
(* its replay has ended (import_module_unit_by_key).                       *)
Terminates == <>(Done \/ (Overflown /\ ArtifactsCyclic))

=============================================================================
