------------------------ MODULE ModuleSessionProofs ------------------------
(***************************************************************************)
(* Proofs about ModuleSession, for any project and any number of inputs.   *)
(*                                                                         *)
(* The results of the session are right because every compilation under    *)
(* way is tied to the import graph: what a frame has imported, replays or  *)
(* waits for is reachable from its file, and as long as it reported no     *)
(* error, what it has dealt with compiles.  active_loads_ is not the list  *)
(* of the compilations under way, since exceptions leave entries behind;   *)
(* what is left over is compiled already, or gone.                         *)
(***************************************************************************)
EXTENDS ModuleSession, SequenceTheorems, TLAPS

(* n is needed by a, directly or not. *)
Reaches(a, n) ==
    \A S \in SUBSET Nodes :
        (Needs(a) \subseteq S /\ \A m \in S : Needs(m) \subseteq S) => n \in S

Replays == [key : Keys, deps : SUBSET Keys]

Frames == [path : Paths, owned : BOOLEAN, for : Keys \cup {None},
           todo : SUBSET Keys, replay : Seq(Replays), imported : SUBSET Keys,
           failed : BOOLEAN]

TypeOK ==
    /\ project \in Projects
    /\ scanned \in 0..Len(Inputs) /\ finished \in 0..Len(Inputs)
    /\ resolver \in [Keys -> Paths \cup {None}]
    /\ active \in Seq(Paths)
    /\ DOMAIN units \subseteq Paths
    /\ \A p \in DOMAIN units : units[p].ok \in BOOLEAN /\ units[p].deps \subseteq Keys
    /\ stack \in Seq(Frames)
    /\ exit \in {0, 1}
    /\ cyclic \subseteq Paths

(* While the inputs are scanned nothing is compiled, so that what provides *)
(* a module is settled when the first import is met.                       *)
Scanning ==
    /\ scanned < Len(Inputs) =>
          finished = 0 /\ active = <<>> /\ units = <<>> /\ stack = <<>> /\ cyclic = {}
    /\ \A k \in Keys : resolver[k] # None =>
          \E i \in 1..scanned :
              /\ resolver[k] = Inputs[i]
              /\ Source(Inputs[i]).interface /\ Source(Inputs[i]).key = k

(* The units that frame f has not dealt with are to be found in it: they   *)
(* are still to come, under replay, or being compiled (the set pending).   *)
ReplayKeys(f, x) == {f.replay[y].key : y \in {z \in DOMAIN f.replay : z > x}}

Attained(f, pending) ==
    /\ \A k \in f.imported \cup pending : Reaches(f.path, Provider(k))
    /\ \A x \in DOMAIN f.replay :
          /\ Reaches(f.path, Provider(f.replay[x].key))
          /\ \A d \in f.replay[x].deps : Reaches(f.path, Provider(d))

Loadable(f, x, pending) ==
    LET k == f.replay[x].key
    IN  \/ Provider(k) \in Good
        \/ /\ resolver[k] = None /\ Sound(k)
           /\ Wants(k) \subseteq
                 f.replay[x].deps \cup f.imported \cup pending \cup ReplayKeys(f, x)

Unfailed(f, pending) ==
    /\ \A k \in f.imported : Provider(k) \in Good
    /\ Source(f.path).imports \subseteq
          f.todo \cup f.imported \cup pending \cup ReplayKeys(f, 0)
    /\ \A x \in DOMAIN f.replay : Loadable(f, x, pending)

Fine(f, pending) ==
    /\ f \in Frames
    /\ f.owned \/ Source(f.path).key = None
    /\ f.todo \subseteq Source(f.path).imports
    /\ Attained(f, pending)
    /\ IF f.failed THEN f.path \notin Good ELSE Unfailed(f, pending)

Pending(i) == IF i < Len(stack) THEN {stack[i + 1].for} ELSE {}

StackInv ==
    /\ \A i \in DOMAIN stack : Fine(stack[i], Pending(i))
    /\ \A i \in DOMAIN stack : i > 1 =>
          /\ stack[i].owned /\ stack[i].for \in Keys
          /\ resolver[stack[i].for] = stack[i].path
    /\ \A i, j \in DOMAIN stack : i < j => Reaches(stack[i].path, stack[j].path)
    /\ stack # <<>> =>
          finished < Len(Inputs) /\ stack[1].path = Inputs[finished + 1]

(* The compilations under way are in active_loads_, in their order; every  *)
(* other entry is that of a file compiled before, or gone.                 *)
ActiveInv ==
    /\ \A x, y \in DOMAIN active : active[x] = active[y] => x = y
    /\ \A x \in DOMAIN active :
          \/ Cached(active[x])
          \/ Source(active[x]).text = "gone"
          \/ \E i \in DOMAIN stack : stack[i].owned /\ stack[i].path = active[x]
    /\ \A i \in DOMAIN stack : stack[i].owned =>
          /\ Member(stack[i].path, active)
          /\ ~Cached(stack[i].path)
    /\ \A i, j \in DOMAIN stack : \A x, y \in DOMAIN active :
          /\ i < j /\ stack[i].owned /\ stack[j].owned
          /\ active[x] = stack[i].path /\ active[y] = stack[j].path
          => x < y

UnitsInv ==
    \A p \in DOMAIN units :
        /\ units[p].ok = (p \in Good)
        /\ \A d \in units[p].deps : Reaches(p, Provider(d))

ExitInv ==
    exit = 0 <=>
        /\ \A i \in 1..finished : Inputs[i] \in Good
        /\ \A i \in 1..scanned :
              Source(Inputs[i]).interface => resolver[Source(Inputs[i]).key] = Inputs[i]

IInv ==
    /\ TypeOK /\ Scanning /\ StackInv /\ ActiveInv /\ UnitsInv /\ ExitInv
    /\ CyclesReal

-----------------------------------------------------------------------------
(* The import graph *)

(* A project describes every file and artifact, and what provides a module *)
(* is a node of its graph.                                                 *)
LEMMA GraphTypes ==
    ASSUME TypeOK
    PROVE  /\ \A p \in Paths : Source(p) \in Unit
           /\ \A k \in Keys : ArtifactOf(k) \in Artifact \cup {None}
           /\ \A k \in Keys : Provider(k) \in Nodes
           /\ \A n \in Nodes : Wants(n) \subseteq Keys /\ Needs(n) \subseteq Nodes
           /\ \A k \in Keys : k \notin Paths
           /\ \A p \in Paths : Source(p).interface => Source(p).key \in Keys
<1>1. project \in [unit     : [Paths -> Unit],
                   files    : [Keys -> Artifact \cup {None}],
                   prebuilt : [Keys -> Artifact \cup {None}]]
  BY ModuleSessionAssumption DEF TypeOK
<1>2. \A p \in Paths : Source(p) \in Unit
  BY <1>1 DEF Source
<1>3. \A k \in Keys : ArtifactOf(k) \in Artifact \cup {None}
  BY <1>1 DEF ArtifactOf
<1>4. \A k \in Keys : Provider(k) \in Nodes
  BY DEF TypeOK, Provider, Nodes
<1>5. \A k \in Keys : k \notin Paths
  BY ModuleSessionAssumption
<1>6. \A n \in Nodes : Wants(n) \subseteq Keys
  BY <1>2, <1>3 DEF Wants, Nodes, Unit, Artifact
<1>7. \A n \in Nodes : Needs(n) \subseteq Nodes
  BY <1>4, <1>6 DEF Needs
<1>8. \A p \in Paths : Source(p).interface => Source(p).key \in Keys
  <2> SUFFICES ASSUME NEW p \in Paths, Source(p).interface
               PROVE  Source(p).key \in Keys
    OBVIOUS
  <2>1. project \in Projects
    BY DEF TypeOK
  <2>2. \/ project.unit[p].interface /\ project.unit[p].key # None
        \/ ~project.unit[p].interface
    BY <2>1, ModuleSessionAssumption
  <2> QED
    BY <1>2, <2>2 DEF Source, Unit
<1> QED
  BY <1>2, <1>3, <1>4, <1>5, <1>6, <1>7, <1>8

(* What a unit imports it reaches, and what that reaches. *)
LEMMA ReachDirect ==
    ASSUME NEW a, NEW m \in Needs(a)
    PROVE  Reaches(a, m)
BY DEF Reaches

LEMMA ReachTransitive ==
    ASSUME NEW a, NEW b, NEW c, Reaches(a, b), Reaches(b, c)
    PROVE  Reaches(a, c)
BY DEF Reaches

(* Good is closed: a sound unit all of whose imports compile, compiles. *)
LEMMA GoodClosed ==
    ASSUME NEW m \in Nodes, Sound(m), Needs(m) \subseteq Good
    PROVE  m \in Good
<1> SUFFICES ASSUME NEW S \in SUBSET Nodes,
                    \A n \in Nodes : Sound(n) /\ Needs(n) \subseteq S => n \in S
             PROVE  m \in S
  BY DEF Good
<1>1. Good \subseteq S
  BY DEF Good
<1> QED
  BY <1>1

(* And it is the least such set: only such units are in it. *)
LEMMA GoodOnly ==
    ASSUME NEW m \in Good
    PROVE  m \in Nodes /\ Sound(m) /\ Needs(m) \subseteq Good
<1> DEFINE S == {n \in Nodes : Sound(n) /\ Needs(n) \subseteq Good}
<1>1. S \subseteq Good
  BY GoodClosed
<1>2. \A n \in Nodes : Sound(n) /\ Needs(n) \subseteq S => n \in S
  BY <1>1
<1>3. S \in SUBSET Nodes
  OBVIOUS
<1> HIDE DEF S
<1>4. m \in S
  BY <1>2, <1>3 DEF Good
<1> QED
  BY <1>4 DEF S

(* What a unit that compiles reaches compiles too. *)
LEMMA GoodReaches ==
    ASSUME NEW a \in Good, NEW n, Reaches(a, n)
    PROVE  n \in Good
<1>1. Good \in SUBSET Nodes
  BY DEF Good
<1>2. Needs(a) \subseteq Good /\ \A m \in Good : Needs(m) \subseteq Good
  BY GoodOnly
<1> QED
  BY <1>1, <1>2 DEF Reaches

(* A unit on a cycle does not compile. *)
LEMMA CycleBad ==
    ASSUME TypeOK, NEW p, Reaches(p, p)
    PROVE  p \notin Good
<1> DEFINE Apart == {n \in Nodes : n # p /\ ~Reaches(n, p)}
           S == Good \cap Apart
<1>1. ASSUME NEW n \in Apart
      PROVE  Needs(n) \subseteq Apart
  <2> SUFFICES ASSUME NEW m \in Needs(n)
               PROVE  m \in Apart
    OBVIOUS
  <2>1. Reaches(n, m) /\ m \in Nodes
    BY ReachDirect, GraphTypes
  <2> QED
    BY <2>1, ReachTransitive
<1>2. ASSUME NEW n \in Nodes, Needs(n) \subseteq Apart
      PROVE  ~Reaches(n, p)
  <2>1. Apart \in SUBSET Nodes /\ p \notin Apart
    OBVIOUS
  <2> HIDE DEF Apart
  <2> QED
    BY <1>1, <1>2, <2>1 DEF Reaches
<1>3. ASSUME NEW n \in Nodes, Sound(n), Needs(n) \subseteq S
      PROVE  n \in S
  BY <1>2, <1>3, GoodClosed
<1>4. S \in SUBSET Nodes /\ p \notin S
  OBVIOUS
<1> HIDE DEF S
<1> QED
  BY <1>3, <1>4 DEF Good

-----------------------------------------------------------------------------
(* The frames *)

(* What taking an import off a frame changes. *)
LEMMA TookFields ==
    ASSUME NEW f \in Frames, NEW k \in Wanted(f)
    PROVE  /\ Took(f, k) \in Frames
           /\ Took(f, k).path = f.path /\ Took(f, k).owned = f.owned
           /\ Took(f, k).for = f.for /\ Took(f, k).failed = f.failed
           /\ Took(f, k).imported = f.imported
           /\ DOMAIN Took(f, k).replay = DOMAIN f.replay
           /\ Took(f, k).todo \subseteq f.todo
           /\ f.todo \subseteq Took(f, k).todo \cup {k}
           /\ \A x \in DOMAIN f.replay :
                 /\ Took(f, k).replay[x].key = f.replay[x].key
                 /\ Took(f, k).replay[x].deps \subseteq f.replay[x].deps
                 /\ f.replay[x].deps \subseteq Took(f, k).replay[x].deps \cup {k}
<1>1. CASE ~Replaying(f)
  <2>1. Took(f, k) = [f EXCEPT !.todo = @ \ {k}]
    BY <1>1 DEF Took
  <2>2. Took(f, k) \in Frames
    BY <2>1 DEF Frames
  <2> QED
    BY <2>1, <2>2 DEF Frames
<1>2. CASE Replaying(f)
  <2> DEFINE n == Len(f.replay)
             e == [f.replay[n] EXCEPT !.deps = @ \ {k}]
             r == [f.replay EXCEPT ![n] = e]
  <2>1. f.replay \in Seq(Replays) /\ n \in 1..n /\ n \in DOMAIN f.replay
    BY <1>2 DEF Replaying, Frames
  <2>2. Took(f, k) = [f EXCEPT !.replay = r]
    BY <1>2 DEF Took
  <2>3. f.replay[n] \in Replays
    BY <2>1
  <2>4. /\ e \in Replays /\ e.key = f.replay[n].key
        /\ e.deps = f.replay[n].deps \ {k}
    BY <2>3 DEF Replays
  <2> HIDE DEF e
  <2>5. r \in Seq(Replays) /\ DOMAIN r = DOMAIN f.replay
    BY <2>1, <2>4, ExceptSeq
  <2>6. \A x \in DOMAIN f.replay : r[x] = IF x = n THEN e ELSE f.replay[x]
    BY <2>1
  <2> HIDE DEF r, n
  <2>7. \A x \in DOMAIN f.replay :
           /\ r[x].key = f.replay[x].key
           /\ r[x].deps \subseteq f.replay[x].deps
           /\ f.replay[x].deps \subseteq r[x].deps \cup {k}
    BY <2>4, <2>6
  <2>8. Took(f, k) \in Frames
    BY <2>2, <2>5 DEF Frames
  <2> QED
    BY <2>2, <2>5, <2>7, <2>8 DEF Frames
<1> QED
  BY <1>1, <1>2

(* The module a frame wants next is one its file needs. *)
LEMMA WantedReached ==
    ASSUME TypeOK, NEW f, Fine(f, {}), NEW k \in Wanted(f)
    PROVE  k \in Keys /\ Reaches(f.path, Provider(k))
<1>1. f \in Frames /\ f.path \in Paths
  BY DEF Fine, Frames
<1>2. CASE ~Replaying(f)
  <2>1. k \in Source(f.path).imports /\ k \in Keys
    BY <1>1, <1>2 DEF Fine, Wanted, Frames
  <2>2. Provider(k) \in Needs(f.path)
    BY <1>1, <2>1 DEF Needs, Wants
  <2> QED
    BY <2>1, <2>2, ReachDirect
<1>3. CASE Replaying(f)
  <2>1. Len(f.replay) \in DOMAIN f.replay /\ f.replay \in Seq(Replays)
    BY <1>1, <1>3 DEF Replaying, Frames
  <2>2. k \in f.replay[Len(f.replay)].deps /\ f.replay[Len(f.replay)] \in Replays
    BY <1>3, <2>1 DEF Wanted, Innermost
  <2> QED
    BY <2>1, <2>2 DEF Fine, Attained, Replays
<1> QED
  BY <1>2, <1>3

(* A module that was taken is pending. *)
LEMMA TookFine ==
    ASSUME TypeOK, NEW f, Fine(f, {}), NEW k \in Wanted(f)
    PROVE  Fine(Took(f, k), {k})
<1> DEFINE g == Took(f, k)
<1>1. f \in Frames
  BY DEF Fine
<1>2. Reaches(f.path, Provider(k))
  BY WantedReached
<1>3. /\ g \in Frames
      /\ g.path = f.path /\ g.owned = f.owned /\ g.failed = f.failed
      /\ g.imported = f.imported /\ DOMAIN g.replay = DOMAIN f.replay
      /\ g.todo \subseteq f.todo /\ f.todo \subseteq g.todo \cup {k}
      /\ \A x \in DOMAIN f.replay :
            /\ g.replay[x].key = f.replay[x].key
            /\ g.replay[x].deps \subseteq f.replay[x].deps
            /\ f.replay[x].deps \subseteq g.replay[x].deps \cup {k}
  BY <1>1, TookFields
<1> HIDE DEF g
<1>4. Attained(g, {k})
  BY <1>2, <1>3 DEF Fine, Attained
<1>5. \A x : ReplayKeys(g, x) = ReplayKeys(f, x)
  BY <1>3 DEF ReplayKeys
<1>6. ASSUME Unfailed(f, {})
      PROVE  Unfailed(g, {k})
  <2>1. \A x \in DOMAIN g.replay : Loadable(g, x, {k})
    BY <1>3, <1>5, <1>6 DEF Unfailed, Loadable
  <2> QED
    BY <1>3, <1>5, <1>6, <2>1 DEF Unfailed
<1>7. Fine(g, {k})
  BY <1>3, <1>4, <1>6 DEF Fine
<1> QED
  BY <1>7 DEF g

(* The module was imported before. *)
LEMMA KnownFine ==
    ASSUME NEW f, NEW k, Fine(f, {k}), k \in f.imported
    PROVE  Fine(f, {})
<1>1. Unfailed(f, {k}) => Unfailed(f, {})
  BY DEF Unfailed, Loadable
<1> QED
  BY <1>1 DEF Fine, Attained

(* load gave none, because the module does not compile. *)
LEMMA FailedFine ==
    ASSUME NEW f, NEW k, Fine(f, {k}), Provider(k) \notin Good
    PROVE  Fine(Failed(f), {})
<1>1. Reaches(f.path, Provider(k))
  BY DEF Fine, Attained
<1>2. f.path \notin Good
  BY <1>1, GoodReaches
<1>3. /\ Failed(f) \in Frames /\ Failed(f).path = f.path /\ Failed(f).failed
      /\ Failed(f).owned = f.owned /\ Failed(f).todo = f.todo
      /\ Failed(f).imported = f.imported /\ Failed(f).replay = f.replay
  BY DEF Fine, Failed, Frames
<1> QED
  BY <1>2, <1>3 DEF Fine, Attained

(* The frontend gives up. *)
LEMMA AbortedFine ==
    ASSUME NEW f, NEW q, Fine(f, q), f.path \notin Good
    PROVE  Fine(Aborted(f), {})
<1>1. /\ Aborted(f) \in Frames /\ Aborted(f).path = f.path /\ Aborted(f).failed
      /\ Aborted(f).owned = f.owned /\ Aborted(f).todo = {}
      /\ Aborted(f).imported = f.imported /\ Aborted(f).replay = <<>>
  <2>1. f \in Frames
    BY DEF Fine
  <2>2. Aborted(f) = [f EXCEPT !.failed = TRUE, !.todo = {}, !.replay = <<>>]
    BY <2>1 DEF Aborted, Failed, Frames
  <2>3. <<>> \in Seq(Replays)
    OBVIOUS
  <2> QED
    BY <2>1, <2>2, <2>3 DEF Frames
<1> QED
  BY <1>1 DEF Fine, Attained

(* load gave a unit.  Either it compiles, or it is an artifact all of whose *)
(* imports are to be replayed.                                              *)
LEMMA ReplayFine ==
    ASSUME NEW f, NEW k \in Keys, NEW deps \in SUBSET Keys, Fine(f, {k}),
           \A d \in deps : Reaches(Provider(k), Provider(d)),
           \/ Provider(k) \in Good
           \/ resolver[k] = None /\ Sound(k) /\ Wants(k) \subseteq deps
    PROVE  Fine(Replay(f, k, deps), {})
<1> DEFINE g == Replay(f, k, deps)
           n == Len(f.replay)
           e == [key |-> k, deps |-> deps]
<1>1. f \in Frames /\ f.replay \in Seq(Replays) /\ e \in Replays
  BY DEF Fine, Frames, Replays
<1>2. g = [f EXCEPT !.replay = Append(f.replay, e)]
  BY <1>1 DEF Replay
<1>3. e.key = k /\ e.deps = deps
  OBVIOUS
<1> HIDE DEF e
<1>4. Append(f.replay, e) \in Seq(Replays)
  BY <1>1
<1>5. /\ g \in Frames /\ g.replay = Append(f.replay, e)
      /\ g.path = f.path /\ g.owned = f.owned /\ g.failed = f.failed
      /\ g.imported = f.imported /\ g.todo = f.todo
  BY <1>1, <1>2, <1>4 DEF Frames
<1>6. /\ n \in Nat /\ DOMAIN f.replay = 1..n /\ DOMAIN g.replay = 1..(n + 1)
      /\ g.replay[n + 1] = e
      /\ \A x \in 1..n : g.replay[x] = f.replay[x]
  BY <1>1, <1>5
<1> HIDE DEF g, n
<1>7. \A x \in 1..(n + 1) : x = n + 1 \/ x \in 1..n
  BY <1>6
<1>8. Reaches(f.path, Provider(k)) /\ \A d \in deps : Reaches(f.path, Provider(d))
  BY ReachTransitive DEF Fine, Attained
<1>9. Attained(g, {})
  BY <1>3, <1>5, <1>6, <1>7, <1>8 DEF Fine, Attained
<1>10. \A x \in 0..n : ReplayKeys(f, x) \cup {k} \subseteq ReplayKeys(g, x)
  <2> SUFFICES ASSUME NEW x \in 0..n
               PROVE  ReplayKeys(f, x) \cup {k} \subseteq ReplayKeys(g, x)
    OBVIOUS
  <2>1. n + 1 \in DOMAIN g.replay /\ n + 1 > x
    BY <1>6
  <2>2. k \in ReplayKeys(g, x)
    BY <1>3, <1>6, <2>1 DEF ReplayKeys
  <2>3. \A y \in 1..n : y \in 1..(n + 1)
    BY <1>6
  <2>4. ReplayKeys(f, x) \subseteq ReplayKeys(g, x)
    BY <1>6, <2>3 DEF ReplayKeys
  <2> QED
    BY <2>2, <2>4
<1>11. ASSUME Unfailed(f, {k})
       PROVE  Unfailed(g, {})
  <2>1. Loadable(g, n + 1, {})
    BY <1>3, <1>6 DEF Loadable
  <2>2. ASSUME NEW x \in 1..n
        PROVE  Loadable(g, x, {})
    <3>0. x \in 0..n
      BY <1>6
    <3>1. Loadable(f, x, {k})
      BY <1>6, <1>11 DEF Unfailed
    <3>2. g.replay[x] = f.replay[x] /\ ReplayKeys(f, x) \cup {k} \subseteq ReplayKeys(g, x)
      BY <1>6, <1>10, <3>0
    <3> QED
      BY <1>5, <3>1, <3>2 DEF Loadable
  <2>3. Source(g.path).imports \subseteq g.todo \cup g.imported \cup ReplayKeys(g, 0)
    <3>1. 0 \in 0..n
      BY <1>6
    <3> QED
      BY <1>5, <1>10, <1>11, <3>1 DEF Unfailed
  <2> QED
    BY <1>5, <1>6, <1>7, <1>11, <2>1, <2>2, <2>3 DEF Unfailed
<1>12. Fine(g, {})
  BY <1>5, <1>9, <1>11 DEF Fine
<1> QED
  BY <1>12 DEF g

(* A replay ends: if nothing failed, the unit compiles. *)
LEMMA ReplayDoneFine ==
    ASSUME TypeOK, NEW f, Fine(f, {}), Replaying(f), Innermost(f).deps = {}
    PROVE  Fine([f EXCEPT !.replay = SubSeq(@, 1, Len(@) - 1),
                          !.imported = @ \cup {Innermost(f).key}], {})
<1> DEFINE n == Len(f.replay)
           k == Innermost(f).key
           r == SubSeq(f.replay, 1, n - 1)
           g == [f EXCEPT !.replay = SubSeq(@, 1, Len(@) - 1),
                          !.imported = @ \cup {Innermost(f).key}]
<1>1. f \in Frames /\ f.replay \in Seq(Replays)
  BY DEF Fine, Frames
<1>2. n \in Nat \ {0} /\ DOMAIN f.replay = 1..n /\ n \in 1..n
  BY <1>1 DEF Replaying
<1>3. k = f.replay[n].key /\ f.replay[n].deps = {} /\ k \in Keys
  <2>1. f.replay[n] \in Replays
    BY <1>1, <1>2
  <2>2. Innermost(f) = f.replay[n]
    BY DEF Innermost
  <2> QED
    BY <2>1, <2>2 DEF Replays
<1>4. /\ r \in Seq(Replays) /\ DOMAIN r = 1..(n - 1)
      /\ \A x \in 1..(n - 1) : r[x] = f.replay[x]
  BY <1>1, <1>2
<1>5. g = [f EXCEPT !.replay = r, !.imported = f.imported \cup {k}]
  BY <1>1
<1> HIDE DEF k, r
<1>6. /\ g \in Frames /\ g.replay = r /\ g.imported = f.imported \cup {k}
      /\ g.path = f.path /\ g.owned = f.owned /\ g.failed = f.failed
      /\ g.todo = f.todo
  <2>1. f.imported \cup {k} \in SUBSET Keys
    BY <1>1, <1>3 DEF Frames
  <2> QED
    BY <1>1, <1>4, <1>5, <2>1 DEF Frames
<1> HIDE DEF g, n
<1>7. \A x \in 1..n : x = n \/ x \in 1..(n - 1)
  BY <1>2
<1>8. \A x \in 1..(n - 1) : x \in 1..n
  BY <1>2
<1>9. Attained(g, {})
  BY <1>2, <1>3, <1>4, <1>6, <1>8 DEF Fine, Attained
<1>10. \A x \in 0..n : ReplayKeys(f, x) \subseteq ReplayKeys(g, x) \cup {k}
  BY <1>2, <1>3, <1>4, <1>6, <1>7 DEF ReplayKeys
<1>11. ASSUME Unfailed(f, {})
       PROVE  Unfailed(g, {})
  <2>1. Provider(k) \in Good
    <3>1. Loadable(f, n, {})
      BY <1>2, <1>11 DEF Unfailed
    <3>2. CASE Provider(k) \notin Good
      <4>1. ReplayKeys(f, n) = {}
        BY <1>2 DEF ReplayKeys
      <4>2. resolver[k] = None /\ Sound(k) /\ Wants(k) \subseteq f.imported
        BY <1>3, <3>1, <3>2, <4>1 DEF Loadable
      <4>3. Needs(k) \subseteq Good
        BY <1>11, <4>2 DEF Needs, Unfailed
      <4>4. Provider(k) = k /\ k \in Nodes
        BY <1>3, <4>2 DEF Provider, Nodes
      <4> QED
        BY <4>2, <4>3, <4>4, GoodClosed
    <3> QED
      BY <3>2
  <2>2. ASSUME NEW x \in 1..(n - 1)
        PROVE  Loadable(g, x, {})
    <3>1. Loadable(f, x, {}) /\ x \in 0..n
      BY <1>2, <1>8, <1>11 DEF Unfailed
    <3> QED
      BY <1>4, <1>6, <1>10, <3>1 DEF Loadable
  <2>3. Source(g.path).imports \subseteq g.todo \cup g.imported \cup ReplayKeys(g, 0)
    <3>1. 0 \in 0..n
      BY <1>2
    <3> QED
      BY <1>6, <1>10, <1>11, <3>1 DEF Unfailed
  <2> QED
    BY <1>4, <1>6, <1>11, <2>1, <2>2, <2>3 DEF Unfailed
<1>12. Fine(g, {})
  BY <1>6, <1>9, <1>11 DEF Fine
<1> QED
  BY <1>12 DEF g

(* A compilation begins. *)
LEMMA FrameFine ==
    ASSUME TypeOK, NEW p \in Paths, NEW owned \in BOOLEAN, NEW k \in Keys \cup {None},
           owned \/ Source(p).key = None
    PROVE  Fine(Frame(p, owned, k), {})
<1>1. Source(p).imports \in SUBSET Keys
  BY GraphTypes DEF Unit
<1>2. <<>> \in Seq(Replays)
  OBVIOUS
<1>3. Frame(p, owned, k) \in Frames
  BY <1>1, <1>2 DEF Frame, Frames
<1> QED
  BY <1>3 DEF Frame, Fine, Attained, Unfailed

(* A compilation ends: its result is right. *)
LEMMA ResultRight ==
    ASSUME TypeOK, NEW f, Fine(f, {}), f.todo = {}, ~Replaying(f)
    PROVE  /\ (~f.failed /\ Source(f.path).text = "ok") = (f.path \in Good)
           /\ \A d \in f.imported : Reaches(f.path, Provider(d))
<1>1. f \in Frames /\ f.path \in Paths /\ f.path \in Nodes
  BY DEF Fine, Frames, Nodes
<1>2. Sound(f.path) <=> Source(f.path).text = "ok"
  BY <1>1 DEF Sound
<1>3. ASSUME f.path \in Good
      PROVE  ~f.failed /\ Source(f.path).text = "ok"
  BY <1>2, <1>3, GoodOnly DEF Fine
<1>4. ASSUME ~f.failed, Source(f.path).text = "ok"
      PROVE  f.path \in Good
  <2>1. Unfailed(f, {}) /\ ReplayKeys(f, 0) = {}
    BY <1>4 DEF Fine, Replaying, ReplayKeys
  <2>2. Needs(f.path) \subseteq Good
    BY <1>1, <2>1 DEF Unfailed, Needs, Wants
  <2> QED
    BY <1>1, <1>2, <1>4, <2>2, GoodClosed
<1>5. \A d \in f.imported : Reaches(f.path, Provider(d))
  BY DEF Fine, Attained
<1> QED
  BY <1>3, <1>4, <1>5

-----------------------------------------------------------------------------
(* The steps *)

(* A step of a compilation leaves the import graph alone. *)
LEMMA SameGraph ==
    ASSUME UNCHANGED <<project, resolver>>
    PROVE  /\ \A p : Source(p)' = Source(p)
           /\ \A k : Provider(k)' = Provider(k)
           /\ Good' = Good
           /\ \A a, n : Reaches(a, n)' <=> Reaches(a, n)
           /\ \A f, q : Fine(f, q)' <=> Fine(f, q)
           /\ \A p : Cached(p)' <=> p \in DOMAIN units'
<1>1. /\ \A p : Source(p)' = Source(p)
      /\ \A k : Provider(k)' = Provider(k)
      /\ \A k : ArtifactOf(k)' = ArtifactOf(k)
  BY DEF Source, Provider, ArtifactOf
<1>2. \A n : Wants(n)' = Wants(n) /\ (Sound(n)' <=> Sound(n))
  BY <1>1 DEF Wants, Sound
<1>3. \A n : Needs(n)' = Needs(n)
  BY <1>1, <1>2 DEF Needs
<1>4. Nodes' = Nodes
  BY DEF Nodes
<1>5. Good' = Good
  BY <1>2, <1>3, <1>4 DEF Good
<1>6. \A a, n : Reaches(a, n)' <=> Reaches(a, n)
  BY <1>3, <1>4 DEF Reaches
<1>7. \A f, q : Attained(f, q)' <=> Attained(f, q)
  BY <1>1, <1>6 DEF Attained
<1>8. \A f, x, q : Loadable(f, x, q)' <=> Loadable(f, x, q)
  <2>1. \A f, x : ReplayKeys(f, x)' = ReplayKeys(f, x)
    BY DEF ReplayKeys
  <2> QED
    BY <1>1, <1>2, <1>5, <2>1 DEF Loadable
<1>9. \A f, q : Unfailed(f, q)' <=> Unfailed(f, q)
  BY <1>1, <1>5, <1>8 DEF Unfailed, ReplayKeys
<1>10. \A f, q : Fine(f, q)' <=> Fine(f, q)
  BY <1>1, <1>5, <1>7, <1>9 DEF Fine
<1>11. \A p : Cached(p)' <=> p \in DOMAIN units'
  BY DEF Cached
<1> QED
  BY <1>1, <1>5, <1>6, <1>10, <1>11

(* The innermost compilation. *)
LEMMA TopFine ==
    ASSUME IInv, stack # <<>>
    PROVE  /\ Len(stack) \in Nat \ {0} /\ DOMAIN stack = 1..Len(stack)
           /\ Len(stack) \in DOMAIN stack
           /\ Fine(Top, {}) /\ Top \in Frames
           /\ scanned = Len(Inputs)
<1>1. stack \in Seq(Frames)
  BY DEF IInv, TypeOK
<1>2. /\ Len(stack) \in Nat \ {0} /\ DOMAIN stack = 1..Len(stack)
      /\ Len(stack) \in DOMAIN stack
  BY <1>1
<1>3. Pending(Len(stack)) = {}
  BY <1>2 DEF Pending
<1>4. Fine(Top, {})
  BY <1>2, <1>3 DEF IInv, StackInv, Top
<1>5. scanned = Len(Inputs)
  <2>1. Len(Inputs) \in Nat
    BY ModuleSessionAssumption
  <2> QED
    BY <2>1 DEF IInv, Scanning, TypeOK
<1> QED
  BY <1>2, <1>4, <1>5 DEF Fine

(* What every step of a compilation that does not end it preserves. *)
LEMMA FilesStay ==
    ASSUME IInv, stack # <<>>, stack' \in Seq(Frames), active' \in Seq(Paths),
           UNCHANGED <<project, scanned, finished, resolver, units, exit>>,
           cyclic' \in SUBSET Paths, CyclesReal'
    PROVE  TypeOK' /\ Scanning' /\ UnitsInv' /\ ExitInv' /\ CyclesReal'
<1>1. TypeOK'
  BY DEF IInv, TypeOK
<1>2. Scanning'
  <2>1. ~(scanned' < Len(Inputs))
    BY TopFine, ModuleSessionAssumption
  <2>2. \A p : Source(p)' = Source(p)
    BY SameGraph
  <2> QED
    BY <2>1, <2>2 DEF IInv, Scanning
<1>3. UnitsInv'
  BY SameGraph DEF IInv, UnitsInv
<1>4. ExitInv'
  BY SameGraph DEF IInv, ExitInv
<1> QED
  BY <1>1, <1>2, <1>3, <1>4

(* The innermost compilation goes on as frame g. *)
LEMMA SetTopStack ==
    ASSUME IInv, stack # <<>>, NEW g, Fine(g, {}), SetTop(g),
           g.path = Top.path, g.owned = Top.owned, g.for = Top.for,
           UNCHANGED <<project, finished, resolver>>
    PROVE  /\ stack' \in Seq(Frames) /\ StackInv'
           /\ DOMAIN stack' = DOMAIN stack
           /\ \A i \in DOMAIN stack :
                 stack'[i].path = stack[i].path /\ stack'[i].owned = stack[i].owned
<1> DEFINE n == Len(stack)
<1>1. /\ n \in Nat \ {0} /\ DOMAIN stack = 1..n /\ n \in 1..n
      /\ stack \in Seq(Frames) /\ g \in Frames
  BY TopFine DEF IInv, TypeOK, Fine
<1>2. /\ stack' \in Seq(Frames) /\ Len(stack') = n /\ DOMAIN stack' = 1..n
      /\ \A i \in 1..n : stack'[i] = IF i = n THEN g ELSE stack[i]
  BY <1>1 DEF SetTop
<1>3. Top = stack[n]
  BY DEF Top
<1>4. \A i \in 1..n : Pending(i) = IF i < n THEN {stack[i + 1].for} ELSE {}
  BY DEF Pending
<1>5. \A i \in 1..n : Pending(i)' = IF i < n THEN {stack'[i + 1].for} ELSE {}
  BY <1>2 DEF Pending
<1> HIDE DEF n
<1>6. \A i \in 1..n : /\ stack'[i].path = stack[i].path
                      /\ stack'[i].owned = stack[i].owned
                      /\ stack'[i].for = stack[i].for
  BY <1>2, <1>3
<1>7. \A i \in 1..n : Pending(i)' = Pending(i)
  <2>1. \A i \in 1..n : i < n => i + 1 \in 1..n
    BY <1>1
  <2> QED
    BY <1>4, <1>5, <1>6, <2>1
<1>8. \A i \in 1..n : Fine(stack[i], Pending(i))'
  <2> SUFFICES ASSUME NEW i \in 1..n
               PROVE  Fine(stack[i], Pending(i))'
    OBVIOUS
  <2>1. Fine(stack'[i], Pending(i))
    <3>1. CASE i = n
      <4>1. ~(i < n)
        BY <1>1, <3>1
      <4>2. Pending(i) = {} /\ stack'[i] = g
        BY <1>2, <1>4, <3>1, <4>1
      <4> QED
        BY <4>2
    <3>2. CASE i # n
      BY <1>1, <1>2, <3>2 DEF IInv, StackInv
    <3> QED
      BY <3>1, <3>2
  <2> QED
    BY <1>7, <2>1, SameGraph
<1>9. \A i \in 1..n : i > 1 =>
         stack'[i].owned /\ stack'[i].for \in Keys /\ resolver'[stack'[i].for] = stack'[i].path
  BY <1>1, <1>6 DEF IInv, StackInv
<1>10. \A i, j \in 1..n : i < j => Reaches(stack[i].path, stack[j].path)'
  BY <1>1, <1>6, SameGraph DEF IInv, StackInv
<1>11. finished' < Len(Inputs) /\ stack'[1].path = Inputs[finished' + 1]
  <2>1. 1 \in 1..n
    BY <1>1
  <2> QED
    BY <1>6, <2>1 DEF IInv, StackInv
<1>12. StackInv'
  BY <1>2, <1>8, <1>9, <1>10, <1>11 DEF StackInv
<1> QED
  BY <1>1, <1>2, <1>6, <1>12

(* A step of the innermost compilation that loads nothing. *)
LEMMA SetTopStep ==
    ASSUME IInv, stack # <<>>, NEW g, Fine(g, {}), SetTop(g),
           g.path = Top.path, g.owned = Top.owned, g.for = Top.for,
           UNCHANGED <<project, scanned, finished, resolver, active, units, exit>>,
           cyclic' \in SUBSET Paths, CyclesReal'
    PROVE  IInv'
<1>1. /\ stack' \in Seq(Frames) /\ StackInv' /\ DOMAIN stack' = DOMAIN stack
      /\ \A i \in DOMAIN stack :
            stack'[i].path = stack[i].path /\ stack'[i].owned = stack[i].owned
  BY SetTopStack
<1>2. active' \in Seq(Paths)
  BY DEF IInv, TypeOK
<1>3. TypeOK' /\ Scanning' /\ UnitsInv' /\ ExitInv' /\ CyclesReal'
  BY <1>1, <1>2, FilesStay
<1>4. ActiveInv'
  BY <1>1, SameGraph DEF IInv, ActiveInv, Member, Cached
<1> QED
  BY <1>1, <1>3, <1>4 DEF IInv

(* The cycles reported so far stay cycles. *)
LEMMA CyclesStay ==
    ASSUME IInv, UNCHANGED <<project, resolver>>,
           \A p \in cyclic' : p \in cyclic \/ Source(p).text = "gone" \/ Reaches(p, p)
    PROVE  CyclesReal'
<1>1. \A p \in cyclic : Source(p).text = "gone" \/ Reaches(p, p)
  BY DEF IInv, CyclesReal, Reaches
<1>2. \A p \in cyclic' : Source(p)'.text = "gone" \/ Reaches(p, p)'
  BY <1>1, SameGraph
<1> QED
  BY <1>2 DEF CyclesReal, Reaches

(* ImportKnown. *)
LEMMA ImportKnownStep ==
    ASSUME IInv, NEW k \in Keys, ImportKnown(k)
    PROVE  IInv'
<1>1. stack # <<>> /\ k \in Wanted(Top) /\ Fine(Top, {}) /\ Top \in Frames
  BY TopFine DEF ImportKnown, Importing, Running
<1>2. Fine(Took(Top, k), {k}) /\ Took(Top, k).imported = Top.imported
  BY <1>1, TookFine, TookFields DEF IInv
<1>3. Fine(Took(Top, k), {})
  BY <1>2, KnownFine DEF ImportKnown
<1>4. CyclesReal' /\ cyclic' \in SUBSET Paths
  BY CyclesStay DEF ImportKnown, IInv, TypeOK
<1> QED
  BY <1>1, <1>3, <1>4, TookFields, SetTopStep DEF ImportKnown

(* What failing and replaying leave alone. *)
LEMMA SameUnit ==
    ASSUME NEW f \in Frames, NEW k, NEW deps
    PROVE  /\ Failed(f).path = f.path /\ Failed(f).owned = f.owned
           /\ Failed(f).for = f.for
           /\ Aborted(f).path = f.path /\ Aborted(f).owned = f.owned
           /\ Aborted(f).for = f.for
           /\ Replay(f, k, deps).path = f.path
           /\ Replay(f, k, deps).owned = f.owned
           /\ Replay(f, k, deps).for = f.for
<1>1. /\ Failed(f).path = f.path /\ Failed(f).owned = f.owned
      /\ Failed(f).for = f.for
  BY DEF Frames, Failed
<1>2. /\ Aborted(f).path = f.path /\ Aborted(f).owned = f.owned
      /\ Aborted(f).for = f.for
  BY DEF Frames, Failed, Aborted
<1>3. /\ Replay(f, k, deps).path = f.path
      /\ Replay(f, k, deps).owned = f.owned
      /\ Replay(f, k, deps).for = f.for
  BY DEF Frames, Replay
<1> QED
  BY <1>1, <1>2, <1>3

(* A unit that was compiled is loaded as it is. *)
LEMMA LoadedFine ==
    ASSUME NEW f, NEW k \in Keys, Fine(f, {k}), NEW u, u.deps \in SUBSET Keys,
           u.ok = (Provider(k) \in Good),
           \A d \in u.deps : Reaches(Provider(k), Provider(d))
    PROVE  /\ Fine(Loaded(f, k, u), {})
           /\ Loaded(f, k, u).path = f.path /\ Loaded(f, k, u).owned = f.owned
           /\ Loaded(f, k, u).for = f.for
<1>1. f \in Frames
  BY DEF Fine
<1>2. CASE Provider(k) \in Good
  <2>1. Loaded(f, k, u) = Replay(f, k, u.deps)
    BY <1>2 DEF Loaded
  <2> QED
    BY <1>1, <1>2, <2>1, ReplayFine, SameUnit
<1>3. CASE Provider(k) \notin Good
  <2>1. Loaded(f, k, u) = Failed(f)
    BY <1>3 DEF Loaded
  <2> QED
    BY <1>1, <1>3, <2>1, FailedFine, SameUnit
<1> QED
  BY <1>2, <1>3

(* ImportCompiled. *)
LEMMA ImportCompiledStep ==
    ASSUME IInv, NEW k \in Keys, ImportCompiled(k)
    PROVE  IInv'
<1> DEFINE f == Took(Top, k)
           u == units[resolver[k]]
<1>1. stack # <<>> /\ k \in Wanted(Top) /\ Fine(Top, {}) /\ Top \in Frames
  BY TopFine DEF ImportCompiled, Importing, Running
<1>2. Fine(f, {k}) /\ f.path = Top.path /\ f.owned = Top.owned /\ f.for = Top.for
  BY <1>1, TookFine, TookFields DEF IInv
<1>3. Provider(k) = resolver[k] /\ resolver[k] \in DOMAIN units
  BY DEF ImportCompiled, Provider, Cached
<1>4. /\ u.deps \in SUBSET Keys /\ u.ok = (Provider(k) \in Good)
      /\ \A d \in u.deps : Reaches(Provider(k), Provider(d))
  BY <1>3 DEF IInv, TypeOK, UnitsInv
<1>5. CyclesReal' /\ cyclic' \in SUBSET Paths
  BY CyclesStay DEF ImportCompiled, IInv, TypeOK
<1>6. SetTop(Loaded(f, k, u))
  BY DEF ImportCompiled
<1> HIDE DEF f, u
<1>7. /\ Fine(Loaded(f, k, u), {})
      /\ Loaded(f, k, u).path = Top.path /\ Loaded(f, k, u).owned = Top.owned
      /\ Loaded(f, k, u).for = Top.for
  BY <1>2, <1>4, LoadedFine
<1> QED
  BY <1>1, <1>5, <1>6, <1>7, SetTopStep DEF ImportCompiled

(* An entry of active_loads_ that is not compiled yet is gone, or a         *)
(* compilation under way, which leads to the innermost one.                 *)
LEMMA ActiveReached ==
    ASSUME IInv, stack # <<>>, NEW p, Member(p, active), ~Cached(p)
    PROVE  \/ Source(p).text = "gone"
           \/ p = Top.path
           \/ Reaches(p, Top.path)
<1>1. PICK x \in DOMAIN active : active[x] = p
  BY DEF Member
<1>2. CASE Source(p).text # "gone"
  <2>1. PICK i \in DOMAIN stack : stack[i].path = p
    BY <1>1, <1>2 DEF IInv, ActiveInv
  <2>2. i = Len(stack) \/ i < Len(stack)
    BY <2>1, TopFine
  <2>3. Len(stack) \in DOMAIN stack
    BY TopFine
  <2>4. i < Len(stack) => Reaches(stack[i].path, Top.path)
    BY <2>3 DEF IInv, StackInv, Top
  <2> QED
    BY <2>1, <2>2, <2>4 DEF Top
<1> QED
  BY <1>2

(* ImportCycle. *)
LEMMA ImportCycleStep ==
    ASSUME IInv, NEW k \in Keys, ImportCycle(k)
    PROVE  IInv'
<1> DEFINE f == Took(Top, k)
           p == resolver[k]
<1>1. stack # <<>> /\ k \in Wanted(Top) /\ Fine(Top, {}) /\ Top \in Frames
  BY TopFine DEF ImportCycle, Importing, Running
<1>2. Fine(f, {k}) /\ f.path = Top.path /\ f.owned = Top.owned /\ f.for = Top.for
  BY <1>1, TookFine, TookFields DEF IInv
<1>3. Provider(k) = p /\ p \in Paths
  BY DEF ImportCycle, Provider, IInv, TypeOK
<1>4. Reaches(Top.path, p)
  BY <1>1, <1>3, WantedReached DEF IInv
<1>5. Source(p).text = "gone" \/ Reaches(p, p)
  <2>1. Source(p).text = "gone" \/ p = Top.path \/ Reaches(p, Top.path)
    BY <1>1, ActiveReached DEF ImportCycle
  <2> QED
    BY <1>4, <2>1, ReachTransitive
<1>6. p \notin Good
  <2>1. Source(p).text = "gone" => ~Sound(p)
    BY <1>3 DEF Sound
  <2> QED
    BY <1>5, <2>1, GoodOnly, CycleBad DEF IInv
<1>7. SetTop(Failed(f)) /\ cyclic' = cyclic \cup {p}
  BY DEF ImportCycle
<1> HIDE DEF f, p
<1>8. /\ Fine(Failed(f), {}) /\ f \in Frames
      /\ Failed(f).path = Top.path /\ Failed(f).owned = Top.owned
      /\ Failed(f).for = Top.for
  <2>1. Fine(Failed(f), {})
    BY <1>2, <1>3, <1>6, FailedFine
  <2>2. f \in Frames
    BY <1>2 DEF Fine
  <2> QED
    BY <1>2, <2>1, <2>2, SameUnit
<1>9. CyclesReal' /\ cyclic' \in SUBSET Paths
  BY <1>3, <1>5, <1>7, CyclesStay DEF ImportCycle, IInv, TypeOK
<1> QED
  BY <1>1, <1>7, <1>8, <1>9, SetTopStep DEF ImportCycle

(* ImportArtifact. *)
LEMMA ImportArtifactStep ==
    ASSUME IInv, NEW k \in Keys, ImportArtifact(k)
    PROVE  IInv'
<1> DEFINE f == Took(Top, k)
<1>1. stack # <<>> /\ k \in Wanted(Top) /\ Fine(Top, {}) /\ Top \in Frames
  BY TopFine DEF ImportArtifact, Importing, Running
<1>2. Fine(f, {k}) /\ f.path = Top.path /\ f.owned = Top.owned /\ f.for = Top.for
  BY <1>1, TookFine, TookFields DEF IInv
<1>3. f \in Frames
  BY <1>2 DEF Fine
<1>4. Provider(k) = k /\ resolver[k] = None /\ k \notin Paths
  BY GraphTypes DEF ImportArtifact, Provider, IInv
<1>5. CyclesReal' /\ cyclic' \in SUBSET Paths
  BY CyclesStay DEF ImportArtifact, IInv, TypeOK
<1>6. CASE ArtifactOf(k) # None /\ ArtifactOf(k).valid
  <2> DEFINE deps == ArtifactOf(k).deps
  <2>1. deps \in SUBSET Keys /\ Wants(k) = deps /\ Sound(k)
    BY <1>4, <1>6, GraphTypes DEF IInv, Artifact, Wants, Sound
  <2>2. \A d \in deps : Reaches(Provider(k), Provider(d))
    <3>1. \A d \in deps : Provider(d) \in Needs(k)
      BY <2>1 DEF Needs
    <3> QED
      BY <1>4, <3>1, ReachDirect
  <2>3. SetTop(Replay(f, k, deps))
    BY <1>6 DEF ImportArtifact
  <2> HIDE DEF f, deps
  <2>4. /\ Fine(Replay(f, k, deps), {})
        /\ Replay(f, k, deps).path = Top.path /\ Replay(f, k, deps).owned = Top.owned
        /\ Replay(f, k, deps).for = Top.for
    BY <1>2, <1>3, <1>4, <2>1, <2>2, ReplayFine, SameUnit
  <2> QED
    BY <1>1, <1>5, <2>3, <2>4, SetTopStep DEF ImportArtifact
<1>7. CASE ~(ArtifactOf(k) # None /\ ArtifactOf(k).valid)
  <2>1. Provider(k) \notin Good
    BY <1>4, <1>7, GoodOnly DEF Sound
  <2>2. SetTop(Failed(f))
    BY <1>7 DEF ImportArtifact
  <2> HIDE DEF f
  <2>3. /\ Fine(Failed(f), {})
        /\ Failed(f).path = Top.path /\ Failed(f).owned = Top.owned
        /\ Failed(f).for = Top.for
    BY <1>2, <1>3, <2>1, FailedFine, SameUnit
  <2> QED
    BY <1>1, <1>5, <2>2, <2>3, SetTopStep DEF ImportArtifact
<1> QED
  BY <1>6, <1>7

(* ReplayDone. *)
LEMMA ReplayDoneStep ==
    ASSUME IInv, ReplayDone
    PROVE  IInv'
<1> DEFINE g == [Top EXCEPT !.replay = SubSeq(@, 1, Len(@) - 1),
                            !.imported = @ \cup {Innermost(Top).key}]
<1>1. stack # <<>> /\ Fine(Top, {}) /\ Top \in Frames
  BY TopFine DEF ReplayDone, Running
<1>2. Fine(g, {})
  BY <1>1, ReplayDoneFine DEF ReplayDone, IInv
<1>3. g.path = Top.path /\ g.owned = Top.owned /\ g.for = Top.for
  BY <1>1 DEF Frames
<1>4. CyclesReal' /\ cyclic' \in SUBSET Paths
  BY CyclesStay DEF ReplayDone, IInv, TypeOK
<1>5. SetTop(g)
  BY DEF ReplayDone
<1> HIDE DEF g
<1> QED
  BY <1>1, <1>2, <1>3, <1>4, <1>5, SetTopStep DEF ReplayDone

(* Abort. *)
LEMMA AbortStep ==
    ASSUME IInv, Abort
    PROVE  IInv'
<1>1. stack # <<>> /\ Fine(Top, {}) /\ Top \in Frames /\ Top.path \in Paths
  BY TopFine DEF Abort, Running, Frames
<1>2. Top.path \notin Good
  <2>1. Source(Top.path).text = "error" => ~Sound(Top.path)
    BY <1>1 DEF Sound
  <2> QED
    BY <1>1, <2>1, GoodOnly DEF Abort, Fine
<1>3. Fine(Aborted(Top), {})
  BY <1>1, <1>2, AbortedFine
<1>4. CyclesReal' /\ cyclic' \in SUBSET Paths
  BY CyclesStay DEF Abort, IInv, TypeOK
<1> QED
  BY <1>1, <1>3, <1>4, SameUnit, SetTopStep DEF Abort

(* A path that is not in active_loads_ joins it at the end. *)
LEMMA Appended ==
    ASSUME NEW s \in Seq(Paths), NEW p \in Paths, ~Member(p, s),
           \A x, y \in DOMAIN s : s[x] = s[y] => x = y
    PROVE  LET t == Append(s, p) IN
           /\ t \in Seq(Paths)
           /\ DOMAIN s = 1..Len(s) /\ Len(s) \in Nat
           /\ DOMAIN t = 1..(Len(s) + 1) /\ t[Len(s) + 1] = p
           /\ \A x \in DOMAIN s : t[x] = s[x] /\ x \in DOMAIN t
           /\ \A x \in DOMAIN t : x = Len(s) + 1 \/ x \in DOMAIN s
           /\ \A x, y \in DOMAIN t : t[x] = t[y] => x = y
           /\ \A q : Member(q, s) => Member(q, t)
           /\ Member(p, t)
<1> DEFINE t == Append(s, p)
           n == Len(s)
<1>1. /\ t \in Seq(Paths) /\ DOMAIN s = 1..n /\ n \in Nat
      /\ DOMAIN t = 1..(n + 1) /\ t[n + 1] = p
      /\ \A x \in 1..n : t[x] = s[x]
  OBVIOUS
<1> HIDE DEF t, n
<1>2. \A x \in 1..n : x \in 1..(n + 1)
  BY <1>1
<1>3. \A x \in 1..(n + 1) : x = n + 1 \/ x \in 1..n
  BY <1>1
<1>4. n + 1 \in 1..(n + 1)
  BY <1>1
<1>5. \A x \in 1..n : s[x] # p
  BY <1>1 DEF Member
<1>6. \A x, y \in 1..(n + 1) : t[x] = t[y] => x = y
  BY <1>1, <1>3, <1>5
<1>7. \A q : Member(q, s) => Member(q, t)
  BY <1>1, <1>2 DEF Member
<1>8. Member(p, t)
  BY <1>1, <1>4 DEF Member
<1> QED
  BY <1>1, <1>2, <1>3, <1>6, <1>7, <1>8 DEF t, n

(* ImportSource of a file that is gone: the entry stays in active_loads_. *)
LEMMA ImportGoneStep ==
    ASSUME IInv, NEW k \in Keys, ImportSource(k), Source(resolver[k]).text = "gone"
    PROVE  IInv'
<1> DEFINE p == resolver[k]
<1>1. stack # <<>> /\ k \in Wanted(Top) /\ Fine(Top, {}) /\ Top \in Frames
  BY TopFine DEF ImportSource, Importing, Running
<1>2. p \in Paths /\ Provider(k) = p /\ ~Member(p, active) /\ ~Cached(p)
  BY DEF ImportSource, IInv, TypeOK, Provider
<1>3. Reaches(Top.path, p)
  BY <1>1, <1>2, WantedReached DEF IInv
<1>4. p \notin Good
  BY <1>2, GoodOnly DEF Sound
<1>5. Top.path \notin Good
  BY <1>3, <1>4, GoodReaches
<1>6. Fine(Aborted(Top), {})
  BY <1>1, <1>5, AbortedFine
<1>7. SetTop(Aborted(Top)) /\ active' = Append(active, p)
  BY DEF ImportSource
<1> HIDE DEF p
<1>8. /\ stack' \in Seq(Frames) /\ StackInv' /\ DOMAIN stack' = DOMAIN stack
      /\ \A i \in DOMAIN stack :
            stack'[i].path = stack[i].path /\ stack'[i].owned = stack[i].owned
  BY <1>1, <1>6, <1>7, SameUnit, SetTopStack DEF ImportSource
<1>9. CyclesReal' /\ cyclic' \in SUBSET Paths
  BY CyclesStay DEF ImportSource, IInv, TypeOK
<1>10. /\ active' \in Seq(Paths)
       /\ DOMAIN active = 1..Len(active) /\ Len(active) \in Nat
       /\ active'[Len(active) + 1] = p
       /\ \A x \in DOMAIN active : active'[x] = active[x] /\ x \in DOMAIN active'
       /\ \A x \in DOMAIN active' : x = Len(active) + 1 \/ x \in DOMAIN active
       /\ \A x, y \in DOMAIN active' : active'[x] = active'[y] => x = y
       /\ \A q : Member(q, active) => Member(q, active')
  BY <1>2, <1>7, Appended DEF IInv, TypeOK, ActiveInv
<1>11. TypeOK' /\ Scanning' /\ UnitsInv' /\ ExitInv' /\ CyclesReal'
  BY <1>1, <1>8, <1>9, <1>10, FilesStay DEF ImportSource
<1>12. ActiveInv'
  <2>1. (\A q : q = p => Source(q)'.text = "gone") /\ units' = units
    BY SameGraph DEF ImportSource, p
  <2>2. ASSUME NEW x \in DOMAIN active'
        PROVE  \/ active'[x] \in DOMAIN units'
               \/ Source(active[x])'.text = "gone"
               \/ \E i \in DOMAIN stack' : stack'[i].owned /\ stack'[i].path = active'[x]
    <3>1. CASE x = Len(active) + 1
      BY <1>10, <2>1, <3>1
    <3>2. CASE x \in DOMAIN active
      <4>1. \/ active[x] \in DOMAIN units
            \/ Source(active[x]).text = "gone"
            \/ \E i \in DOMAIN stack : stack[i].owned /\ stack[i].path = active[x]
        BY <3>2 DEF IInv, ActiveInv, Cached
      <4>2. \A q : Source(q)' = Source(q)
        BY SameGraph DEF ImportSource
      <4> QED
        BY <1>8, <1>10, <2>1, <3>2, <4>1, <4>2
    <3> QED
      BY <1>10, <2>2, <3>1, <3>2
  <2>3. \A i \in DOMAIN stack : stack[i].owned =>
           Member(stack[i].path, active) /\ stack[i].path # p
    BY <1>2 DEF IInv, ActiveInv
  <2>4. \A i \in DOMAIN stack' : stack'[i].owned =>
           Member(stack'[i].path, active') /\ stack'[i].path \notin DOMAIN units'
    BY <1>8, <1>10, <2>1 DEF IInv, ActiveInv, Cached
  <2>5. ASSUME NEW i \in DOMAIN stack', NEW j \in DOMAIN stack',
               NEW x \in DOMAIN active', NEW y \in DOMAIN active',
               i < j, stack'[i].owned, stack'[j].owned,
               active'[x] = stack'[i].path, active'[y] = stack'[j].path
        PROVE  x < y
    <3>1. x \in DOMAIN active /\ y \in DOMAIN active
      BY <1>8, <1>10, <2>3, <2>5
    <3> QED
      BY <1>8, <1>10, <2>5, <3>1 DEF IInv, ActiveInv
  <2> QED
    BY <1>10, <2>2, <2>4, <2>5 DEF ActiveInv, Cached, Member
<1> QED
  BY <1>8, <1>11, <1>12 DEF IInv

(* ImportSource of any other file: its compilation begins inside the one    *)
(* that imports it.                                                         *)
LEMMA ImportFileStep ==
    ASSUME IInv, NEW k \in Keys, ImportSource(k), Source(resolver[k]).text # "gone"
    PROVE  IInv'
<1> DEFINE p == resolver[k]
           f == Took(Top, k)
           g == Frame(p, TRUE, k)
<1>1. stack # <<>> /\ k \in Wanted(Top) /\ Fine(Top, {}) /\ Top \in Frames
  BY TopFine DEF ImportSource, Importing, Running
<1>0. PICK n \in Nat \ {0} : n = Len(stack)
  BY <1>1, TopFine
<1>2. p \in Paths /\ Provider(k) = p /\ ~Member(p, active) /\ ~Cached(p)
  BY DEF ImportSource, IInv, TypeOK, Provider
<1>3. Reaches(Top.path, p)
  BY <1>1, <1>2, WantedReached DEF IInv
<1>4. /\ f \in Frames /\ Fine(f, {k})
      /\ f.path = Top.path /\ f.owned = Top.owned /\ f.for = Top.for
  BY <1>1, TookFine, TookFields DEF IInv
<1>5. g \in Frames /\ Fine(g, {}) /\ g.path = p /\ g.owned /\ g.for = k
  <2>1. Fine(g, {})
    BY <1>2, FrameFine DEF IInv
  <2> QED
    BY <2>1 DEF Frame, Fine
<1>6. /\ stack' = Append([stack EXCEPT ![n] = f], g) /\ active' = Append(active, p)
      /\ UNCHANGED <<project, scanned, finished, resolver, units, exit, cyclic>>
  BY <1>0 DEF ImportSource
<1>7. /\ n \in Nat \ {0} /\ DOMAIN stack = 1..n /\ n \in 1..n
      /\ stack \in Seq(Frames) /\ Top = stack[n]
  BY <1>0, <1>1, TopFine DEF IInv, TypeOK, Top
<1> HIDE DEF p, f, g
<1>8. /\ [stack EXCEPT ![n] = f] \in Seq(Frames) /\ Len([stack EXCEPT ![n] = f]) = n
      /\ \A i \in 1..n : [stack EXCEPT ![n] = f][i] = IF i = n THEN f ELSE stack[i]
  BY <1>0, <1>4, <1>7, ExceptSeq
<1>9. /\ stack' \in Seq(Frames) /\ Len(stack') = n + 1 /\ DOMAIN stack' = 1..(n + 1)
      /\ stack'[n + 1] = g
      /\ \A i \in 1..n : stack'[i] = IF i = n THEN f ELSE stack[i]
  <2> DEFINE s == [stack EXCEPT ![n] = f]
  <2> HIDE DEF s
  <2>1. s \in Seq(Frames) /\ Len(s) = n /\ stack' = Append(s, g)
    BY <1>6, <1>8 DEF s
  <2>2. /\ stack' \in Seq(Frames) /\ Len(stack') = n + 1 /\ DOMAIN stack' = 1..(n + 1)
        /\ stack'[n + 1] = g /\ \A i \in 1..n : stack'[i] = s[i]
    BY <1>5, <1>7, <2>1
  <2> QED
    BY <1>8, <2>2 DEF s
<1>10. \A i \in 1..n : Pending(i) = IF i < n THEN {stack[i + 1].for} ELSE {}
  BY <1>0 DEF Pending
<1>11. \A i \in 1..(n + 1) :
          Pending(i)' = IF i < n + 1 THEN {stack'[i + 1].for} ELSE {}
  BY <1>9 DEF Pending
<1>12. \A i \in 1..n : /\ stack'[i].path = stack[i].path
                       /\ stack'[i].owned = stack[i].owned
                       /\ stack'[i].for = stack[i].for
  BY <1>4, <1>7, <1>9
<1>13. /\ \A i \in 1..(n + 1) : i = n + 1 \/ i \in 1..n
       /\ \A i \in 1..n : i \in 1..(n + 1) /\ i < n + 1 /\ (i # n => i < n /\ i + 1 \in 1..n)
       /\ n + 1 \in 1..(n + 1) /\ 1 \in 1..n /\ ~(n + 1 < n + 1) /\ ~(n < n)
  BY <1>7
<1>14. StackInv'
  <2>1. \A i \in 1..n : i # n => Pending(i)' = Pending(i)
    BY <1>10, <1>11, <1>12, <1>13
  <2>2. Pending(n)' = {k} /\ Pending(n + 1)' = {}
    BY <1>5, <1>7, <1>9, <1>11, <1>13
  <2>3. ASSUME NEW i \in 1..(n + 1)
        PROVE  Fine(stack[i], Pending(i))'
    <3>1. CASE i = n + 1
      <4>1. Fine(stack'[i], Pending(i)')
        BY <1>5, <1>9, <2>2, <3>1
      <4> QED
        BY <1>6, <4>1, SameGraph
    <3>2. CASE i = n
      <4>1. Fine(stack'[i], Pending(i)')
        BY <1>4, <1>7, <1>9, <2>2, <3>2
      <4> QED
        BY <1>6, <4>1, SameGraph
    <3>3. CASE i \in 1..n /\ i # n
      <4>1. Fine(stack'[i], Pending(i)')
        BY <1>7, <1>9, <2>1, <3>3 DEF IInv, StackInv
      <4> QED
        BY <1>6, <4>1, SameGraph
    <3> QED
      BY <1>13, <3>1, <3>2, <3>3
  <2>4. ASSUME NEW i \in 1..(n + 1), i > 1
        PROVE  /\ stack'[i].owned /\ stack'[i].for \in Keys
               /\ resolver'[stack'[i].for] = stack'[i].path
    <3>1. CASE i = n + 1
      BY <1>5, <1>6, <1>9, <3>1 DEF p
    <3>2. CASE i \in 1..n
      BY <1>6, <1>7, <1>12, <2>4, <3>2 DEF IInv, StackInv
    <3> QED
      BY <1>13, <3>1, <3>2
  <2>5. ASSUME NEW i \in 1..(n + 1), NEW j \in 1..(n + 1), i < j
        PROVE  Reaches(stack[i].path, stack[j].path)'
    <3>1. i \in 1..n
      BY <1>7, <2>5
    <3>2. CASE j \in 1..n
      <4>1. Reaches(stack[i].path, stack[j].path)
        BY <1>7, <2>5, <3>1, <3>2 DEF IInv, StackInv
      <4>2. Reaches(stack'[i].path, stack'[j].path)
        BY <1>12, <3>1, <3>2, <4>1
      <4> QED
        BY <1>6, <4>2, SameGraph
    <3>3. CASE j = n + 1
      <4>1. i = n \/ Reaches(stack[i].path, Top.path)
        BY <1>7, <1>13, <3>1 DEF IInv, StackInv
      <4>2. Reaches(stack[i].path, p)
        BY <1>3, <1>7, <4>1, ReachTransitive
      <4>3. Reaches(stack'[i].path, stack'[j].path)
        BY <1>5, <1>9, <1>12, <3>1, <3>3, <4>2
      <4> QED
        BY <1>6, <4>3, SameGraph
    <3> QED
      BY <1>13, <3>2, <3>3
  <2>6. finished' < Len(Inputs) /\ stack'[1].path = Inputs[finished' + 1]
    BY <1>1, <1>6, <1>12, <1>13 DEF IInv, StackInv
  <2> QED
    BY <1>9, <2>3, <2>4, <2>5, <2>6 DEF StackInv
<1>15. /\ active' \in Seq(Paths)
       /\ DOMAIN active = 1..Len(active) /\ Len(active) \in Nat
       /\ active'[Len(active) + 1] = p /\ Len(active) + 1 \in DOMAIN active'
       /\ \A x \in DOMAIN active : active'[x] = active[x] /\ x \in DOMAIN active'
       /\ \A x \in DOMAIN active' : x = Len(active) + 1 \/ x \in DOMAIN active
       /\ \A x, y \in DOMAIN active' : active'[x] = active'[y] => x = y
       /\ \A q : Member(q, active) => Member(q, active')
       /\ Member(p, active')
  BY <1>2, <1>6, Appended DEF IInv, TypeOK, ActiveInv
<1>16. ActiveInv'
  <2>1. ASSUME NEW x \in DOMAIN active'
        PROVE  \/ active'[x] \in DOMAIN units'
               \/ Source(active[x])'.text = "gone"
               \/ \E i \in DOMAIN stack' : stack'[i].owned /\ stack'[i].path = active'[x]
    <3>1. CASE x = Len(active) + 1
      BY <1>5, <1>9, <1>13, <1>15, <3>1
    <3>2. CASE x \in DOMAIN active
      <4>1. \/ active[x] \in DOMAIN units
            \/ Source(active[x]).text = "gone"
            \/ \E i \in 1..n : stack[i].owned /\ stack[i].path = active[x]
        BY <1>7, <3>2 DEF IInv, ActiveInv, Cached
      <4>2. ASSUME NEW i \in 1..n, stack[i].owned, stack[i].path = active[x]
            PROVE  i \in DOMAIN stack' /\ stack'[i].owned /\ stack'[i].path = active'[x]
        BY <1>9, <1>12, <1>13, <1>15, <3>2, <4>2
      <4> QED
        BY <1>6, <1>15, <3>2, <4>1, <4>2, SameGraph
    <3> QED
      BY <1>15, <2>1, <3>1, <3>2
  <2>2. \A i \in 1..n : stack[i].owned =>
           /\ Member(stack[i].path, active) /\ stack[i].path # p
           /\ stack[i].path \notin DOMAIN units
    BY <1>2, <1>7 DEF IInv, ActiveInv, Cached
  <2>3. ASSUME NEW i \in 1..(n + 1), stack'[i].owned
        PROVE  Member(stack'[i].path, active') /\ stack'[i].path \notin DOMAIN units'
    <3>1. CASE i = n + 1
      BY <1>2, <1>5, <1>6, <1>9, <1>15, <3>1 DEF Cached
    <3>2. CASE i \in 1..n
      BY <1>6, <1>12, <1>15, <2>2, <2>3, <3>2
    <3> QED
      BY <1>13, <3>1, <3>2
  <2>4. ASSUME NEW i \in 1..(n + 1), NEW j \in 1..(n + 1),
               NEW x \in DOMAIN active', NEW y \in DOMAIN active',
               i < j, stack'[i].owned, stack'[j].owned,
               active'[x] = stack'[i].path, active'[y] = stack'[j].path
        PROVE  x < y
    <3>1. i \in 1..n
      BY <1>7, <2>4
    <3>2. stack[i].owned /\ active'[x] = stack[i].path /\ stack[i].path # p
      BY <1>12, <2>2, <2>4, <3>1
    <3>3. x \in DOMAIN active /\ active[x] = stack[i].path
      BY <1>15, <3>2
    <3>4. CASE j = n + 1
      <4>1. active'[y] = active'[Len(active) + 1]
        BY <1>5, <1>9, <1>15, <2>4, <3>4
      <4>2. y = Len(active) + 1
        BY <1>15, <4>1
      <4> QED
        BY <1>15, <3>3, <4>2
    <3>5. CASE j \in 1..n
      <4>1. stack[j].owned /\ active'[y] = stack[j].path /\ stack[j].path # p
        BY <1>12, <2>2, <2>4, <3>5
      <4>2. y \in DOMAIN active /\ active[y] = stack[j].path
        BY <1>15, <4>1
      <4> QED
        BY <1>7, <2>4, <3>1, <3>2, <3>3, <3>5, <4>1, <4>2 DEF IInv, ActiveInv
    <3> QED
      BY <1>13, <3>4, <3>5
  <2> QED
    BY <1>9, <1>15, <2>1, <2>3, <2>4 DEF ActiveInv, Cached, Member
<1>17. CyclesReal' /\ cyclic' \in SUBSET Paths
  BY <1>6, CyclesStay DEF IInv, TypeOK
<1>18. TypeOK' /\ Scanning' /\ UnitsInv' /\ ExitInv' /\ CyclesReal'
  BY <1>1, <1>6, <1>9, <1>15, <1>17, FilesStay
<1> QED
  BY <1>14, <1>16, <1>18 DEF IInv

(* An input is dealt with: the exit code says whether it compiles. *)
LEMMA InputDone ==
    ASSUME IInv, scanned = Len(Inputs), finished < Len(Inputs),
           finished' = finished + 1,
           exit' = IF Inputs[finished + 1] \in Good THEN exit ELSE 1,
           UNCHANGED <<project, scanned, resolver>>
    PROVE  ExitInv' /\ exit' \in {0, 1} /\ finished' \in 0..Len(Inputs)
<1>1. Len(Inputs) \in Nat /\ finished \in Nat
  BY ModuleSessionAssumption DEF IInv, TypeOK
<1>2. \A i \in 1..(finished + 1) : i = finished + 1 \/ i \in 1..finished
  BY <1>1
<1>3. (\A i \in 1..finished : i \in 1..(finished + 1)) /\ finished + 1 \in 1..(finished + 1)
  BY <1>1
<1>4. finished' \in 0..Len(Inputs) /\ exit' \in {0, 1}
  BY <1>1 DEF IInv, TypeOK
<1>5. /\ Good' = Good
      /\ \A i : Source(Inputs[i])' = Source(Inputs[i])
  BY SameGraph
<1>6. (\A i \in 1..finished' : Inputs[i] \in Good)
         <=> (\A i \in 1..finished : Inputs[i] \in Good) /\ Inputs[finished + 1] \in Good
  BY <1>2, <1>3
<1>7. exit' = 0 <=> exit = 0 /\ Inputs[finished + 1] \in Good
  BY DEF IInv, TypeOK
<1>8. (\A i \in 1..scanned :
          Source(Inputs[i]).interface => resolver[Source(Inputs[i]).key] = Inputs[i])'
         <=> \A i \in 1..scanned :
                Source(Inputs[i]).interface => resolver[Source(Inputs[i]).key] = Inputs[i]
  BY <1>5
<1>9. ExitInv'
  BY <1>5, <1>6, <1>7, <1>8 DEF IInv, ExitInv
<1> QED
  BY <1>4, <1>9

(* RunFile. *)
LEMMA RunFileStep ==
    ASSUME IInv, RunFile
    PROVE  IInv'
<1> DEFINE p == Inputs[finished + 1]
<1>1. /\ scanned = Len(Inputs) /\ finished < Len(Inputs) /\ stack = <<>>
      /\ UNCHANGED <<project, scanned, resolver, units, cyclic>>
      /\ Len(Inputs) \in Nat /\ finished \in 0..Len(Inputs)
  BY ModuleSessionAssumption DEF RunFile, IInv, TypeOK
<1>2. p \in Paths
  BY <1>1, ModuleSessionAssumption
<1>3. /\ \A q : Source(q)' = Source(q) /\ (Cached(q)' <=> Cached(q))
      /\ Good' = Good
  BY <1>1, SameGraph DEF Cached
<1>4. CyclesReal'
  BY <1>1, CyclesStay
<1>5. UnitsInv'
  BY <1>1, SameGraph DEF IInv, UnitsInv
<1>6. Scanning'
  <2>1. ~(scanned' < Len(Inputs))
    BY <1>1
  <2> QED
    BY <1>1, <1>3, <2>1 DEF IInv, Scanning
<1>7. \A x \in DOMAIN active :
         Cached(active[x]) \/ Source(active[x]).text = "gone"
  BY <1>1 DEF IInv, ActiveInv
<1>8. CASE finished' = finished + 1 /\ UNCHANGED <<stack, active>>
           /\ exit' = IF p \in Good THEN exit ELSE 1
  <2>1. ExitInv' /\ exit' \in {0, 1} /\ finished' \in 0..Len(Inputs)
    BY <1>1, <1>8, InputDone
  <2>2. TypeOK'
    BY <1>1, <1>8, <2>1 DEF IInv, TypeOK
  <2>3. StackInv'
    BY <1>1, <1>8 DEF StackInv
  <2>4. ActiveInv'
    BY <1>1, <1>3, <1>8 DEF IInv, ActiveInv
  <2> QED
    BY <1>4, <1>5, <1>6, <2>1, <2>2, <2>3, <2>4 DEF IInv
<1>9. ASSUME NEW owned \in BOOLEAN, owned \/ Source(p).key = None,
             ~Cached(p) \/ ~owned,
             stack' = <<Frame(p, owned, None)>>, UNCHANGED <<exit, finished>>,
             IF owned THEN ~Member(p, active) /\ active' = Append(active, p)
                      ELSE active' = active
      PROVE  IInv'
  <2> DEFINE g == Frame(p, owned, None)
  <2>1. g \in Frames /\ Fine(g, {}) /\ g.path = p /\ g.owned = owned
    <3>1. Fine(g, {})
      BY <1>2, <1>9, FrameFine DEF IInv
    <3> QED
      BY <3>1 DEF Frame, Fine
  <2>2. stack' = <<g>>
    BY <1>9
  <2> HIDE DEF g
  <2>3. /\ stack' \in Seq(Frames) /\ DOMAIN stack' = {1} /\ Len(stack') = 1
        /\ stack'[1] = g
    BY <2>1, <2>2
  <2>4. Pending(1)' = {}
    BY <2>3 DEF Pending
  <2>5. Fine(stack[1], Pending(1))'
    <3>1. Fine(stack'[1], Pending(1)')
      BY <2>1, <2>3, <2>4
    <3> QED
      BY <1>1, <3>1, SameGraph
  <2>6. StackInv'
    BY <1>1, <1>9, <2>1, <2>3, <2>5 DEF StackInv
  <2>7. active' \in Seq(Paths) /\ ActiveInv'
    <3>1. CASE ~owned
      <4>1. active' = active /\ \A i \in DOMAIN stack' : ~stack'[i].owned
        BY <1>9, <2>1, <2>3, <3>1
      <4> QED
        BY <1>3, <1>7, <4>1 DEF IInv, TypeOK, ActiveInv, Cached
    <3>2. CASE owned
      <4> HIDE DEF p
      <4>0. ~Member(p, active) /\ active' = Append(active, p)
        BY <1>9, <3>2
      <4>1. /\ active' \in Seq(Paths)
            /\ active'[Len(active) + 1] = p
            /\ \A x \in DOMAIN active : active'[x] = active[x] /\ x \in DOMAIN active'
            /\ \A x \in DOMAIN active' : x = Len(active) + 1 \/ x \in DOMAIN active
            /\ \A x, y \in DOMAIN active' : active'[x] = active'[y] => x = y
            /\ Member(p, active')
        BY <1>2, <4>0, Appended DEF IInv, TypeOK, ActiveInv
      <4>2. \A x \in DOMAIN active' :
               \/ active'[x] \in DOMAIN units'
               \/ Source(active[x])'.text = "gone"
               \/ \E i \in DOMAIN stack' : stack'[i].owned /\ stack'[i].path = active'[x]
        <5> SUFFICES ASSUME NEW x \in DOMAIN active'
                     PROVE  \/ active'[x] \in DOMAIN units'
                            \/ Source(active[x])'.text = "gone"
                            \/ \E i \in DOMAIN stack' :
                                  stack'[i].owned /\ stack'[i].path = active'[x]
          OBVIOUS
        <5>1. CASE x = Len(active) + 1
          BY <2>1, <2>3, <3>2, <4>1, <5>1
        <5>2. CASE x \in DOMAIN active
          <6>1. active[x] \in DOMAIN units' \/ Source(active[x]).text = "gone"
            BY <1>1, <1>7, <5>2 DEF Cached
          <6> QED
            BY <1>3, <4>1, <5>2, <6>1
        <5> QED
          BY <4>1, <5>1, <5>2
      <4>3. \A i \in DOMAIN stack' :
               Member(stack'[i].path, active') /\ stack'[i].path \notin DOMAIN units'
        <5>1. Member(g.path, active') /\ g.path \notin DOMAIN units'
          BY <1>1, <1>9, <2>1, <3>2, <4>1 DEF Cached
        <5> QED
          BY <2>3, <5>1
      <4>4. \A i, j \in DOMAIN stack' : ~(i < j)
        BY <2>3
      <4> QED
        BY <4>1, <4>2, <4>3, <4>4 DEF ActiveInv, Cached, Member
    <3> QED
      BY <3>1, <3>2
  <2>8. TypeOK'
    BY <1>1, <1>9, <2>3, <2>7 DEF IInv, TypeOK
  <2>9. ExitInv'
    BY <1>1, <1>3, <1>9 DEF IInv, ExitInv
  <2> QED
    BY <1>4, <1>5, <1>6, <2>6, <2>7, <2>8, <2>9 DEF IInv
<1>10. CASE Source(p).text = "gone" /\ exit' = 1 /\ finished' = finished + 1
            /\ UNCHANGED <<stack, active>>
  <2>1. p \notin Good
    BY <1>2, <1>10, GoodOnly DEF Sound
  <2> QED
    BY <1>8, <1>10, <2>1
<1>11. CASE /\ Cached(p) /\ exit' = (IF units[p].ok THEN exit ELSE 1)
            /\ finished' = finished + 1 /\ UNCHANGED <<stack, active>>
  <2>1. units[p].ok = (p \in Good)
    BY <1>11 DEF IInv, UnitsInv, Cached
  <2> QED
    BY <1>8, <1>11, <2>1
<1>12. CASE /\ ~Cached(p) /\ ~Member(p, active)
            /\ stack' = <<Frame(p, TRUE, None)>> /\ active' = Append(active, p)
            /\ UNCHANGED <<exit, finished>>
  BY <1>9, <1>12
<1>13. CASE /\ Source(p).text # "gone"
            /\ Source(p).key # None => ~Cached(p) /\ Member(p, active)
            /\ stack' = <<Frame(p, FALSE, None)>>
            /\ UNCHANGED <<exit, finished, active>>
  <2>1. Source(p).key = None
    BY <1>7, <1>13 DEF Member
  <2> QED
    BY <1>9, <1>13, <2>1
<1> QED
  BY <1>10, <1>11, <1>12, <1>13 DEF RunFile

(* RegisterModuleSource. *)
LEMMA RegisterStep ==
    ASSUME IInv, RegisterModuleSource
    PROVE  IInv'
<1> DEFINE p == Inputs[scanned + 1]
           k == Source(p).key
<1>1. /\ Len(Inputs) \in Nat /\ scanned \in Nat /\ scanned < Len(Inputs)
      /\ scanned' = scanned + 1
      /\ UNCHANGED <<project, finished, active, units, stack, cyclic>>
  BY ModuleSessionAssumption DEF RegisterModuleSource, IInv, TypeOK
<1>2. finished = 0 /\ active = <<>> /\ units = <<>> /\ stack = <<>> /\ cyclic = {}
  BY <1>1 DEF IInv, Scanning
<1>3. /\ \A i \in 1..(scanned + 1) : i = scanned + 1 \/ i \in 1..scanned
      /\ \A i \in 1..scanned : i \in 1..(scanned + 1) /\ i \in DOMAIN Inputs /\ i # scanned + 1
      /\ scanned + 1 \in 1..(scanned + 1) /\ scanned + 1 \in DOMAIN Inputs
  BY <1>1, ModuleSessionAssumption
<1>4. /\ \A i \in DOMAIN Inputs : Inputs[i] \in Paths /\ Inputs[i] # None
      /\ \A i \in 1..scanned : Inputs[i] # p
  BY <1>3, ModuleSessionAssumption
<1>5. \A q : Source(q)' = Source(q)
  BY <1>1 DEF Source
<1>6. /\ resolver \in [Keys -> Paths \cup {None}]
      /\ Source(p).interface => k \in Keys
  BY <1>3, <1>4, GraphTypes DEF IInv, TypeOK
<1>7. \/ ~Source(p).interface /\ UNCHANGED <<resolver, exit>>
      \/ /\ Source(p).interface /\ resolver[k] = None
         /\ resolver' = [resolver EXCEPT ![k] = p] /\ UNCHANGED exit
      \/ /\ Source(p).interface /\ resolver[k] # None /\ exit' = 1
         /\ UNCHANGED resolver
  BY DEF RegisterModuleSource
<1> HIDE DEF p, k
<1>8. resolver' \in [Keys -> Paths \cup {None}] /\ exit' \in {0, 1}
  <2>1. p \in Paths
    BY <1>3, <1>4 DEF p
  <2> QED
    BY <1>6, <1>7, <2>1 DEF IInv, TypeOK
<1>9. TypeOK'
  <2>1. scanned' \in 0..Len(Inputs)
    BY <1>1
  <2> QED
    BY <1>1, <1>8, <2>1 DEF IInv, TypeOK
<1>10. Scanning'
  <2>1. ASSUME NEW j \in Keys, resolver'[j] # None
        PROVE  \E i \in 1..(scanned + 1) :
                  /\ resolver'[j] = Inputs[i]
                  /\ Source(Inputs[i]).interface /\ Source(Inputs[i]).key = j
    <3>1. CASE resolver'[j] = resolver[j]
      <4>1. PICK i \in 1..scanned :
               /\ resolver[j] = Inputs[i]
               /\ Source(Inputs[i]).interface /\ Source(Inputs[i]).key = j
        BY <2>1, <3>1 DEF IInv, Scanning
      <4> QED
        BY <1>3, <3>1, <4>1
    <3>2. CASE resolver'[j] # resolver[j]
      <4>1. j = k /\ resolver'[j] = p /\ Source(p).interface
        BY <1>6, <1>7, <3>2
      <4> QED
        BY <1>3, <4>1 DEF p, k
    <3> QED
      BY <3>1, <3>2
  <2> QED
    BY <1>1, <1>2, <1>5, <2>1 DEF Scanning
<1>11. StackInv' /\ ActiveInv' /\ UnitsInv' /\ CyclesReal'
  BY <1>1, <1>2 DEF StackInv, ActiveInv, UnitsInv, CyclesReal
<1>12. ExitInv'
  <2> DEFINE Holds(i) ==
        Source(Inputs[i]).interface => resolver[Source(Inputs[i]).key] = Inputs[i]
      Held(i) ==
        Source(Inputs[i]).interface => resolver'[Source(Inputs[i]).key] = Inputs[i]
  <2>1. \A i \in 1..scanned : Held(i) <=> Holds(i)
    <3> SUFFICES ASSUME NEW i \in 1..scanned, Source(Inputs[i]).interface
                 PROVE  Held(i) <=> Holds(i)
      OBVIOUS
    <3>1. Inputs[i] # None /\ Inputs[i] # p
      BY <1>3, <1>4
    <3>2. Source(Inputs[i]).key \in Keys
      BY <1>3, <1>4, GraphTypes DEF IInv
    <3> QED
      BY <1>6, <1>7, <3>1, <3>2
  <2>2. exit' = 0 <=> exit = 0 /\ Held(scanned + 1)
    <3>1. ASSUME Source(p).interface, resolver[k] # None
          PROVE  resolver[k] # p
      <4>1. PICK i \in 1..scanned : resolver[k] = Inputs[i]
        BY <1>6, <3>1 DEF IInv, Scanning
      <4> QED
        BY <1>4, <4>1
    <3>2. Held(scanned + 1) <=> (Source(p).interface => resolver'[k] = p)
      BY DEF p, k
    <3> HIDE DEF Held
    <3>3. exit \in {0, 1}
      BY DEF IInv, TypeOK
    <3> QED
      BY <1>6, <1>7, <3>1, <3>2, <3>3
  <2>3. exit = 0 <=> \A i \in 1..scanned : Holds(i)
    BY <1>2 DEF IInv, ExitInv
  <2> HIDE DEF Holds
  <2>4. exit' = 0 <=> \A i \in 1..(scanned + 1) : Held(i)
    <3> HIDE DEF Held
    <3> QED
      BY <1>3, <2>1, <2>2, <2>3
  <2> QED
    BY <1>1, <1>2, <1>5, <2>4 DEF ExitInv
<1> QED
  BY <1>9, <1>10, <1>11, <1>12 DEF IInv

(* Finish. *)
LEMMA FinishStep ==
    ASSUME IInv, Finish
    PROVE  IInv'
<1> DEFINE f == Top
           u == [ok   |-> ~f.failed /\ Source(f.path).text = "ok",
                 deps |-> f.imported]
<1>1. /\ stack # <<>> /\ f.todo = {} /\ ~Replaying(f)
      /\ UNCHANGED <<project, scanned, resolver, cyclic>>
  BY DEF Finish, Running
<1>2. PICK n \in Nat : n = Len(stack) - 1
  <2>1. Len(stack) \in Nat \ {0}
    BY <1>1, TopFine
  <2>2. Len(stack) - 1 \in Nat
    BY <2>1
  <2> QED
    BY <2>2
<1>3. /\ Len(stack) = n + 1 /\ DOMAIN stack = 1..(n + 1) /\ f = stack[n + 1]
      /\ f \in Frames /\ Fine(f, {}) /\ scanned = Len(Inputs)
  BY <1>1, <1>2, TopFine DEF Top
<1>4. /\ u.ok = (f.path \in Good) /\ u.deps \in SUBSET Keys
      /\ \A d \in u.deps : Reaches(f.path, Provider(d))
  <2>1. u.ok = (~f.failed /\ Source(f.path).text = "ok") /\ u.deps = f.imported
    OBVIOUS
  <2> HIDE DEF u, f
  <2> QED
    BY <1>1, <1>3, <2>1, ResultRight DEF IInv, Frames
<1>5. /\ f.owned => /\ active' = SubSeq(active, 1, Len(active) - 1)
                    /\ units' = [p \in DOMAIN units \cup {f.path} |->
                                   IF p = f.path THEN u ELSE units[p]]
      /\ ~f.owned => UNCHANGED <<active, units>>
      /\ n = 0 => /\ stack' = <<>> /\ exit' = (IF u.ok THEN exit ELSE 1)
                  /\ finished' = finished + 1
      /\ n # 0 => /\ stack' = [i \in 1..n |->
                                 IF i = n THEN Loaded(stack[n], f.for, u)
                                          ELSE stack[i]]
                  /\ UNCHANGED <<exit, finished>>
  BY <1>2 DEF Finish
<1>6. f.path \in Paths /\ f.owned \in BOOLEAN
  BY <1>3 DEF Frames
<1>7. n # 0 => /\ f.owned /\ f.for \in Keys /\ resolver[f.for] = f.path
               /\ Provider(f.for) = f.path
  <2>1. n # 0 => n + 1 \in 1..(n + 1) /\ n + 1 > 1
    OBVIOUS
  <2>2. n # 0 => /\ f.owned /\ f.for \in Keys /\ resolver[f.for] = f.path
    BY <1>3, <2>1 DEF IInv, StackInv
  <2>3. f.path # None
    BY <1>6, ModuleSessionAssumption
  <2> QED
    BY <2>2, <2>3 DEF Provider
<1> HIDE DEF f, u
<1>8. /\ \A q : Source(q)' = Source(q)
      /\ \A q : Provider(q)' = Provider(q)
      /\ \A a, q : Reaches(a, q)' <=> Reaches(a, q)
      /\ Good' = Good
  BY <1>1, SameGraph
<1>9. /\ DOMAIN units' = IF f.owned THEN DOMAIN units \cup {f.path} ELSE DOMAIN units
      /\ \A p \in DOMAIN units' : \/ p = f.path /\ units'[p] = u
                                  \/ p \in DOMAIN units /\ units'[p] = units[p]
  BY <1>5
<1>10. /\ UnitsInv' /\ DOMAIN units' \subseteq Paths
       /\ \A p \in DOMAIN units' : units'[p].ok \in BOOLEAN /\ units'[p].deps \subseteq Keys
  <2>1. DOMAIN units' \subseteq Paths
    BY <1>6, <1>9 DEF IInv, TypeOK
  <2>2. ASSUME NEW p \in DOMAIN units'
        PROVE  /\ units'[p].ok = (p \in Good) /\ units'[p].deps \subseteq Keys
               /\ \A d \in units'[p].deps : Reaches(p, Provider(d))
    <3>1. CASE p = f.path /\ units'[p] = u
      <4>1. u.deps \subseteq Keys
        BY <1>4
      <4> QED
        BY <1>4, <3>1, <4>1
    <3>2. CASE p \in DOMAIN units /\ units'[p] = units[p]
      BY <3>2 DEF IInv, UnitsInv, TypeOK
    <3> QED
      BY <1>9, <3>1, <3>2
  <2>3. ASSUME NEW p \in DOMAIN units'
        PROVE  units'[p].ok \in BOOLEAN
    <3>1. units'[p].ok = (p \in Good)
      BY <2>2
    <3>2. (p \in Good) \in BOOLEAN
      OBVIOUS
    <3> QED
      BY <3>1, <3>2
  <2>4. UnitsInv'
    BY <1>8, <2>2 DEF UnitsInv
  <2> QED
    BY <2>1, <2>2, <2>3, <2>4
<1>11. /\ active' \in Seq(Paths)
       /\ \A x \in DOMAIN active' : x \in DOMAIN active /\ active'[x] = active[x]
       /\ f.owned => \A x, y \in DOMAIN active : x < y => x \in DOMAIN active'
       /\ ~f.owned => active' = active
  <2>1. active \in Seq(Paths)
    BY DEF IInv, TypeOK
  <2>2. CASE ~f.owned
    BY <1>5, <2>1, <2>2
  <2>3. CASE f.owned
    <3>1. Member(f.path, active)
      <4>1. n + 1 \in DOMAIN stack
        BY <1>3
      <4> QED
        BY <1>3, <2>3, <4>1 DEF IInv, ActiveInv
    <3>2. PICK m \in Nat : m = Len(active)
      BY <2>1
    <3>3. m # 0 /\ DOMAIN active = 1..m
      BY <2>1, <3>1, <3>2 DEF Member
    <3>4. /\ active' \in Seq(Paths) /\ DOMAIN active' = 1..(m - 1)
          /\ \A x \in 1..(m - 1) : active'[x] = active[x]
      BY <1>5, <2>1, <2>3, <3>2, <3>3
    <3> QED
      BY <2>3, <3>3, <3>4
  <2> QED
    BY <1>6, <2>2, <2>3
<1>12. /\ DOMAIN stack' = 1..n /\ Len(stack') = n /\ stack' \in Seq(Frames)
       /\ \A i \in 1..n : /\ stack'[i].path = stack[i].path
                          /\ stack'[i].owned = stack[i].owned
                          /\ stack'[i].for = stack[i].for
       /\ \A i \in 1..n : i # n => stack'[i] = stack[i]
       /\ n # 0 => Fine(stack'[n], {})
  <2>1. CASE n = 0
    BY <1>5, <2>1
  <2>2. CASE n # 0
    <3> DEFINE g == Loaded(stack[n], f.for, u)
    <3>1. n \in 1..n /\ (\A i \in 1..n : i \in 1..(n + 1)) /\ n < n + 1 /\ n + 1 = n + 1
      BY <2>2
    <3>2. Fine(stack[n], {f.for})
      <4>1. Pending(n) = {f.for}
        BY <1>3 DEF Pending
      <4> QED
        BY <1>3, <3>1, <4>1 DEF IInv, StackInv
    <3>3. /\ Fine(g, {}) /\ g.path = stack[n].path /\ g.owned = stack[n].owned
          /\ g.for = stack[n].for
      BY <1>4, <1>7, <2>2, <3>2, LoadedFine
    <3>4. stack' = [i \in 1..n |-> IF i = n THEN g ELSE stack[i]]
      BY <1>5, <2>2
    <3> HIDE DEF g
    <3>5. g \in Frames /\ \A i \in 1..n : stack[i] \in Frames
      <4>1. stack \in Seq(Frames)
        BY DEF IInv, TypeOK
      <4> QED
        BY <1>3, <3>1, <3>3, <4>1 DEF Fine
    <3>6. stack' \in [1..n -> Frames]
      BY <3>4, <3>5
    <3>7. stack' \in Seq(Frames) /\ Len(stack') = n /\ DOMAIN stack' = 1..n
      BY <3>6
    <3> QED
      BY <2>2, <3>1, <3>3, <3>4, <3>7
  <2> QED
    BY <2>1, <2>2
<1>13. /\ \A i \in 1..n : i \in 1..(n + 1) /\ i < n + 1 /\ (i # n => i < n /\ i + 1 \in 1..n)
       /\ \A i \in 1..(n + 1) : i = n + 1 \/ i \in 1..n
       /\ n + 1 \in 1..(n + 1) /\ ~(n < n) /\ (n # 0 => 1 \in 1..n)
  OBVIOUS
<1>14. StackInv'
  <2>1. \A i \in 1..n : Pending(i)' = IF i < n THEN {stack'[i + 1].for} ELSE {}
    BY <1>12 DEF Pending
  <2>2. \A i \in 1..n : Pending(i) = {stack[i + 1].for}
    BY <1>3, <1>13 DEF Pending
  <2>3. ASSUME NEW i \in 1..n
        PROVE  Fine(stack[i], Pending(i))'
    <3>1. Fine(stack'[i], Pending(i)')
      <4>1. CASE i = n
        <5>1. Pending(i)' = {}
          BY <1>13, <2>1, <4>1
        <5>2. n # 0
          OBVIOUS
        <5> QED
          BY <1>12, <4>1, <5>1, <5>2
      <4>2. CASE i # n
        <5>1. Pending(i)' = Pending(i)
          BY <1>12, <1>13, <2>1, <2>2, <4>2
        <5>2. stack'[i] = stack[i] /\ i \in DOMAIN stack
          BY <1>3, <1>12, <1>13, <4>2
        <5>3. Fine(stack[i], Pending(i))
          BY <5>2 DEF IInv, StackInv
        <5> QED
          BY <5>1, <5>2, <5>3
      <4> QED
        BY <4>1, <4>2
    <3> QED
      BY <1>1, <3>1, SameGraph
  <2>4. \A i \in 1..n : i > 1 =>
           /\ stack'[i].owned /\ stack'[i].for \in Keys
           /\ resolver'[stack'[i].for] = stack'[i].path
    BY <1>1, <1>3, <1>12, <1>13 DEF IInv, StackInv
  <2>5. \A i, j \in 1..n : i < j => Reaches(stack[i].path, stack[j].path)'
    <3> SUFFICES ASSUME NEW i \in 1..n, NEW j \in 1..n, i < j
                 PROVE  Reaches(stack[i].path, stack[j].path)'
      OBVIOUS
    <3>1. Reaches(stack[i].path, stack[j].path)
      BY <1>3, <1>13 DEF IInv, StackInv
    <3>2. Reaches(stack'[i].path, stack'[j].path)
      BY <1>12, <3>1
    <3> QED
      BY <1>8, <3>2
  <2>6. stack' # <<>> => finished' < Len(Inputs) /\ stack'[1].path = Inputs[finished' + 1]
    BY <1>1, <1>5, <1>12, <1>13 DEF IInv, StackInv
  <2> QED
    BY <1>12, <2>3, <2>4, <2>5, <2>6 DEF StackInv
<1>15. ActiveInv'
  <2>1. \A x, y \in DOMAIN active' : active'[x] = active'[y] => x = y
    BY <1>11 DEF IInv, ActiveInv
  <2>2. ASSUME NEW x \in DOMAIN active'
        PROVE  \/ active'[x] \in DOMAIN units'
               \/ Source(active[x])'.text = "gone"
               \/ \E i \in 1..n : stack'[i].owned /\ stack'[i].path = active'[x]
    <3>1. \/ active[x] \in DOMAIN units
          \/ Source(active[x]).text = "gone"
          \/ \E i \in 1..(n + 1) : stack[i].owned /\ stack[i].path = active[x]
      BY <1>3, <1>11 DEF IInv, ActiveInv, Cached
    <3>2. active'[x] = active[x]
      BY <1>11
    <3>3. CASE active[x] \in DOMAIN units
      BY <1>9, <3>2, <3>3
    <3>4. CASE Source(active[x]).text = "gone"
      BY <1>8, <3>2, <3>4
    <3>5. ASSUME NEW i \in 1..(n + 1), stack[i].owned, stack[i].path = active[x]
          PROVE  \/ active'[x] \in DOMAIN units'
                 \/ \E j \in 1..n : stack'[j].owned /\ stack'[j].path = active'[x]
      <4>1. CASE i = n + 1
        BY <1>3, <1>9, <3>2, <3>5, <4>1
      <4>2. CASE i \in 1..n
        BY <1>12, <3>2, <3>5, <4>2
      <4> QED
        BY <1>13, <4>1, <4>2
    <3> QED
      BY <3>1, <3>3, <3>4, <3>5
  <2>3. ASSUME NEW i \in 1..n, stack'[i].owned
        PROVE  Member(stack'[i].path, active') /\ stack'[i].path \notin DOMAIN units'
    <3>1. stack[i].owned /\ f.owned /\ stack'[i].path = stack[i].path
      BY <1>7, <1>12, <2>3
    <3>2. PICK x \in DOMAIN active : active[x] = stack[i].path
      BY <1>3, <1>13, <3>1 DEF IInv, ActiveInv, Member
    <3>3. PICK y \in DOMAIN active : active[y] = f.path
      BY <1>3, <1>13, <3>1 DEF IInv, ActiveInv, Member
    <3>4. x < y
      BY <1>3, <1>13, <3>1, <3>2, <3>3 DEF IInv, ActiveInv
    <3>5. x \in DOMAIN active' /\ active'[x] = stack'[i].path
      BY <1>11, <3>1, <3>2, <3>4
    <3>6. x # y
      <4>1. active \in Seq(Paths)
        BY DEF IInv, TypeOK
      <4> QED
        BY <3>2, <3>3, <3>4, <4>1
    <3>7. stack[i].path # f.path
      BY <3>2, <3>3, <3>6 DEF IInv, ActiveInv
    <3>8. stack[i].path \notin DOMAIN units
      BY <1>3, <1>13, <3>1 DEF IInv, ActiveInv, Cached
    <3> QED
      BY <1>9, <3>1, <3>5, <3>7, <3>8 DEF Member
  <2>4. ASSUME NEW i \in 1..n, NEW j \in 1..n,
               NEW x \in DOMAIN active', NEW y \in DOMAIN active',
               i < j, stack'[i].owned, stack'[j].owned,
               active'[x] = stack'[i].path, active'[y] = stack'[j].path
        PROVE  x < y
    <3>1. /\ stack[i].owned /\ stack[j].owned
          /\ active[x] = stack[i].path /\ active[y] = stack[j].path
      BY <1>11, <1>12, <2>4
    <3>2. /\ i \in DOMAIN stack /\ j \in DOMAIN stack
          /\ x \in DOMAIN active /\ y \in DOMAIN active
      BY <1>3, <1>11, <1>13
    <3> QED
      BY <2>4, <3>1, <3>2 DEF IInv, ActiveInv
  <2> QED
    BY <1>12, <2>1, <2>2, <2>3, <2>4 DEF ActiveInv, Cached, Member
<1>16. ExitInv' /\ exit' \in {0, 1} /\ finished' \in 0..Len(Inputs)
  <2>1. CASE n = 0
    <3>1. finished < Len(Inputs) /\ f.path = Inputs[finished + 1]
      BY <1>1, <1>3, <2>1 DEF IInv, StackInv
    <3>2. exit' = IF Inputs[finished + 1] \in Good THEN exit ELSE 1
      BY <1>4, <1>5, <2>1, <3>1
    <3> QED
      BY <1>1, <1>3, <1>5, <2>1, <3>1, <3>2, InputDone
  <2>2. CASE n # 0
    BY <1>1, <1>5, <1>8, <2>2 DEF IInv, TypeOK, ExitInv
  <2> QED
    BY <2>1, <2>2
<1>17. TypeOK'
  BY <1>1, <1>10, <1>11, <1>12, <1>16 DEF IInv, TypeOK
<1>18. Scanning'
  <2>1. ~(scanned' < Len(Inputs))
    BY <1>1, <1>3, ModuleSessionAssumption
  <2> QED
    BY <1>1, <1>8, <2>1 DEF IInv, Scanning
<1>19. CyclesReal'
  BY <1>1, CyclesStay
<1> QED
  BY <1>10, <1>14, <1>15, <1>16, <1>17, <1>18, <1>19 DEF IInv

-----------------------------------------------------------------------------
(* The invariant holds in every session. *)
LEMMA InitIInv == Init => IInv
<1> SUFFICES ASSUME Init
             PROVE  IInv
  OBVIOUS
<1>1. Len(Inputs) \in Nat
  BY ModuleSessionAssumption
<1>2. TypeOK
  BY <1>1 DEF Init, TypeOK
<1>3. Scanning /\ ExitInv /\ CyclesReal
  BY DEF Init, Scanning, ExitInv, CyclesReal
<1>4. StackInv /\ ActiveInv /\ UnitsInv
  BY DEF Init, StackInv, ActiveInv, UnitsInv
<1> QED
  BY <1>2, <1>3, <1>4 DEF IInv

LEMMA StutterStep ==
    ASSUME IInv, UNCHANGED vars
    PROVE  IInv'
<1> USE DEF vars
<1>1. TypeOK' /\ Scanning' /\ UnitsInv' /\ ExitInv'
  <2>1. \A q : Source(q)' = Source(q)
    BY SameGraph
  <2> QED
    BY <2>1, SameGraph DEF IInv, TypeOK, Scanning, UnitsInv, ExitInv
<1>2. StackInv' /\ ActiveInv'
  <2>1. \A i : Pending(i)' = Pending(i)
    BY DEF Pending
  <2>2. /\ \A f, q : Fine(f, q)' <=> Fine(f, q)
        /\ \A a, n : Reaches(a, n)' <=> Reaches(a, n)
        /\ \A q : Source(q)' = Source(q)
    BY SameGraph
  <2>3. StackInv'
    BY <2>1, <2>2 DEF IInv, StackInv
  <2>4. ActiveInv'
    BY <2>2 DEF IInv, ActiveInv, Cached, Member
  <2> QED
    BY <2>3, <2>4
<1>3. CyclesReal'
  BY CyclesStay
<1> QED
  BY <1>1, <1>2, <1>3 DEF IInv

(* IInv is an inductive invariant: in every session, of any project, the   *)
(* frames, active_loads_ and units_by_path_ agree with the import graph.   *)
THEOREM SessionInvariant == Spec => []IInv
<1>1. IInv /\ [Next]_vars => IInv'
  <2> SUFFICES ASSUME IInv, [Next]_vars
               PROVE  IInv'
    OBVIOUS
  <2>1. CASE UNCHANGED vars
    BY <2>1, StutterStep
  <2>2. ASSUME NEW k \in Keys, ImportSource(k)
        PROVE  IInv'
    BY <2>2, ImportGoneStep, ImportFileStep
  <2>3. CASE Next
    BY <2>1, <2>2, <2>3, RegisterStep, RunFileStep, ImportKnownStep,
       ImportCompiledStep, ImportCycleStep, ImportArtifactStep, ReplayDoneStep,
       AbortStep, FinishStep DEF Next, Terminated
  <2> QED
    BY <2>1, <2>3
<1> QED
  BY <1>1, InitIInv, PTL DEF Spec

(* No unit is compiled inside its own compilation, whatever the imports    *)
(* and whatever exceptions leave in active_loads_ (ensure_compiled).       *)
THEOREM NeverReentered == Spec => []NoReentry
<1>1. ASSUME IInv
      PROVE  NoReentry
  <2> SUFFICES ASSUME NEW i \in DOMAIN stack, NEW j \in DOMAIN stack, i # j,
                      stack[i].owned, stack[j].owned, stack[i].path = stack[j].path
               PROVE  FALSE
    BY DEF NoReentry
  <2>1. PICK x \in DOMAIN active : active[x] = stack[i].path
    BY <1>1 DEF IInv, ActiveInv, Member
  <2>2. stack \in Seq(Frames) /\ active \in Seq(Paths)
    BY <1>1 DEF IInv, TypeOK
  <2>3. i < j \/ j < i
    BY <2>2
  <2>4. x < x
    BY <1>1, <2>1, <2>3 DEF IInv, ActiveInv
  <2> QED
    BY <2>1, <2>2, <2>4
<1> QED
  BY <1>1, SessionInvariant, PTL

(* The results kept in units_by_path_, and the exit code, follow from the  *)
(* files alone.                                                            *)
THEOREM RightResults == Spec => []ResultsRight
<1>1. ASSUME IInv
      PROVE  ResultsRight
  <2>1. \A p \in DOMAIN units : units[p].ok = (p \in Good)
    BY <1>1 DEF IInv, UnitsInv
  <2>2. ASSUME Done
        PROVE  exit = 0 <=>
                 /\ \A i \in DOMAIN Inputs : Inputs[i] \in Good
                 /\ \A i \in DOMAIN Inputs :
                       Source(Inputs[i]).interface
                          => resolver[Source(Inputs[i]).key] = Inputs[i]
    <3>1. Len(Inputs) \in Nat /\ DOMAIN Inputs = 1..Len(Inputs)
      BY ModuleSessionAssumption
    <3>2. scanned = Len(Inputs)
      BY <1>1, <2>2, <3>1 DEF IInv, TypeOK, Scanning, Done
    <3> QED
      BY <1>1, <2>2, <3>1, <3>2 DEF IInv, ExitInv, Done
  <2> QED
    BY <2>1, <2>2 DEF ResultsRight
<1> QED
  BY <1>1, SessionInvariant, PTL

(* A cyclic dependency that the session reports is one, or the file of the *)
(* unit is gone.                                                           *)
THEOREM RealCycles == Spec => []CyclesReal
<1>1. IInv => CyclesReal
  BY DEF IInv
<1> QED
  BY <1>1, SessionInvariant, PTL
============================================================================
