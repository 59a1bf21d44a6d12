--------------------------- MODULE SharedPtrProofs ---------------------------
(***************************************************************************)
(* Proofs about SharedPtr, for any number of threads, pointer objects and  *)
(* control blocks.  The properties are not inductive: what makes them true *)
(* is that strong_ counts the shared_ptr objects that refer to the block,  *)
(* and weak_ the weak_ptr objects plus one for all the strong references   *)
(* together, a debt that the thread which destroys the object pays.        *)
(***************************************************************************)
EXTENDS SharedPtr, FiniteSetTheorems, TLAPS

\* How many elements of D are mapped to c by f.
Refs(D, f, c) == Cardinality({d \in D : f[d] = c})

\* The reference that x contributes to c under f.
Hit(f, x, c) == IF f[x] = c THEN 1 ELSE 0

\* weak_ includes one unit for the strong references until the thread that
\* destroyed the object has executed release_weak.
Owed(c) ==
    IF object[c] = "live" \/ \E t \in Threads : At(t, "drop_weak") /\ call[t].c = c
    THEN 1 ELSE 0

StrongInv == \A c \in Controls : strong[c] = Refs(Handles, sptr, c)

WeakInv == \A c \in Controls : weak[c] = Refs(Weaks, wptr, c) + Owed(c)

\* What a thread's pc says about its locals, the mutex and its pointers.
CallInv ==
    \A t \in Threads :
        /\ At(t, "idle") => call[t] = Idle
        /\ call[t].c = Null <=>
              call[t].pc \in {"idle", "release", "lock", "body", "unlock"}
        /\ call[t].pc \in {"body", "unlock"} => mutex = t
        /\ mutex = t => /\ call[t].pc \notin {"idle", "lock", "cas"}
                        /\ call[t].h \in Mine(t)
        /\ call[t].pc \in {"release", "cas", "lock"} => call[t].h \in Mine(t)
        /\ call[t].pc \in {"lock", "body"} =>
              /\ call[t].e \in Mine(t)
              /\ call[t].kind = "compare" => call[t].h # call[t].e
              /\ call[t].kind = "load" => sptr[call[t].h] = Null
        /\ At(t, "cas") =>
              /\ sptr[call[t].h] = Null /\ call[t].value # 0
              /\ \E w \in MyWeaks(t) : wptr[w] = call[t].c
        /\ sptr[t] # Null => At(t, "release") /\ mutex = t

\* The life of a control block.
BlockInv ==
    \A c \in Controls :
        /\ block[c] = "none" <=> object[c] = "none"
        /\ object[c] = "live" => block[c] = "live"
        /\ strong[c] # 0 => object[c] = "live"
        /\ weak[c] # 0 => block[c] = "live"
        /\ object[c] = "live" /\ strong[c] = 0 =>
              \E t \in Threads : At(t, "destroy") /\ call[t].c = c
        /\ block[c] = "live" /\ weak[c] = 0 =>
              \E t \in Threads : At(t, "delete") /\ call[t].c = c

\* A thread past the decrement that reached zero is alone there.
ReleaseInv ==
    \A t \in Threads, c \in Controls :
        Releasing(t, c) =>
            /\ strong[c] = 0 /\ block[c] = "live"
            /\ At(t, "destroy") <=> object[c] = "live"
            /\ At(t, "delete") => weak[c] = 0
            /\ \A u \in Threads : Releasing(u, c) => u = t

IInv == TypeOK /\ StrongInv /\ WeakInv /\ CallInv /\ BlockInv /\ ReleaseInv

-----------------------------------------------------------------------------
(***************************************************************************)
(* Counting references.                                                    *)
(***************************************************************************)

\* The pointer objects are finitely many, so their references can be counted.
LEMMA FiniteHandles == IsFiniteSet(Handles) /\ IsFiniteSet(Weaks)
<1>1. IsFiniteSet({Slot})
  BY FS_Singleton
<1>2. IsFiniteSet(Shared \cup {Slot})
  BY <1>1, FS_Union, SharedPtrAssumption
<1> QED
  BY <1>2, FS_Union, SharedPtrAssumption DEF Handles

\* Refs is a number, and zero exactly when nothing refers to c.
LEMMA RefsZero ==
    ASSUME NEW D, IsFiniteSet(D), NEW f, NEW c
    PROVE  /\ Refs(D, f, c) \in Nat
           /\ Refs(D, f, c) = 0 <=> \A d \in D : f[d] # c
<1> DEFINE S == {d \in D : f[d] = c}
<1>1. IsFiniteSet(S)
  BY FS_Subset
<1>2. Cardinality(S) \in Nat /\ (Cardinality(S) = 0 <=> S = {})
  BY <1>1, FS_CardinalityType, FS_EmptySet
<1> QED
  BY <1>2 DEF Refs

\* Assigning one pointer object adds a reference to its new block and removes
\* one from its old block.
LEMMA RefsUpdate ==
    ASSUME NEW D, IsFiniteSet(D), NEW f, NEW g, NEW x \in D, NEW c,
           \A d \in D : d # x => g[d] = f[d]
    PROVE  Refs(D, g, c) = Refs(D, f, c) + Hit(g, x, c) - Hit(f, x, c)
<1> DEFINE S == {d \in D : f[d] = c}
           T == {d \in D : g[d] = c}
<1>1. IsFiniteSet(S) /\ Cardinality(S) \in Nat
  BY FS_Subset, FS_CardinalityType
<1>2. Cardinality(T) = Cardinality(S) + Hit(g, x, c) - Hit(f, x, c)
  <2> USE DEF Hit
  <2>1. CASE g[x] = c /\ f[x] # c
    <3>1. T = S \cup {x} /\ x \notin S
      BY <2>1
    <3> HIDE DEF S, T
    <3>2. Cardinality(T) = Cardinality(S) + 1
      BY <1>1, <3>1, FS_AddElement
    <3> QED
      BY <1>1, <2>1, <3>2
  <2>2. CASE g[x] # c /\ f[x] = c
    <3>1. T = S \ {x} /\ x \in S
      BY <2>2
    <3> HIDE DEF S, T
    <3>2. Cardinality(T) = Cardinality(S) - 1
      BY <1>1, <3>1, FS_RemoveElement
    <3> QED
      BY <1>1, <2>2, <3>2
  <2>3. CASE g[x] = c <=> f[x] = c
    <3>1. T = S
      BY <2>3
    <3> HIDE DEF S, T
    <3> QED
      BY <1>1, <2>3, <3>1
  <2> QED
    BY <2>1, <2>2, <2>3
<1> QED
  BY <1>2 DEF Refs

\* The pointer counts of a state that satisfies the invariant.
LEMMA Counts ==
    ASSUME IInv
    PROVE  \A c \in Controls :
              /\ Refs(Handles, sptr, c) \in Nat /\ Refs(Weaks, wptr, c) \in Nat
              /\ Owed(c) \in {0, 1}
              /\ Refs(Weaks, wptr, c) = 0 <=> \A w \in Weaks : wptr[w] # c
              /\ strong[c] = 0 <=> \A h \in Handles : sptr[h] # c
              /\ weak[c] = 0 <=> Owed(c) = 0 /\ \A w \in Weaks : wptr[w] # c
<1>1. \A c \in Controls :
         /\ Refs(Handles, sptr, c) \in Nat /\ Refs(Weaks, wptr, c) \in Nat
         /\ Refs(Handles, sptr, c) = 0 <=> \A h \in Handles : sptr[h] # c
         /\ Refs(Weaks, wptr, c) = 0 <=> \A w \in Weaks : wptr[w] # c
  BY FiniteHandles, RefsZero
<1> QED
  BY <1>1 DEF IInv, StrongInv, WeakInv, Owed

\* The two ways a call ends or goes on after a release are well typed.
LEMMA AfterReleaseType ==
    ASSUME TypeOK, NEW t \in Threads
    PROVE  Idle \in Calls /\ AfterRelease(t) \in Calls
<1>1. Idle \in Calls
  BY DEF Idle, Calls
<1>2. [call[t] EXCEPT !.pc = "unlock", !.c = Null] \in Calls
  <2>1. call[t] \in Calls
    BY DEF TypeOK
  <2> QED
    BY <2>1 DEF Calls
<1> QED
  BY <1>1, <1>2 DEF AfterRelease

-----------------------------------------------------------------------------
(***************************************************************************)
(* The invariant is inductive: one lemma per action.                       *)
(***************************************************************************)
\* make_shared starts a new block with one strong and one weak reference.
LEMMA MakeSharedStep ==
    ASSUME IInv, NEW t \in Threads, MakeShared(t)
    PROVE  IInv'
<1> USE DEF IInv, Goto, Begin, counts
<1>1. PICK h \in Mine(t), c \in Controls : MakeShared(t)!(h, c)
  BY DEF MakeShared
<1>2. h \in Handles /\ h \notin Threads /\ c # Null /\ strong[c] = 0 /\ weak[c] = 0
  BY <1>1, Counts, SharedPtrAssumption DEF Mine, Handles, BlockInv
<1>3. TypeOK'
  BY <1>1, <1>2, Counts, SharedPtrAssumption DEF TypeOK, Calls
<1>4. StrongInv'
  <2> SUFFICES ASSUME NEW b \in Controls
               PROVE  strong'[b] = Refs(Handles, sptr', b)
    BY DEF StrongInv
  <2>2. Refs(Handles, sptr', b) =
            Refs(Handles, sptr, b) + Hit(sptr', h, b) - Hit(sptr, h, b)
    <3>1. \A d \in Handles : d # h => sptr'[d] = sptr[d]
      BY <1>1, <1>2 DEF TypeOK
    <3> QED
      BY <1>2, <3>1, FiniteHandles, RefsUpdate
  <2> QED
    BY <1>1, <1>2, <2>2, SharedPtrAssumption, Counts DEF StrongInv, TypeOK, Hit
<1>5. WeakInv'
  <2>1. \A b \in Controls : Owed(b)' = IF b = c THEN 1 ELSE Owed(b)
    BY <1>1, <1>2, Counts, SharedPtrAssumption DEF Owed, At, TypeOK, Calls,
       Idle, AfterRelease, ReleaseInv, Releasing, BlockInv
  <2> QED
    BY <1>1, <1>2, <2>1, Counts DEF WeakInv, TypeOK
<1>6. CallInv'
  BY <1>1, <1>2, SharedPtrAssumption DEF CallInv, At, TypeOK, Mine, MyWeaks,
     Calls, Idle, AfterRelease, Handles
<1>7. BlockInv'
  BY <1>1, <1>2, SharedPtrAssumption, Counts DEF BlockInv, ReleaseInv,
     Releasing, At, TypeOK, Calls, Idle, AfterRelease
<1>8. ReleaseInv'
  BY <1>1, <1>2, SharedPtrAssumption, Counts DEF ReleaseInv, BlockInv, At,
     TypeOK, Calls, Idle, AfterRelease, Releasing
<1> QED
  BY <1>3, <1>4, <1>5, <1>6, <1>7, <1>8

\* The copy constructor takes the reference it stores.
LEMMA CopySharedStep ==
    ASSUME IInv, NEW t \in Threads, CopyShared(t)
    PROVE  IInv'
<1> USE DEF IInv, Goto, Begin, counts
<1>1. PICK g \in Mine(t), h \in Mine(t) : CopyShared(t)!(g, h)
  BY DEF CopyShared
<1>2. g \in Handles /\ h \in Handles /\ h \notin Threads
  BY <1>1, Counts, SharedPtrAssumption DEF Mine, Handles
<1>3. TypeOK'
  BY <1>1, <1>2, Counts, SharedPtrAssumption DEF TypeOK, Calls
<1>4. StrongInv'
  <2> SUFFICES ASSUME NEW b \in Controls
               PROVE  strong'[b] = Refs(Handles, sptr', b)
    BY DEF StrongInv
  <2>2. Refs(Handles, sptr', b) =
            Refs(Handles, sptr, b) + Hit(sptr', h, b) - Hit(sptr, h, b)
    <3>1. \A d \in Handles : d # h => sptr'[d] = sptr[d]
      BY <1>1, <1>2 DEF TypeOK
    <3> QED
      BY <1>2, <3>1, FiniteHandles, RefsUpdate
  <2> QED
    BY <1>1, <1>2, <2>2, SharedPtrAssumption, Counts DEF StrongInv, TypeOK, Hit
<1>5. WeakInv'
  <2>1. \A b \in Controls : Owed(b)' = Owed(b)
    BY <1>1, <1>2, Counts, SharedPtrAssumption DEF Owed, At, TypeOK, Calls,
       Idle, AfterRelease, ReleaseInv, Releasing, BlockInv
  <2> QED
    BY <1>1, <1>2, <2>1, Counts DEF WeakInv, TypeOK
<1>6. CallInv'
  BY <1>1, <1>2, SharedPtrAssumption DEF CallInv, At, TypeOK, Mine, MyWeaks,
     Calls, Idle, AfterRelease, Handles
<1>7. BlockInv'
  BY <1>1, <1>2, SharedPtrAssumption, Counts DEF BlockInv, ReleaseInv,
     Releasing, At, TypeOK, Calls, Idle, AfterRelease
<1>8. ReleaseInv'
  BY <1>1, <1>2, SharedPtrAssumption, Counts DEF ReleaseInv, BlockInv, At,
     TypeOK, Calls, Idle, AfterRelease, Releasing
<1> QED
  BY <1>3, <1>4, <1>5, <1>6, <1>7, <1>8

\* A move transfers one reference.
LEMMA MoveSharedStep ==
    ASSUME IInv, NEW t \in Threads, MoveShared(t)
    PROVE  IInv'
<1> USE DEF IInv, Goto, Begin, counts
<1>1. PICK g \in Mine(t), h \in Shared : MoveShared(t)!(g, h)
  BY DEF MoveShared
<1>2. g \in Handles /\ g \notin Threads /\ g # h /\ h \in Handles /\ h \notin Threads /\ Owner[h] \in Threads
  BY <1>1, Counts, SharedPtrAssumption DEF Mine, Handles
<1>3. TypeOK'
  BY <1>1, <1>2, Counts, SharedPtrAssumption DEF TypeOK, Calls
<1>4. StrongInv'
  <2> SUFFICES ASSUME NEW b \in Controls
               PROVE  strong'[b] = Refs(Handles, sptr', b)
    BY DEF StrongInv
  <2> DEFINE k == [sptr EXCEPT ![g] = sptr'[g]]
  <2>a. /\ \A d \in Handles : d # g => k[d] = sptr[d]
        /\ \A d \in Handles : d # h => sptr'[d] = k[d]
        /\ k[g] = sptr'[g] /\ k[h] = sptr[h]
    BY <1>1, <1>2 DEF TypeOK
  <2> HIDE DEF k
  <2>b. Refs(Handles, k, b) =
            Refs(Handles, sptr, b) + Hit(k, g, b) - Hit(sptr, g, b)
    BY <1>2, <2>a, FiniteHandles, RefsUpdate
  <2>c. Refs(Handles, sptr', b) =
            Refs(Handles, k, b) + Hit(sptr', h, b) - Hit(k, h, b)
    BY <1>2, <2>a, FiniteHandles, RefsUpdate
  <2>2. Refs(Handles, sptr', b) =
            Refs(Handles, sptr, b) + Hit(sptr', g, b) - Hit(sptr, g, b)
                + Hit(sptr', h, b) - Hit(sptr, h, b)
    <3>1. Refs(Handles, sptr, b) \in Nat
      BY FiniteHandles, RefsZero
    <3> QED
      BY <2>a, <2>b, <2>c, <3>1 DEF Hit
  <2> QED
    BY <1>1, <1>2, <2>2, SharedPtrAssumption, Counts DEF StrongInv, TypeOK, Hit
<1>5. WeakInv'
  <2>1. \A b \in Controls : Owed(b)' = Owed(b)
    BY <1>1, <1>2, Counts, SharedPtrAssumption DEF Owed, At, TypeOK, Calls,
       Idle, AfterRelease, ReleaseInv, Releasing, BlockInv
  <2> QED
    BY <1>1, <1>2, <2>1, Counts DEF WeakInv, TypeOK
<1>6. CallInv'
  BY <1>1, <1>2, SharedPtrAssumption DEF CallInv, At, TypeOK, Mine, MyWeaks,
     Calls, Idle, AfterRelease, Handles
<1>7. BlockInv'
  BY <1>1, <1>2, SharedPtrAssumption, Counts DEF BlockInv, ReleaseInv,
     Releasing, At, TypeOK, Calls, Idle, AfterRelease
<1>8. ReleaseInv'
  BY <1>1, <1>2, SharedPtrAssumption, Counts DEF ReleaseInv, BlockInv, At,
     TypeOK, Calls, Idle, AfterRelease, Releasing
<1> QED
  BY <1>3, <1>4, <1>5, <1>6, <1>7, <1>8

\* Entering ~shared_ptr changes no count.
LEMMA DropSharedStep ==
    ASSUME IInv, NEW t \in Threads, DropShared(t)
    PROVE  IInv'
<1> USE DEF IInv, Goto, Begin, counts
<1>1. PICK h \in Mine(t) : DropShared(t)!(h)
  BY DEF DropShared
<1>2. h \in Handles /\ h \notin Threads
  BY <1>1, Counts, SharedPtrAssumption DEF Mine, Handles
<1>3. TypeOK'
  <2>1. call' = [call EXCEPT ![t] = call'[t]]
    BY <1>1 DEF TypeOK
  <2>2. call[t] \in Calls /\ sptr \in [Handles -> Controls \cup {Null}]
    BY DEF TypeOK
  <2>3. call'[t] \in Calls
    BY <1>1, <1>2, <2>2 DEF TypeOK, Calls, Idle, Mine
  <2> QED
    BY <1>1, <1>2, <2>1, <2>3, Counts, SharedPtrAssumption DEF TypeOK
<1>4. StrongInv'
  BY <1>1 DEF StrongInv
<1>5. WeakInv'
  <2>1. \A b \in Controls : Owed(b)' = Owed(b)
    BY <1>1, <1>2, Counts, SharedPtrAssumption DEF Owed, At, TypeOK, Calls,
       Idle, AfterRelease, ReleaseInv, Releasing, BlockInv
  <2> QED
    BY <1>1, <1>2, <2>1, Counts DEF WeakInv, TypeOK
<1>6. CallInv'
  BY <1>1, <1>2, SharedPtrAssumption DEF CallInv, At, TypeOK, Mine, MyWeaks,
     Calls, Idle, AfterRelease, Handles
<1>7. BlockInv'
  BY <1>1, <1>2, SharedPtrAssumption, Counts DEF BlockInv, ReleaseInv,
     Releasing, At, TypeOK, Calls, Idle, AfterRelease
<1>8. ReleaseInv'
  BY <1>1, <1>2, SharedPtrAssumption, Counts DEF ReleaseInv, BlockInv, At,
     TypeOK, Calls, Idle, AfterRelease, Releasing
<1> QED
  BY <1>3, <1>4, <1>5, <1>6, <1>7, <1>8

\* ~shared_ptr of a null pointer only returns.
LEMMA ReleaseNullStep ==
    ASSUME IInv, NEW t \in Threads, ReleaseNull(t)
    PROVE  IInv'
<1> USE DEF IInv, Goto, Begin, counts
<1>1. ReleaseNull(t)
  OBVIOUS
<1>2. /\ call[t].pc = "release" /\ t \in Handles
      /\ mutex = t => sptr[t] = Null
  BY <1>1, Counts, SharedPtrAssumption DEF ReleaseNull, At, Handles, Released
<1>3. TypeOK'
  <2>1. call' = [call EXCEPT ![t] = call'[t]]
    BY <1>1 DEF ReleaseNull, TypeOK
  <2>2. call[t] \in Calls /\ sptr \in [Handles -> Controls \cup {Null}]
    BY DEF TypeOK
  <2>3. call'[t] \in Calls
    BY <1>1, <1>2, <2>2, AfterReleaseType DEF ReleaseNull, TypeOK, Calls
  <2> QED
    BY <1>1, <1>2, <2>1, <2>3, Counts, SharedPtrAssumption DEF ReleaseNull,
       TypeOK
<1>4. StrongInv'
  BY <1>1 DEF ReleaseNull, StrongInv
<1>5. WeakInv'
  <2>1. \A b \in Controls : Owed(b)' = Owed(b)
    BY <1>1, <1>2, Counts, SharedPtrAssumption DEF ReleaseNull, Owed, At,
       TypeOK, Calls, Idle, AfterRelease, ReleaseInv, Releasing, BlockInv
  <2> QED
    BY <1>1, <1>2, <2>1, Counts DEF ReleaseNull, WeakInv, TypeOK
<1>6. CallInv'
  BY <1>1, <1>2, SharedPtrAssumption DEF ReleaseNull, CallInv, At, TypeOK,
     Mine, MyWeaks, Calls, Idle, AfterRelease, Handles
<1>7. BlockInv'
  BY <1>1, <1>2, SharedPtrAssumption, Counts DEF ReleaseNull, BlockInv,
     ReleaseInv, Releasing, At, TypeOK, Calls, Idle, AfterRelease
<1>8. ReleaseInv'
  BY <1>1, <1>2, SharedPtrAssumption, Counts DEF ReleaseNull, ReleaseInv,
     BlockInv, At, TypeOK, Calls, Idle, AfterRelease, Releasing
<1> QED
  BY <1>3, <1>4, <1>5, <1>6, <1>7, <1>8

\* A weak_ptr takes the weak reference it stores.
LEMMA WeakFromSharedStep ==
    ASSUME IInv, NEW t \in Threads, WeakFromShared(t)
    PROVE  IInv'
<1> USE DEF IInv, Goto, Begin, counts
<1>1. PICK h \in Mine(t), w \in MyWeaks(t) : WeakFromShared(t)!(h, w)
  BY DEF WeakFromShared
<1>2. w \in Weaks /\ h \in Handles /\ h \notin Threads
  BY <1>1, Counts, SharedPtrAssumption DEF Mine, MyWeaks, Handles
<1>3. TypeOK'
  BY <1>1, <1>2, Counts, SharedPtrAssumption DEF TypeOK, Calls
<1>4. StrongInv'
  BY <1>1 DEF StrongInv
<1>5. WeakInv'
  <2>1. \A b \in Controls : Owed(b)' = Owed(b)
    BY <1>1, <1>2, Counts, SharedPtrAssumption DEF Owed, At, TypeOK, Calls,
       Idle, AfterRelease, ReleaseInv, Releasing, BlockInv
  <2> SUFFICES ASSUME NEW b \in Controls
               PROVE  weak'[b] = Refs(Weaks, wptr', b) + Owed(b)'
    BY DEF WeakInv
  <2>2. Refs(Weaks, wptr', b) =
            Refs(Weaks, wptr, b) + Hit(wptr', w, b) - Hit(wptr, w, b)
    <3>1. \A d \in Weaks : d # w => wptr'[d] = wptr[d]
      BY <1>1, <1>2 DEF TypeOK
    <3> QED
      BY <1>2, <3>1, FiniteHandles, RefsUpdate
  <2> QED
    BY <1>1, <1>2, <2>1, <2>2, SharedPtrAssumption, Counts DEF WeakInv,
       TypeOK, Hit
<1>6. CallInv'
  BY <1>1, <1>2, SharedPtrAssumption DEF CallInv, At, TypeOK, Mine, MyWeaks,
     Calls, Idle, AfterRelease, Handles
<1>7. BlockInv'
  BY <1>1, <1>2, SharedPtrAssumption, Counts DEF BlockInv, ReleaseInv,
     Releasing, At, TypeOK, Calls, Idle, AfterRelease
<1>8. ReleaseInv'
  BY <1>1, <1>2, SharedPtrAssumption, Counts DEF ReleaseInv, BlockInv, At,
     TypeOK, Calls, Idle, AfterRelease, Releasing
<1> QED
  BY <1>3, <1>4, <1>5, <1>6, <1>7, <1>8

\* The copy of a weak_ptr takes the weak reference it stores.
LEMMA CopyWeakStep ==
    ASSUME IInv, NEW t \in Threads, CopyWeak(t)
    PROVE  IInv'
<1> USE DEF IInv, Goto, Begin, counts
<1>1. PICK v \in MyWeaks(t), w \in MyWeaks(t) : CopyWeak(t)!(v, w)
  BY DEF CopyWeak
<1>2. v \in Weaks /\ w \in Weaks
  BY <1>1, Counts, SharedPtrAssumption DEF MyWeaks
<1>3. TypeOK'
  BY <1>1, <1>2, Counts, SharedPtrAssumption DEF TypeOK, Calls
<1>4. StrongInv'
  BY <1>1 DEF StrongInv
<1>5. WeakInv'
  <2>1. \A b \in Controls : Owed(b)' = Owed(b)
    BY <1>1, <1>2, Counts, SharedPtrAssumption DEF Owed, At, TypeOK, Calls,
       Idle, AfterRelease, ReleaseInv, Releasing, BlockInv
  <2> SUFFICES ASSUME NEW b \in Controls
               PROVE  weak'[b] = Refs(Weaks, wptr', b) + Owed(b)'
    BY DEF WeakInv
  <2>2. Refs(Weaks, wptr', b) =
            Refs(Weaks, wptr, b) + Hit(wptr', w, b) - Hit(wptr, w, b)
    <3>1. \A d \in Weaks : d # w => wptr'[d] = wptr[d]
      BY <1>1, <1>2 DEF TypeOK
    <3> QED
      BY <1>2, <3>1, FiniteHandles, RefsUpdate
  <2> QED
    BY <1>1, <1>2, <2>1, <2>2, SharedPtrAssumption, Counts DEF WeakInv,
       TypeOK, Hit
<1>6. CallInv'
  BY <1>1, <1>2, SharedPtrAssumption DEF CallInv, At, TypeOK, Mine, MyWeaks,
     Calls, Idle, AfterRelease, Handles
<1>7. BlockInv'
  BY <1>1, <1>2, SharedPtrAssumption, Counts DEF BlockInv, ReleaseInv,
     Releasing, At, TypeOK, Calls, Idle, AfterRelease
<1>8. ReleaseInv'
  BY <1>1, <1>2, SharedPtrAssumption, Counts DEF ReleaseInv, BlockInv, At,
     TypeOK, Calls, Idle, AfterRelease, Releasing
<1> QED
  BY <1>3, <1>4, <1>5, <1>6, <1>7, <1>8

\* A move transfers one weak reference.
LEMMA MoveWeakStep ==
    ASSUME IInv, NEW t \in Threads, MoveWeak(t)
    PROVE  IInv'
<1> USE DEF IInv, Goto, Begin, counts
<1>1. PICK v \in MyWeaks(t), w \in Weaks : MoveWeak(t)!(v, w)
  BY DEF MoveWeak
<1>2. v \in Weaks /\ v # w /\ Owner[w] \in Threads
  BY <1>1, Counts, SharedPtrAssumption DEF MyWeaks
<1>3. TypeOK'
  BY <1>1, <1>2, Counts, SharedPtrAssumption DEF TypeOK, Calls
<1>4. StrongInv'
  BY <1>1 DEF StrongInv
<1>5. WeakInv'
  <2>1. \A b \in Controls : Owed(b)' = Owed(b)
    BY <1>1, <1>2, Counts, SharedPtrAssumption DEF Owed, At, TypeOK, Calls,
       Idle, AfterRelease, ReleaseInv, Releasing, BlockInv
  <2> SUFFICES ASSUME NEW b \in Controls
               PROVE  weak'[b] = Refs(Weaks, wptr', b) + Owed(b)'
    BY DEF WeakInv
  <2> DEFINE k == [wptr EXCEPT ![v] = wptr'[v]]
  <2>a. /\ \A d \in Weaks : d # v => k[d] = wptr[d]
        /\ \A d \in Weaks : d # w => wptr'[d] = k[d]
        /\ k[v] = wptr'[v] /\ k[w] = wptr[w]
    BY <1>1, <1>2 DEF TypeOK
  <2> HIDE DEF k
  <2>b. Refs(Weaks, k, b) =
            Refs(Weaks, wptr, b) + Hit(k, v, b) - Hit(wptr, v, b)
    BY <1>2, <2>a, FiniteHandles, RefsUpdate
  <2>c. Refs(Weaks, wptr', b) =
            Refs(Weaks, k, b) + Hit(wptr', w, b) - Hit(k, w, b)
    BY <1>2, <2>a, FiniteHandles, RefsUpdate
  <2>2. Refs(Weaks, wptr', b) =
            Refs(Weaks, wptr, b) + Hit(wptr', v, b) - Hit(wptr, v, b)
                + Hit(wptr', w, b) - Hit(wptr, w, b)
    <3>1. Refs(Weaks, wptr, b) \in Nat
      BY FiniteHandles, RefsZero
    <3> QED
      BY <2>a, <2>b, <2>c, <3>1 DEF Hit
  <2> QED
    BY <1>1, <1>2, <2>1, <2>2, SharedPtrAssumption, Counts DEF WeakInv,
       TypeOK, Hit
<1>6. CallInv'
  BY <1>1, <1>2, SharedPtrAssumption DEF CallInv, At, TypeOK, Mine, MyWeaks,
     Calls, Idle, AfterRelease, Handles
<1>7. BlockInv'
  BY <1>1, <1>2, SharedPtrAssumption, Counts DEF BlockInv, ReleaseInv,
     Releasing, At, TypeOK, Calls, Idle, AfterRelease
<1>8. ReleaseInv'
  BY <1>1, <1>2, SharedPtrAssumption, Counts DEF ReleaseInv, BlockInv, At,
     TypeOK, Calls, Idle, AfterRelease, Releasing
<1> QED
  BY <1>3, <1>4, <1>5, <1>6, <1>7, <1>8

\* The decrement gives back the reference of the destroyed handle; the thread
\* that reaches zero is the only one to destroy the object.
LEMMA ReleaseStrongStep ==
    ASSUME IInv, NEW t \in Threads, ReleaseStrong(t)
    PROVE  IInv'
<1> USE DEF IInv, Goto, Begin, counts
<1>1. ReleaseStrong(t)
  OBVIOUS
<1>2. /\ Released(t) \in Handles
      /\ mutex = t => Released(t) = t
      /\ mutex # t => Released(t) \in Mine(t)
  BY <1>1, Counts, SharedPtrAssumption DEF ReleaseStrong, Released, Handles,
     CallInv, At, Mine
<1>3. TypeOK'
  <2>1. call' = [call EXCEPT ![t] = call'[t]]
    BY <1>1 DEF ReleaseStrong, TypeOK
  <2>2. call[t] \in Calls /\ sptr \in [Handles -> Controls \cup {Null}]
    BY DEF TypeOK
  <2>3. call'[t] \in Calls
    <3>1. [call[t] EXCEPT !.pc = "destroy", !.c = sptr[Released(t)]] \in Calls
      BY <1>1, <1>2, <2>2 DEF ReleaseStrong, Calls
    <3>2. call'[t] \in {[call[t] EXCEPT !.pc = "destroy", !.c = sptr[Released(t)]], AfterRelease(t)}
      BY <1>1 DEF ReleaseStrong, TypeOK
    <3> QED
      BY <3>1, <3>2, AfterReleaseType
  <2> QED
    BY <1>1, <1>2, <2>1, <2>3, Counts, SharedPtrAssumption DEF ReleaseStrong,
       TypeOK
<1>4. StrongInv'
  <2> SUFFICES ASSUME NEW b \in Controls
               PROVE  strong'[b] = Refs(Handles, sptr', b)
    BY DEF StrongInv
  <2>2. Refs(Handles, sptr', b) =
            Refs(Handles, sptr, b) + Hit(sptr', Released(t), b) - Hit(sptr, Released(t), b)
    <3>1. \A d \in Handles : d # Released(t) => sptr'[d] = sptr[d]
      BY <1>1, <1>2 DEF ReleaseStrong, TypeOK
    <3> QED
      BY <1>2, <3>1, FiniteHandles, RefsUpdate
  <2> QED
    BY <1>1, <1>2, <2>2, SharedPtrAssumption, Counts DEF ReleaseStrong,
       StrongInv, TypeOK, Hit
<1>5. WeakInv'
  <2>1. \A b \in Controls : Owed(b)' = Owed(b)
    BY <1>1, <1>2, Counts, SharedPtrAssumption DEF ReleaseStrong, Owed, At,
       TypeOK, Calls, Idle, AfterRelease, ReleaseInv, Releasing, BlockInv
  <2> QED
    BY <1>1, <1>2, <2>1, Counts DEF ReleaseStrong, WeakInv, TypeOK
<1>6. CallInv'
  BY <1>1, <1>2, SharedPtrAssumption DEF ReleaseStrong, CallInv, At, TypeOK,
     Mine, MyWeaks, Calls, Idle, AfterRelease, Handles
<1>7. BlockInv'
  BY <1>1, <1>2, SharedPtrAssumption, Counts DEF ReleaseStrong, BlockInv,
     ReleaseInv, Releasing, At, TypeOK, Calls, Idle, AfterRelease
<1>8. ReleaseInv'
  <2> SUFFICES ASSUME NEW u \in Threads, NEW b \in Controls, Releasing(u, b)'
               PROVE  /\ strong'[b] = 0 /\ block'[b] = "live"
                      /\ At(u, "destroy")' <=> object'[b] = "live"
                      /\ At(u, "delete")' => weak'[b] = 0
                      /\ \A w \in Threads : Releasing(w, b)' => w = u
    BY DEF ReleaseInv
  <2> DEFINE c == sptr[Released(t)]
  <2>1. /\ c \in Controls /\ strong[c] \in Nat \ {0}
        /\ strong' = [strong EXCEPT ![c] = @ - 1]
        /\ UNCHANGED <<weak, object, block>>
        /\ call' = [call EXCEPT ![t] = call'[t]] /\ call[t].pc = "release"
    BY <1>1, <1>2, SharedPtrAssumption, Counts DEF ReleaseStrong, TypeOK, At, BlockInv
  <2>2. \A w \in Threads : ~Releasing(w, c)
    BY <2>1 DEF ReleaseInv
  <2>3. \A w \in Threads : w # t => (\A d : Releasing(w, d)' = Releasing(w, d))
                                /\ At(w, "destroy")' = At(w, "destroy")
                                /\ At(w, "delete")' = At(w, "delete")
    BY <2>1 DEF Releasing, At, TypeOK
  <2>4. \/ strong[c] = 1 /\ call'[t] = [call[t] EXCEPT !.pc = "destroy", !.c = c]
        \/ strong[c] # 1 /\ call'[t] = AfterRelease(t)
    <3>1. call' = [call EXCEPT ![t] = IF strong[c] = 1
                                      THEN [call[t] EXCEPT !.pc = "destroy", !.c = c]
                                      ELSE AfterRelease(t)]
      BY <1>1 DEF ReleaseStrong
    <3>2. call \in [Threads -> Calls]
      BY DEF TypeOK
    <3> HIDE DEF c
    <3> QED
      BY <3>1, <3>2
  <2>5. call[t] \in Calls /\ strong \in [Controls -> Nat]
    BY DEF TypeOK
  <2> HIDE DEF c
  <2>6. \A d \in Controls : Releasing(t, d)' =>
            d = c /\ strong[c] = 1 /\ At(t, "destroy")' /\ ~At(t, "delete")'
    <3>1. CASE strong[c] = 1 /\ call'[t] = [call[t] EXCEPT !.pc = "destroy", !.c = c]
      BY <2>5, <3>1 DEF Releasing, At, Calls
    <3>2. CASE call'[t] = AfterRelease(t)
      <4>1. call'[t].pc \in {"unlock", "idle"}
        BY <2>5, <3>2 DEF AfterRelease, Idle, Calls
      <4> QED
        BY <4>1 DEF Releasing
    <3> QED
      BY <2>4, <3>1, <3>2
  <2>7. CASE u = t
    <3>1. b = c /\ strong[c] = 1 /\ At(t, "destroy")' /\ ~At(t, "delete")'
      BY <2>6, <2>7
    <3>2. strong'[b] = 0 /\ object[c] = "live" /\ block[c] = "live"
      BY <2>1, <2>5, <3>1 DEF BlockInv
    <3>3. \A w \in Threads : Releasing(w, b)' => w = u
      BY <2>2, <2>3, <2>7, <3>1
    <3> QED
      BY <2>1, <2>7, <3>1, <3>2, <3>3
  <2>8. CASE u # t
    <3>1. Releasing(u, b) /\ b # c
      BY <2>2, <2>3, <2>8
    <3>2. \A w \in Threads : Releasing(w, b)' => Releasing(w, b)
      BY <2>3, <2>6, <3>1
    <3>3. strong'[b] = strong[b]
      BY <2>1, <2>5, <3>1
    <3>4. /\ strong[b] = 0 /\ block[b] = "live"
          /\ At(u, "destroy") <=> object[b] = "live"
          /\ At(u, "delete") => weak[b] = 0
          /\ \A w \in Threads : Releasing(w, b) => w = u
      BY <3>1 DEF ReleaseInv
    <3> QED
      BY <2>1, <2>3, <2>8, <3>2, <3>3, <3>4
  <2> QED
    BY <2>7, <2>8
<1> QED
  BY <1>3, <1>4, <1>5, <1>6, <1>7, <1>8

\* Destroying the object leaves its weak reference owed.
LEMMA DestroyObjectStep ==
    ASSUME IInv, NEW t \in Threads, DestroyObject(t)
    PROVE  IInv'
<1> USE DEF IInv, Goto, Begin, counts
<1>1. DestroyObject(t)
  OBVIOUS
<1>2. /\ call[t].c \in Controls /\ Releasing(t, call[t].c)
      /\ \A u \in Threads : Releasing(u, call[t].c) => u = t
  BY <1>1, Counts, SharedPtrAssumption DEF DestroyObject, CallInv, At, TypeOK,
     Calls, Releasing, ReleaseInv
<1>3. TypeOK'
  <2>1. call' = [call EXCEPT ![t] = call'[t]]
    BY <1>1 DEF DestroyObject, TypeOK
  <2>2. call[t] \in Calls /\ sptr \in [Handles -> Controls \cup {Null}]
    BY DEF TypeOK
  <2>3. call'[t] \in Calls
    BY <1>1, <1>2, <2>2 DEF DestroyObject, TypeOK, Calls
  <2> QED
    BY <1>1, <1>2, <2>1, <2>3, Counts, SharedPtrAssumption DEF DestroyObject,
       TypeOK
<1>4. StrongInv'
  BY <1>1 DEF DestroyObject, StrongInv
<1>5. WeakInv'
  <2>1. \A b \in Controls : Owed(b)' = Owed(b)
    BY <1>1, <1>2, Counts, SharedPtrAssumption DEF DestroyObject, Owed, At,
       TypeOK, Calls, Idle, AfterRelease, ReleaseInv, Releasing, BlockInv
  <2> QED
    BY <1>1, <1>2, <2>1, Counts DEF DestroyObject, WeakInv, TypeOK
<1>6. CallInv'
  BY <1>1, <1>2, SharedPtrAssumption DEF DestroyObject, CallInv, At, TypeOK,
     Mine, MyWeaks, Calls, Idle, AfterRelease, Handles
<1>7. BlockInv'
  BY <1>1, <1>2, SharedPtrAssumption, Counts DEF DestroyObject, BlockInv,
     ReleaseInv, Releasing, At, TypeOK, Calls, Idle, AfterRelease
<1>8. ReleaseInv'
  BY <1>1, <1>2, SharedPtrAssumption, Counts DEF DestroyObject, ReleaseInv,
     BlockInv, At, TypeOK, Calls, Idle, AfterRelease, Releasing
<1> QED
  BY <1>3, <1>4, <1>5, <1>6, <1>7, <1>8

\* release_weak pays the reference owed.
LEMMA DropWeakCountStep ==
    ASSUME IInv, NEW t \in Threads, DropWeakCount(t)
    PROVE  IInv'
<1> USE DEF IInv, Goto, Begin, counts
<1>1. DropWeakCount(t)
  OBVIOUS
<1>2. /\ call[t].c \in Controls /\ Releasing(t, call[t].c)
      /\ \A u \in Threads : Releasing(u, call[t].c) => u = t
      /\ object[call[t].c] # "live" /\ Owed(call[t].c) = 1
  BY <1>1, Counts, SharedPtrAssumption DEF DropWeakCount, CallInv, At, TypeOK,
     Calls, Releasing, ReleaseInv, Owed
<1>3. TypeOK'
  <2>1. call' = [call EXCEPT ![t] = call'[t]]
    BY <1>1 DEF DropWeakCount, TypeOK
  <2>2. call[t] \in Calls /\ sptr \in [Handles -> Controls \cup {Null}]
    BY DEF TypeOK
  <2>3. call'[t] \in Calls
    BY <1>1, <1>2, <2>2, AfterReleaseType DEF DropWeakCount, TypeOK, Calls
  <2> QED
    BY <1>1, <1>2, <2>1, <2>3, Counts, SharedPtrAssumption DEF DropWeakCount,
       TypeOK
<1>4. StrongInv'
  BY <1>1 DEF DropWeakCount, StrongInv
<1>5. WeakInv'
  <2>1. \A b \in Controls : Owed(b)' = IF b = call[t].c THEN 0 ELSE Owed(b)
    BY <1>1, <1>2, Counts, SharedPtrAssumption DEF DropWeakCount, Owed, At,
       TypeOK, Calls, Idle, AfterRelease, ReleaseInv, Releasing, BlockInv
  <2> QED
    BY <1>1, <1>2, <2>1, Counts DEF DropWeakCount, WeakInv, TypeOK
<1>6. CallInv'
  BY <1>1, <1>2, SharedPtrAssumption DEF DropWeakCount, CallInv, At, TypeOK,
     Mine, MyWeaks, Calls, Idle, AfterRelease, Handles
<1>7. BlockInv'
  BY <1>1, <1>2, SharedPtrAssumption, Counts DEF DropWeakCount, BlockInv,
     ReleaseInv, Releasing, At, TypeOK, Calls, Idle, AfterRelease
<1>8. ReleaseInv'
  BY <1>1, <1>2, SharedPtrAssumption, Counts DEF DropWeakCount, ReleaseInv,
     BlockInv, At, TypeOK, Calls, Idle, AfterRelease, Releasing
<1> QED
  BY <1>3, <1>4, <1>5, <1>6, <1>7, <1>8

\* ~weak_ptr gives back its weak reference.
LEMMA ReleaseWeakStep ==
    ASSUME IInv, NEW t \in Threads, ReleaseWeak(t)
    PROVE  IInv'
<1> USE DEF IInv, Goto, Begin, counts
<1>1. PICK w \in MyWeaks(t) : ReleaseWeak(t)!(w)
  BY DEF ReleaseWeak
<1>2. /\ w \in Weaks /\ wptr[w] \in Controls
      /\ Refs(Weaks, wptr, wptr[w]) # 0
      /\ weak[wptr[w]] = 1 =>
            object[wptr[w]] # "live" /\ \A u \in Threads : ~Releasing(u, wptr[w])
  BY <1>1, Counts, SharedPtrAssumption DEF MyWeaks, TypeOK, WeakInv, Owed,
     ReleaseInv, Releasing, At
<1>3. TypeOK'
  <2>1. call' = [call EXCEPT ![t] = call'[t]]
    BY <1>1 DEF TypeOK
  <2>2. call[t] \in Calls /\ sptr \in [Handles -> Controls \cup {Null}]
    BY DEF TypeOK
  <2>3. call'[t] \in Calls
    BY <1>1, <1>2, <2>2, AfterReleaseType DEF TypeOK, Calls, Idle
  <2> QED
    BY <1>1, <1>2, <2>1, <2>3, Counts, SharedPtrAssumption DEF TypeOK
<1>4. StrongInv'
  BY <1>1 DEF StrongInv
<1>5. WeakInv'
  <2>1. \A b \in Controls : Owed(b)' = Owed(b)
    BY <1>1, <1>2, Counts, SharedPtrAssumption DEF Owed, At, TypeOK, Calls,
       Idle, AfterRelease, ReleaseInv, Releasing, BlockInv
  <2> SUFFICES ASSUME NEW b \in Controls
               PROVE  weak'[b] = Refs(Weaks, wptr', b) + Owed(b)'
    BY DEF WeakInv
  <2>2. Refs(Weaks, wptr', b) =
            Refs(Weaks, wptr, b) + Hit(wptr', w, b) - Hit(wptr, w, b)
    <3>1. \A d \in Weaks : d # w => wptr'[d] = wptr[d]
      BY <1>1, <1>2 DEF TypeOK
    <3> QED
      BY <1>2, <3>1, FiniteHandles, RefsUpdate
  <2> QED
    BY <1>1, <1>2, <2>1, <2>2, SharedPtrAssumption, Counts DEF WeakInv,
       TypeOK, Hit
<1>6. CallInv'
  BY <1>1, <1>2, SharedPtrAssumption DEF CallInv, At, TypeOK, Mine, MyWeaks,
     Calls, Idle, AfterRelease, Handles
<1>7. BlockInv'
  BY <1>1, <1>2, SharedPtrAssumption, Counts DEF BlockInv, ReleaseInv,
     Releasing, At, TypeOK, Calls, Idle, AfterRelease
<1>8. ReleaseInv'
  BY <1>1, <1>2, SharedPtrAssumption, Counts DEF ReleaseInv, BlockInv, At,
     TypeOK, Calls, Idle, AfterRelease, Releasing
<1> QED
  BY <1>3, <1>4, <1>5, <1>6, <1>7, <1>8

\* Only the thread that took weak_ to zero deletes the block.
LEMMA DeleteBlockStep ==
    ASSUME IInv, NEW t \in Threads, DeleteBlock(t)
    PROVE  IInv'
<1> USE DEF IInv, Goto, Begin, counts
<1>1. DeleteBlock(t)
  OBVIOUS
<1>2. /\ call[t].c \in Controls /\ Releasing(t, call[t].c)
      /\ \A u \in Threads : Releasing(u, call[t].c) => u = t
  BY <1>1, Counts, SharedPtrAssumption DEF DeleteBlock, CallInv, At, TypeOK,
     Calls, Releasing, ReleaseInv
<1>3. TypeOK'
  <2>1. call' = [call EXCEPT ![t] = call'[t]]
    BY <1>1 DEF DeleteBlock, TypeOK
  <2>2. call[t] \in Calls /\ sptr \in [Handles -> Controls \cup {Null}]
    BY DEF TypeOK
  <2>3. call'[t] \in Calls
    BY <1>1, <1>2, <2>2, AfterReleaseType DEF DeleteBlock, TypeOK, Calls
  <2> QED
    BY <1>1, <1>2, <2>1, <2>3, Counts, SharedPtrAssumption DEF DeleteBlock,
       TypeOK
<1>4. StrongInv'
  BY <1>1 DEF DeleteBlock, StrongInv
<1>5. WeakInv'
  <2>1. \A b \in Controls : Owed(b)' = Owed(b)
    BY <1>1, <1>2, Counts, SharedPtrAssumption DEF DeleteBlock, Owed, At,
       TypeOK, Calls, Idle, AfterRelease, ReleaseInv, Releasing, BlockInv
  <2> QED
    BY <1>1, <1>2, <2>1, Counts DEF DeleteBlock, WeakInv, TypeOK
<1>6. CallInv'
  BY <1>1, <1>2, SharedPtrAssumption DEF DeleteBlock, CallInv, At, TypeOK,
     Mine, MyWeaks, Calls, Idle, AfterRelease, Handles
<1>7. BlockInv'
  BY <1>1, <1>2, SharedPtrAssumption, Counts DEF DeleteBlock, BlockInv,
     ReleaseInv, Releasing, At, TypeOK, Calls, Idle, AfterRelease
<1>8. ReleaseInv'
  BY <1>1, <1>2, SharedPtrAssumption, Counts DEF DeleteBlock, ReleaseInv,
     BlockInv, At, TypeOK, Calls, Idle, AfterRelease, Releasing
<1> QED
  BY <1>3, <1>4, <1>5, <1>6, <1>7, <1>8

\* A weak_ptr::lock that loads a positive strong_ starts its loop.
LEMMA LockLoadStep ==
    ASSUME IInv, NEW t \in Threads, LockLoad(t)
    PROVE  IInv'
<1> USE DEF IInv, Goto, Begin, counts
<1>1. PICK w \in MyWeaks(t), h \in Mine(t) : LockLoad(t)!(w, h)
  BY DEF LockLoad
<1>2. w \in Weaks /\ h \in Handles /\ h \notin Threads
  BY <1>1, Counts, SharedPtrAssumption DEF Mine, MyWeaks, Handles
<1>3. TypeOK'
  <2>1. call' = [call EXCEPT ![t] = call'[t]]
    BY <1>1 DEF TypeOK
  <2>2. call[t] \in Calls /\ sptr \in [Handles -> Controls \cup {Null}]
    BY DEF TypeOK
  <2>3. call'[t] \in Calls
    BY <1>1, <1>2, <2>2 DEF TypeOK, Calls, Idle, Mine
  <2> QED
    BY <1>1, <1>2, <2>1, <2>3, Counts, SharedPtrAssumption DEF TypeOK
<1>4. StrongInv'
  BY <1>1 DEF StrongInv
<1>5. WeakInv'
  <2>1. \A b \in Controls : Owed(b)' = Owed(b)
    BY <1>1, <1>2, Counts, SharedPtrAssumption DEF Owed, At, TypeOK, Calls,
       Idle, AfterRelease, ReleaseInv, Releasing, BlockInv
  <2> QED
    BY <1>1, <1>2, <2>1, Counts DEF WeakInv, TypeOK
<1>6. CallInv'
  BY <1>1, <1>2, SharedPtrAssumption DEF CallInv, At, TypeOK, Mine, MyWeaks,
     Calls, Idle, AfterRelease, Handles
<1>7. BlockInv'
  BY <1>1, <1>2, SharedPtrAssumption, Counts DEF BlockInv, ReleaseInv,
     Releasing, At, TypeOK, Calls, Idle, AfterRelease
<1>8. ReleaseInv'
  BY <1>1, <1>2, SharedPtrAssumption, Counts DEF ReleaseInv, BlockInv, At,
     TypeOK, Calls, Idle, AfterRelease, Releasing
<1> QED
  BY <1>3, <1>4, <1>5, <1>6, <1>7, <1>8

\* An exchange from a positive value adds the reference it stores.
LEMMA LockCasStep ==
    ASSUME IInv, NEW t \in Threads, LockCas(t)
    PROVE  IInv'
<1> USE DEF IInv, Goto, Begin, counts
<1>1. LockCas(t)
  OBVIOUS
<1>2. /\ call[t].c \in Controls /\ call[t].h \in Handles /\ call[t].h \in Mine(t)
      /\ sptr[call[t].h] = Null /\ strong[call[t].c] # 0
  BY <1>1, Counts, SharedPtrAssumption DEF LockCas, CallInv, At, TypeOK,
     Calls, Mine, Handles
<1>3. TypeOK'
  <2>1. call' = [call EXCEPT ![t] = call'[t]]
    BY <1>1 DEF LockCas, TypeOK
  <2>2. call[t] \in Calls /\ sptr \in [Handles -> Controls \cup {Null}]
    BY DEF TypeOK
  <2>3. call'[t] \in Calls
    BY <1>1, <1>2, <2>2, AfterReleaseType DEF LockCas, TypeOK, Calls, Idle
  <2> QED
    BY <1>1, <1>2, <2>1, <2>3, Counts, SharedPtrAssumption DEF LockCas, TypeOK
<1>4. StrongInv'
  <2> SUFFICES ASSUME NEW b \in Controls
               PROVE  strong'[b] = Refs(Handles, sptr', b)
    BY DEF StrongInv
  <2>2. Refs(Handles, sptr', b) =
            Refs(Handles, sptr, b) + Hit(sptr', call[t].h, b) - Hit(sptr, call[t].h, b)
    <3>1. \A d \in Handles : d # call[t].h => sptr'[d] = sptr[d]
      BY <1>1, <1>2 DEF LockCas, TypeOK
    <3> QED
      BY <1>2, <3>1, FiniteHandles, RefsUpdate
  <2> QED
    BY <1>1, <1>2, <2>2, SharedPtrAssumption, Counts DEF LockCas, StrongInv,
       TypeOK, Hit
<1>5. WeakInv'
  <2>1. \A b \in Controls : Owed(b)' = Owed(b)
    BY <1>1, <1>2, Counts, SharedPtrAssumption DEF LockCas, Owed, At, TypeOK,
       Calls, Idle, AfterRelease, ReleaseInv, Releasing, BlockInv
  <2> QED
    BY <1>1, <1>2, <2>1, Counts DEF LockCas, WeakInv, TypeOK
<1>6. CallInv'
  BY <1>1, <1>2, SharedPtrAssumption DEF LockCas, CallInv, At, TypeOK, Mine,
     MyWeaks, Calls, Idle, AfterRelease, Handles
<1>7. BlockInv'
  BY <1>1, <1>2, SharedPtrAssumption, Counts DEF LockCas, BlockInv,
     ReleaseInv, Releasing, At, TypeOK, Calls, Idle, AfterRelease
<1>8. ReleaseInv'
  BY <1>1, <1>2, SharedPtrAssumption, Counts DEF LockCas, ReleaseInv,
     BlockInv, At, TypeOK, Calls, Idle, AfterRelease, Releasing
<1> QED
  BY <1>3, <1>4, <1>5, <1>6, <1>7, <1>8

\* A failing exchange changes no count.
LEMMA LockRetryStep ==
    ASSUME IInv, NEW t \in Threads, LockRetry(t)
    PROVE  IInv'
<1> USE DEF IInv, Goto, Begin, counts
<1>1. LockRetry(t)
  OBVIOUS
<1>2. call[t].c \in Controls
  BY <1>1, Counts, SharedPtrAssumption DEF LockRetry, CallInv, At, TypeOK,
     Calls
<1>3. TypeOK'
  <2>1. call' = [call EXCEPT ![t] = call'[t]]
    BY <1>1 DEF LockRetry, TypeOK
  <2>2. call[t] \in Calls /\ sptr \in [Handles -> Controls \cup {Null}]
    BY DEF TypeOK
  <2>3. call'[t] \in Calls
    BY <1>1, <1>2, <2>2, AfterReleaseType DEF LockRetry, TypeOK, Calls, Idle
  <2> QED
    BY <1>1, <1>2, <2>1, <2>3, Counts, SharedPtrAssumption DEF LockRetry,
       TypeOK
<1>4. StrongInv'
  BY <1>1 DEF LockRetry, StrongInv
<1>5. WeakInv'
  <2>1. \A b \in Controls : Owed(b)' = Owed(b)
    BY <1>1, <1>2, Counts, SharedPtrAssumption DEF LockRetry, Owed, At,
       TypeOK, Calls, Idle, AfterRelease, ReleaseInv, Releasing, BlockInv
  <2> QED
    BY <1>1, <1>2, <2>1, Counts DEF LockRetry, WeakInv, TypeOK
<1>6. CallInv'
  BY <1>1, <1>2, SharedPtrAssumption DEF LockRetry, CallInv, At, TypeOK, Mine,
     MyWeaks, Calls, Idle, AfterRelease, Handles
<1>7. BlockInv'
  BY <1>1, <1>2, SharedPtrAssumption, Counts DEF LockRetry, BlockInv,
     ReleaseInv, Releasing, At, TypeOK, Calls, Idle, AfterRelease
<1>8. ReleaseInv'
  BY <1>1, <1>2, SharedPtrAssumption, Counts DEF LockRetry, ReleaseInv,
     BlockInv, At, TypeOK, Calls, Idle, AfterRelease, Releasing
<1> QED
  BY <1>3, <1>4, <1>5, <1>6, <1>7, <1>8

\* A call of an atomic_* function changes no count.
LEMMA CallAtomicStep ==
    ASSUME IInv, NEW t \in Threads, CallAtomic(t)
    PROVE  IInv'
<1> USE DEF IInv, Goto, Begin, counts
<1>1. PICK kind \in {"load", "store", "exchange", "compare"}, h \in Mine(t), e \in Mine(t) : CallAtomic(t)!(kind, h, e)
  BY DEF CallAtomic
<1>2. h \in Handles /\ h \notin Threads
  BY <1>1, Counts, SharedPtrAssumption DEF Mine, Handles
<1>3. TypeOK'
  <2>1. call' = [call EXCEPT ![t] = call'[t]]
    BY <1>1 DEF TypeOK
  <2>2. call[t] \in Calls /\ sptr \in [Handles -> Controls \cup {Null}]
    BY DEF TypeOK
  <2>3. call'[t] \in Calls
    BY <1>1, <1>2, <2>2 DEF TypeOK, Calls, Idle, Mine
  <2> QED
    BY <1>1, <1>2, <2>1, <2>3, Counts, SharedPtrAssumption DEF TypeOK
<1>4. StrongInv'
  BY <1>1 DEF StrongInv
<1>5. WeakInv'
  <2>1. \A b \in Controls : Owed(b)' = Owed(b)
    BY <1>1, <1>2, Counts, SharedPtrAssumption DEF Owed, At, TypeOK, Calls,
       Idle, AfterRelease, ReleaseInv, Releasing, BlockInv
  <2> QED
    BY <1>1, <1>2, <2>1, Counts DEF WeakInv, TypeOK
<1>6. CallInv'
  BY <1>1, <1>2, SharedPtrAssumption DEF CallInv, At, TypeOK, Mine, MyWeaks,
     Calls, Idle, AfterRelease, Handles
<1>7. BlockInv'
  BY <1>1, <1>2, SharedPtrAssumption, Counts DEF BlockInv, ReleaseInv,
     Releasing, At, TypeOK, Calls, Idle, AfterRelease
<1>8. ReleaseInv'
  BY <1>1, <1>2, SharedPtrAssumption, Counts DEF ReleaseInv, BlockInv, At,
     TypeOK, Calls, Idle, AfterRelease, Releasing
<1> QED
  BY <1>3, <1>4, <1>5, <1>6, <1>7, <1>8

\* Locking changes no count.
LEMMA AtomicLockStep ==
    ASSUME IInv, NEW t \in Threads, AtomicLock(t)
    PROVE  IInv'
<1> USE DEF IInv, Goto, Begin, counts
<1>1. AtomicLock(t)
  OBVIOUS
<1>2. call[t].pc = "lock"
  BY <1>1, Counts, SharedPtrAssumption DEF AtomicLock, At
<1>3. TypeOK'
  <2>1. call' = [call EXCEPT ![t] = call'[t]]
    BY <1>1 DEF AtomicLock, TypeOK
  <2>2. call[t] \in Calls /\ sptr \in [Handles -> Controls \cup {Null}]
    BY DEF TypeOK
  <2>3. call'[t] \in Calls
    BY <1>1, <1>2, <2>2 DEF AtomicLock, TypeOK, Calls
  <2> QED
    BY <1>1, <1>2, <2>1, <2>3, Counts, SharedPtrAssumption DEF AtomicLock,
       TypeOK
<1>4. StrongInv'
  BY <1>1 DEF AtomicLock, StrongInv
<1>5. WeakInv'
  <2>1. \A b \in Controls : Owed(b)' = Owed(b)
    BY <1>1, <1>2, Counts, SharedPtrAssumption DEF AtomicLock, Owed, At,
       TypeOK, Calls, Idle, AfterRelease, ReleaseInv, Releasing, BlockInv
  <2> QED
    BY <1>1, <1>2, <2>1, Counts DEF AtomicLock, WeakInv, TypeOK
<1>6. CallInv'
  BY <1>1, <1>2, SharedPtrAssumption DEF AtomicLock, CallInv, At, TypeOK,
     Mine, MyWeaks, Calls, Idle, AfterRelease, Handles
<1>7. BlockInv'
  BY <1>1, <1>2, SharedPtrAssumption, Counts DEF AtomicLock, BlockInv,
     ReleaseInv, Releasing, At, TypeOK, Calls, Idle, AfterRelease
<1>8. ReleaseInv'
  BY <1>1, <1>2, SharedPtrAssumption, Counts DEF AtomicLock, ReleaseInv,
     BlockInv, At, TypeOK, Calls, Idle, AfterRelease, Releasing
<1> QED
  BY <1>3, <1>4, <1>5, <1>6, <1>7, <1>8

\* atomic_load takes a reference to the value of the slot.
LEMMA AtomicLoadStep ==
    ASSUME IInv, NEW t \in Threads, AtomicLoad(t)
    PROVE  IInv'
<1> USE DEF IInv, Goto, Begin, counts
<1>1. AtomicLoad(t)
  OBVIOUS
<1>2. /\ call[t].h \in Handles /\ call[t].h \in Mine(t) /\ call[t].h # Slot
      /\ sptr[call[t].h] = Null /\ Slot \in Handles
  BY <1>1, Counts, SharedPtrAssumption DEF AtomicLoad, CallInv, At, TypeOK,
     Calls, Mine, Handles
<1>3. TypeOK'
  <2>1. call' = [call EXCEPT ![t] = call'[t]]
    BY <1>1 DEF AtomicLoad, TypeOK
  <2>2. call[t] \in Calls /\ sptr \in [Handles -> Controls \cup {Null}]
    BY DEF TypeOK
  <2>3. call'[t] \in Calls
    BY <1>1, <1>2, <2>2 DEF AtomicLoad, TypeOK, Calls
  <2> QED
    BY <1>1, <1>2, <2>1, <2>3, Counts, SharedPtrAssumption DEF AtomicLoad,
       TypeOK
<1>4. StrongInv'
  <2> SUFFICES ASSUME NEW b \in Controls
               PROVE  strong'[b] = Refs(Handles, sptr', b)
    BY DEF StrongInv
  <2>2. Refs(Handles, sptr', b) =
            Refs(Handles, sptr, b) + Hit(sptr', call[t].h, b) - Hit(sptr, call[t].h, b)
    <3>1. \A d \in Handles : d # call[t].h => sptr'[d] = sptr[d]
      BY <1>1, <1>2 DEF AtomicLoad, TypeOK
    <3> QED
      BY <1>2, <3>1, FiniteHandles, RefsUpdate
  <2> QED
    BY <1>1, <1>2, <2>2, SharedPtrAssumption, Counts DEF AtomicLoad,
       StrongInv, TypeOK, Hit
<1>5. WeakInv'
  <2>1. \A b \in Controls : Owed(b)' = Owed(b)
    BY <1>1, <1>2, Counts, SharedPtrAssumption DEF AtomicLoad, Owed, At,
       TypeOK, Calls, Idle, AfterRelease, ReleaseInv, Releasing, BlockInv
  <2> QED
    BY <1>1, <1>2, <2>1, Counts DEF AtomicLoad, WeakInv, TypeOK
<1>6. CallInv'
  BY <1>1, <1>2, SharedPtrAssumption DEF AtomicLoad, CallInv, At, TypeOK,
     Mine, MyWeaks, Calls, Idle, AfterRelease, Handles
<1>7. BlockInv'
  BY <1>1, <1>2, SharedPtrAssumption, Counts DEF AtomicLoad, BlockInv,
     ReleaseInv, Releasing, At, TypeOK, Calls, Idle, AfterRelease
<1>8. ReleaseInv'
  BY <1>1, <1>2, SharedPtrAssumption, Counts DEF AtomicLoad, ReleaseInv,
     BlockInv, At, TypeOK, Calls, Idle, AfterRelease, Releasing
<1> QED
  BY <1>3, <1>4, <1>5, <1>6, <1>7, <1>8

\* A swap of the slot with the argument changes no count.
LEMMA AtomicSwapStep ==
    ASSUME IInv, NEW t \in Threads, AtomicSwap(t)
    PROVE  IInv'
<1> USE DEF IInv, Goto, Begin, counts
<1>1. AtomicSwap(t)
  OBVIOUS
<1>2. call[t].h \in Handles /\ call[t].h \in Mine(t) /\ Slot \in Handles /\ call[t].h # Slot
  BY <1>1, Counts, SharedPtrAssumption DEF AtomicSwap, CallInv, At, TypeOK,
     Calls, Mine, Handles
<1>3. TypeOK'
  <2>1. call' = [call EXCEPT ![t] = call'[t]]
    BY <1>1 DEF AtomicSwap, TypeOK
  <2>2. call[t] \in Calls /\ sptr \in [Handles -> Controls \cup {Null}]
    BY DEF TypeOK
  <2>3. call'[t] \in Calls
    BY <1>1, <1>2, <2>2 DEF AtomicSwap, TypeOK, Calls
  <2> QED
    BY <1>1, <1>2, <2>1, <2>3, Counts, SharedPtrAssumption DEF AtomicSwap,
       TypeOK
<1>4. StrongInv'
  <2> SUFFICES ASSUME NEW b \in Controls
               PROVE  strong'[b] = Refs(Handles, sptr', b)
    BY DEF StrongInv
  <2> DEFINE k == [sptr EXCEPT ![Slot] = sptr'[Slot]]
  <2>a. /\ \A d \in Handles : d # Slot => k[d] = sptr[d]
        /\ \A d \in Handles : d # call[t].h => sptr'[d] = k[d]
        /\ k[Slot] = sptr'[Slot] /\ k[call[t].h] = sptr[call[t].h]
    BY <1>1, <1>2 DEF AtomicSwap, TypeOK
  <2> HIDE DEF k
  <2>b. Refs(Handles, k, b) =
            Refs(Handles, sptr, b) + Hit(k, Slot, b) - Hit(sptr, Slot, b)
    BY <1>2, <2>a, FiniteHandles, RefsUpdate
  <2>c. Refs(Handles, sptr', b) =
            Refs(Handles, k, b) + Hit(sptr', call[t].h, b) - Hit(k, call[t].h, b)
    BY <1>2, <2>a, FiniteHandles, RefsUpdate
  <2>2. Refs(Handles, sptr', b) =
            Refs(Handles, sptr, b) + Hit(sptr', Slot, b) - Hit(sptr, Slot, b)
                + Hit(sptr', call[t].h, b) - Hit(sptr, call[t].h, b)
    <3>1. Refs(Handles, sptr, b) \in Nat
      BY FiniteHandles, RefsZero
    <3> QED
      BY <2>a, <2>b, <2>c, <3>1 DEF Hit
  <2> QED
    BY <1>1, <1>2, <2>2, SharedPtrAssumption, Counts DEF AtomicSwap,
       StrongInv, TypeOK, Hit
<1>5. WeakInv'
  <2>1. \A b \in Controls : Owed(b)' = Owed(b)
    BY <1>1, <1>2, Counts, SharedPtrAssumption DEF AtomicSwap, Owed, At,
       TypeOK, Calls, Idle, AfterRelease, ReleaseInv, Releasing, BlockInv
  <2> QED
    BY <1>1, <1>2, <2>1, Counts DEF AtomicSwap, WeakInv, TypeOK
<1>6. CallInv'
  BY <1>1, <1>2, SharedPtrAssumption DEF AtomicSwap, CallInv, At, TypeOK,
     Mine, MyWeaks, Calls, Idle, AfterRelease, Handles
<1>7. BlockInv'
  BY <1>1, <1>2, SharedPtrAssumption, Counts DEF AtomicSwap, BlockInv,
     ReleaseInv, Releasing, At, TypeOK, Calls, Idle, AfterRelease
<1>8. ReleaseInv'
  BY <1>1, <1>2, SharedPtrAssumption, Counts DEF AtomicSwap, ReleaseInv,
     BlockInv, At, TypeOK, Calls, Idle, AfterRelease, Releasing
<1> QED
  BY <1>3, <1>4, <1>5, <1>6, <1>7, <1>8

\* Assigning *pointer to *expected takes a reference and leaves the old one in
\* `replacement'.
LEMMA AtomicMismatchStep ==
    ASSUME IInv, NEW t \in Threads, AtomicMismatch(t)
    PROVE  IInv'
<1> USE DEF IInv, Goto, Begin, counts
<1>1. AtomicMismatch(t)
  OBVIOUS
<1>2. call[t].e \in Handles /\ call[t].e \in Mine(t) /\ Slot \in Handles /\ call[t].e # Slot /\ t \in Handles /\ t # Slot /\ call[t].e # t /\ sptr[t] = Null
  BY <1>1, Counts, SharedPtrAssumption DEF AtomicMismatch, CallInv, At,
     TypeOK, Calls, Mine, Handles
<1>3. TypeOK'
  <2>1. call' = [call EXCEPT ![t] = call'[t]]
    BY <1>1 DEF AtomicMismatch, TypeOK
  <2>2. call[t] \in Calls /\ sptr \in [Handles -> Controls \cup {Null}]
    BY DEF TypeOK
  <2>3. call'[t] \in Calls
    BY <1>1, <1>2, <2>2 DEF AtomicMismatch, TypeOK, Calls
  <2> QED
    BY <1>1, <1>2, <2>1, <2>3, Counts, SharedPtrAssumption DEF AtomicMismatch,
       TypeOK
<1>4. StrongInv'
  <2> SUFFICES ASSUME NEW b \in Controls
               PROVE  strong'[b] = Refs(Handles, sptr', b)
    BY DEF StrongInv
  <2> DEFINE k == [sptr EXCEPT ![call[t].e] = sptr'[call[t].e]]
  <2>a. /\ \A d \in Handles : d # call[t].e => k[d] = sptr[d]
        /\ \A d \in Handles : d # t => sptr'[d] = k[d]
        /\ k[call[t].e] = sptr'[call[t].e] /\ k[t] = sptr[t]
    BY <1>1, <1>2 DEF AtomicMismatch, TypeOK
  <2> HIDE DEF k
  <2>b. Refs(Handles, k, b) =
            Refs(Handles, sptr, b) + Hit(k, call[t].e, b) - Hit(sptr, call[t].e, b)
    BY <1>2, <2>a, FiniteHandles, RefsUpdate
  <2>c. Refs(Handles, sptr', b) =
            Refs(Handles, k, b) + Hit(sptr', t, b) - Hit(k, t, b)
    BY <1>2, <2>a, FiniteHandles, RefsUpdate
  <2>2. Refs(Handles, sptr', b) =
            Refs(Handles, sptr, b) + Hit(sptr', call[t].e, b) - Hit(sptr, call[t].e, b)
                + Hit(sptr', t, b) - Hit(sptr, t, b)
    <3>1. Refs(Handles, sptr, b) \in Nat
      BY FiniteHandles, RefsZero
    <3> QED
      BY <2>a, <2>b, <2>c, <3>1 DEF Hit
  <2> QED
    BY <1>1, <1>2, <2>2, SharedPtrAssumption, Counts DEF AtomicMismatch,
       StrongInv, TypeOK, Hit
<1>5. WeakInv'
  <2>1. \A b \in Controls : Owed(b)' = Owed(b)
    BY <1>1, <1>2, Counts, SharedPtrAssumption DEF AtomicMismatch, Owed, At,
       TypeOK, Calls, Idle, AfterRelease, ReleaseInv, Releasing, BlockInv
  <2> QED
    BY <1>1, <1>2, <2>1, Counts DEF AtomicMismatch, WeakInv, TypeOK
<1>6. CallInv'
  BY <1>1, <1>2, SharedPtrAssumption DEF AtomicMismatch, CallInv, At, TypeOK,
     Mine, MyWeaks, Calls, Idle, AfterRelease, Handles
<1>7. BlockInv'
  BY <1>1, <1>2, SharedPtrAssumption, Counts DEF AtomicMismatch, BlockInv,
     ReleaseInv, Releasing, At, TypeOK, Calls, Idle, AfterRelease
<1>8. ReleaseInv'
  BY <1>1, <1>2, SharedPtrAssumption, Counts DEF AtomicMismatch, ReleaseInv,
     BlockInv, At, TypeOK, Calls, Idle, AfterRelease, Releasing
<1> QED
  BY <1>3, <1>4, <1>5, <1>6, <1>7, <1>8

\* Unlocking changes no count.
LEMMA AtomicUnlockStep ==
    ASSUME IInv, NEW t \in Threads, AtomicUnlock(t)
    PROVE  IInv'
<1> USE DEF IInv, Goto, Begin, counts
<1>1. AtomicUnlock(t)
  OBVIOUS
<1>2. call[t].pc = "unlock" /\ mutex = t
  BY <1>1, Counts, SharedPtrAssumption DEF AtomicUnlock, At, CallInv
<1>3. TypeOK'
  <2>1. call' = [call EXCEPT ![t] = call'[t]]
    BY <1>1 DEF AtomicUnlock, TypeOK
  <2>2. call[t] \in Calls /\ sptr \in [Handles -> Controls \cup {Null}]
    BY DEF TypeOK
  <2>3. call'[t] \in Calls
    <3>1. [call[t] EXCEPT !.pc = "release", !.e = Slot] \in Calls
      BY <1>1, <1>2, <2>2 DEF AtomicUnlock, Calls
    <3>2. call'[t] \in {[call[t] EXCEPT !.pc = "release", !.e = Slot], Idle}
      BY <1>1 DEF AtomicUnlock, TypeOK
    <3> QED
      BY <3>1, <3>2, AfterReleaseType
  <2> QED
    BY <1>1, <1>2, <2>1, <2>3, Counts, SharedPtrAssumption DEF AtomicUnlock,
       TypeOK
<1>4. StrongInv'
  BY <1>1 DEF AtomicUnlock, StrongInv
<1>5. WeakInv'
  <2>1. \A b \in Controls : Owed(b)' = Owed(b)
    BY <1>1, <1>2, Counts, SharedPtrAssumption DEF AtomicUnlock, Owed, At,
       TypeOK, Calls, Idle, AfterRelease, ReleaseInv, Releasing, BlockInv
  <2> QED
    BY <1>1, <1>2, <2>1, Counts DEF AtomicUnlock, WeakInv, TypeOK
<1>6. CallInv'
  BY <1>1, <1>2, SharedPtrAssumption DEF AtomicUnlock, CallInv, At, TypeOK,
     Mine, MyWeaks, Calls, Idle, AfterRelease, Handles
<1>7. BlockInv'
  BY <1>1, <1>2, SharedPtrAssumption, Counts DEF AtomicUnlock, BlockInv,
     ReleaseInv, Releasing, At, TypeOK, Calls, Idle, AfterRelease
<1>8. ReleaseInv'
  BY <1>1, <1>2, SharedPtrAssumption, Counts DEF AtomicUnlock, ReleaseInv,
     BlockInv, At, TypeOK, Calls, Idle, AfterRelease, Releasing
<1> QED
  BY <1>3, <1>4, <1>5, <1>6, <1>7, <1>8
\* A step that changes no variable keeps the invariant.
LEMMA StutterStep ==
    ASSUME IInv, UNCHANGED vars
    PROVE  IInv'
<1> USE DEF IInv, vars
<1>1. TypeOK' /\ StrongInv' /\ CallInv'
  BY DEF TypeOK, StrongInv, CallInv, At
<1>2. WeakInv'
  BY DEF WeakInv, Owed, At
<1>3. BlockInv' /\ ReleaseInv'
  BY DEF BlockInv, ReleaseInv, Releasing, At
<1> QED
  BY <1>1, <1>2, <1>3

\* Initially no pointer refers to a block and no block exists.
LEMMA InitIInv == Init => IInv
<1> SUFFICES ASSUME Init
             PROVE  IInv
  OBVIOUS
<1>1. TypeOK
  <2>1. Idle \in Calls
    BY DEF Idle, Calls
  <2> QED
    BY <2>1 DEF Init, TypeOK
<1>2. \A c \in Controls : Refs(Handles, sptr, c) = 0 /\ Refs(Weaks, wptr, c) = 0
  BY FiniteHandles, RefsZero, SharedPtrAssumption DEF Init
<1>3. StrongInv /\ WeakInv
  BY <1>2 DEF Init, StrongInv, WeakInv, Owed, At, Idle
<1>4. CallInv
  BY SharedPtrAssumption DEF Init, CallInv, At, Idle, Handles
<1>5. BlockInv /\ ReleaseInv
  BY DEF Init, BlockInv, ReleaseInv, Releasing, At, Idle
<1> QED
  BY <1>1, <1>3, <1>4, <1>5 DEF IInv

\* IInv is an inductive invariant of the specification: strong_ and weak_ of
\* shared_control always count the pointers that refer to the block.
THEOREM InductiveInvariant == Spec => []IInv
<1>1. Init => IInv
  BY InitIInv
<1>2. IInv /\ [Next]_vars => IInv'
  <2> SUFFICES ASSUME IInv, [Next]_vars
               PROVE  IInv'
    OBVIOUS
  <2>1. CASE UNCHANGED vars
    BY <2>1, StutterStep
  <2>2. ASSUME NEW t \in Threads, Start(t)
        PROVE  IInv'
    BY <2>2, MakeSharedStep, CopySharedStep, MoveSharedStep, DropSharedStep,
       WeakFromSharedStep, CopyWeakStep, MoveWeakStep, ReleaseWeakStep,
       LockLoadStep, CallAtomicStep DEF Start
  <2>3. ASSUME NEW t \in Threads, Continue(t)
        PROVE  IInv'
    BY <2>3, ReleaseNullStep, ReleaseStrongStep, DestroyObjectStep,
       DropWeakCountStep, DeleteBlockStep, LockCasStep, LockRetryStep,
       AtomicLockStep, AtomicLoadStep, AtomicSwapStep, AtomicMismatchStep,
       AtomicUnlockStep DEF Continue
  <2> QED
    BY <2>1, <2>2, <2>3 DEF Next
<1> QED
  BY <1>1, <1>2, PTL DEF Spec

-----------------------------------------------------------------------------
\* Type correctness; in particular the counters never go below zero.
THEOREM TypeCorrect == Spec => []TypeOK
<1>1. IInv => TypeOK
  BY DEF IInv
<1> QED
  BY <1>1, InductiveInvariant, PTL

\* No shared_ptr of any thread ever refers to a destroyed object.
THEOREM NoUseAfterDestroy == Spec => []ObjectLiveWhileOwned
<1>1. IInv => ObjectLiveWhileOwned
  BY Counts DEF IInv, ObjectLiveWhileOwned, BlockInv, TypeOK
<1> QED
  BY <1>1, InductiveInvariant, PTL

\* No pointer and no running member function outlives its control block.
THEOREM NoUseAfterDelete == Spec => []BlockLiveWhileUsed
<1>1. ASSUME IInv
      PROVE  BlockLiveWhileUsed
  <2>1. /\ \A h \in Handles : sptr[h] # Null => block[sptr[h]] = "live"
        /\ \A w \in Weaks : wptr[w] # Null => block[wptr[w]] = "live"
    BY <1>1, Counts DEF IInv, BlockInv, TypeOK
  <2>2. ASSUME NEW t \in Threads, call[t].c # Null
        PROVE  block[call[t].c] = "live"
    <3>1. call[t].c \in Controls /\ call[t].pc \in {"cas", "destroy", "drop_weak", "delete"}
      BY <1>1, <2>2 DEF IInv, TypeOK, Calls, CallInv
    <3>2. CASE At(t, "cas")
      BY <1>1, <2>1, <2>2, <3>2 DEF IInv, CallInv, MyWeaks
    <3>3. CASE ~At(t, "cas")
      BY <1>1, <3>1, <3>3 DEF IInv, ReleaseInv, Releasing, At
    <3> QED
      BY <3>2, <3>3
  <2> QED
    BY <2>1, <2>2 DEF BlockLiveWhileUsed
<1> QED
  BY <1>1, InductiveInvariant, PTL

\* destroy_object and `delete this' are each executed by a single thread.
THEOREM DestroyedOnce == Spec => []SoleDestroyer
<1>1. IInv => SoleDestroyer
  BY DEF IInv, ReleaseInv, SoleDestroyer
<1> QED
  BY <1>1, InductiveInvariant, PTL

\* A block nothing refers to any more has been deleted.
THEOREM NothingLeaks == Spec => []NoLeak
<1>1. ASSUME IInv
      PROVE  NoLeak
  BY <1>1, Counts DEF IInv, NoLeak, BlockInv, TypeOK, Releasing, Owed, At
<1> QED
  BY <1>1, InductiveInvariant, PTL

\* weak_ptr::lock never revives an object whose strong count reached zero.
THEOREM NeverRevived == Spec => NoRevival
<1>1. IInv /\ [Next]_vars =>
         [\A c \in Controls :
             block[c] # "none" /\ strong[c] = 0 => strong'[c] = 0]_vars
  <2> SUFFICES ASSUME IInv, Next, NEW b \in Controls,
                      block[b] # "none", strong[b] = 0
               PROVE  strong'[b] = 0
    OBVIOUS
  <2>1. \A h \in Handles : sptr[h] # b
    BY Counts
  <2>2. ASSUME NEW t \in Threads, Start(t)
        PROVE  strong'[b] = 0
    <3>1. CASE CopyShared(t)
      BY <2>1, <3>1 DEF CopyShared, Mine, Handles, IInv, TypeOK
    <3> QED
      BY <2>2, <3>1 DEF Start, counts, IInv, TypeOK, MakeShared, MoveShared,
         DropShared, WeakFromShared, CopyWeak, MoveWeak, ReleaseWeak, LockLoad,
         CallAtomic
  <2>3. ASSUME NEW t \in Threads, Continue(t)
        PROVE  strong'[b] = 0
    <3>1. CASE ReleaseStrong(t)
      <4>1. Released(t) \in Handles
        BY <3>1 DEF ReleaseStrong, Released, Handles, IInv, CallInv, At, Mine
      <4> QED
        BY <2>1, <3>1, <4>1 DEF ReleaseStrong, IInv, TypeOK
    <3>2. CASE LockCas(t)
      BY <3>2 DEF LockCas, IInv, TypeOK, CallInv, Calls, At
    <3>3. CASE AtomicLoad(t) \/ AtomicMismatch(t)
      BY <2>1, <3>3 DEF AtomicLoad, AtomicMismatch, IInv, TypeOK, Handles
    <3> QED
      BY <2>3, <3>1, <3>2, <3>3 DEF Continue, counts, ReleaseNull,
         DestroyObject, DropWeakCount, DeleteBlock, LockRetry, AtomicLock,
         AtomicSwap, AtomicUnlock
  <2> QED
    BY <2>2, <2>3 DEF Next
<1> QED
  BY <1>1, InductiveInvariant, PTL DEF Spec, NoRevival
-----------------------------------------------------------------------------
\* A thread that releases a pointer with the mutex held runs the operator= of a
\* compare exchange; DestroyUnlocked is about one of the four places where such
\* a thread can be, and so does not survive a step by itself.
LockedCompare ==
    \A t \in Threads :
        mutex = t /\ call[t].pc \in {"release", "destroy", "drop_weak", "delete"}
            => call[t].kind = "compare"

\* No step brings a thread that holds the mutex into a release, but the failing
\* compare exchange: all other releases begin idle, or end the lock.
LEMMA LockedCompareStep ==
    ASSUME IInv, LockedCompare, [Next]_vars
    PROVE  LockedCompare'
<1> SUFFICES ASSUME NEW t \in Threads, Start(t) \/ Continue(t)
             PROVE  LockedCompare'
  BY DEF LockedCompare, Next, vars
<1> USE DEF IInv, TypeOK, Calls
<1>1. CASE \/ MakeShared(t) \/ CopyShared(t) \/ MoveShared(t)
           \/ WeakFromShared(t) \/ CopyWeak(t) \/ MoveWeak(t)
  BY <1>1 DEF LockedCompare, MakeShared, CopyShared, MoveShared, WeakFromShared,
     CopyWeak, MoveWeak
<1>2. CASE DropShared(t) \/ ReleaseWeak(t) \/ LockLoad(t) \/ CallAtomic(t)
  <2>1. mutex # t /\ mutex' = mutex
    BY <1>2 DEF DropShared, ReleaseWeak, LockLoad, CallAtomic, CallInv, At
  <2>2. \A u \in Threads : u # t => call'[u] = call[u]
    BY <1>2 DEF DropShared, ReleaseWeak, LockLoad, CallAtomic, Begin
  <2> QED
    BY <2>1, <2>2 DEF LockedCompare
<1>3. CASE \/ ReleaseNull(t) \/ ReleaseStrong(t) \/ DestroyObject(t)
           \/ DropWeakCount(t) \/ DeleteBlock(t)
  <2>1. mutex' = mutex
    BY <1>3 DEF ReleaseNull, ReleaseStrong, DestroyObject, DropWeakCount, DeleteBlock
  <2>2. \A u \in Threads : u # t => call'[u] = call[u]
    BY <1>3 DEF ReleaseNull, ReleaseStrong, DestroyObject, DropWeakCount,
       DeleteBlock, Begin, Goto
  <2>3. call[t].pc \in {"release", "destroy", "drop_weak", "delete"}
    BY <1>3 DEF ReleaseNull, ReleaseStrong, DestroyObject, DropWeakCount,
       DeleteBlock, At
  <2>4. mutex = t => AfterRelease(t).kind = call[t].kind
    BY DEF AfterRelease
  <2>5. mutex = t => call'[t].kind = call[t].kind
    <3>1. CASE ReleaseNull(t) \/ DeleteBlock(t)
      BY <2>4, <3>1 DEF ReleaseNull, DeleteBlock, Begin
    <3>2. CASE ReleaseStrong(t)
      BY <2>4, <3>2 DEF ReleaseStrong, Begin
    <3>3. CASE DestroyObject(t)
      BY <3>3 DEF DestroyObject, Goto
    <3>4. CASE DropWeakCount(t)
      BY <2>4, <3>4 DEF DropWeakCount, Begin
    <3> QED
      BY <1>3, <3>1, <3>2, <3>3, <3>4
  <2> QED
    BY <2>1, <2>2, <2>3, <2>5 DEF LockedCompare
<1>4. CASE LockCas(t) \/ LockRetry(t)
  <2>1. mutex # t /\ mutex' = mutex
    BY <1>4 DEF LockCas, LockRetry, CallInv, At
  <2>2. \A u \in Threads : u # t => call'[u] = call[u]
    BY <1>4 DEF LockCas, LockRetry, Begin
  <2> QED
    BY <2>1, <2>2 DEF LockedCompare
<1>5. CASE AtomicLock(t) \/ AtomicLoad(t) \/ AtomicSwap(t) \/ AtomicMismatch(t)
  <2>1. /\ mutex' = t
        /\ call'[t].pc \in {"body", "unlock"} \/ call'[t].kind = "compare"
    BY <1>5 DEF AtomicLock, AtomicLoad, AtomicSwap, AtomicMismatch, CallInv, At, Goto
  <2> QED
    BY <2>1, SharedPtrAssumption DEF LockedCompare
<1>6. CASE AtomicUnlock(t)
  BY <1>6, SharedPtrAssumption DEF AtomicUnlock, LockedCompare
<1> QED
  BY <1>1, <1>2, <1>3, <1>4, <1>5, <1>6 DEF Start, Continue

\* The destructor of an object runs with shared_ptr_atomic_mutex held only from
\* the operator= of atomic_compare_exchange.
THEOREM DestroyedUnlocked == Spec => []DestroyUnlocked
<1>1. Init => LockedCompare
  BY SharedPtrAssumption DEF Init, LockedCompare
<1>2. LockedCompare => DestroyUnlocked
  BY DEF LockedCompare, DestroyUnlocked, At
<1> QED
  BY <1>1, <1>2, LockedCompareStep, InductiveInvariant, PTL DEF Spec
=============================================================================
