---------------------------- MODULE PyHeapProofs ----------------------------
(***************************************************************************)
(* What each step of PyHeap preserves, for any finite sets of PyPtrs and   *)
(* cells. A good heap is well typed, the objects of F and no others were   *)
(* used after they were freed, and its counts are accounted for: by the    *)
(* places that own a reference, and by at least s[o] references to o that  *)
(* were leaked; if `exact' is TRUE, by no others. The locals of N point at *)
(* nothing.                                                                *)
(***************************************************************************)
EXTENDS PyHeap, FiniteSetTheorems, TLAPS

Accounted(h, s, exact) ==
  \A o \in Obj :
    /\ s[o] \in Nat /\ h.cnt[o] \in Nat
    /\ h.cnt[o] >= Cardinality(Holders(h, o)) + s[o]
    /\ exact => h.cnt[o] <= Cardinality(Holders(h, o)) + s[o]

\* The locals that are dead, and the PyPtrs that do not exist.
Nulls(h, N) ==
  /\ N \subseteq Local
  /\ \A p \in N \cup (Ptr \ h.live) : h.ref[p] = NULL

GoodHeap(h, N, s, F, exact) ==
  /\ h \in Heap /\ h.root \subseteq h.live /\ h.fault = F
  /\ Nulls(h, N)
  /\ Accounted(h, s, exact)

\* h2 differs from h in what place p points at: v.
Repoints(h, h2, p, v) == h2.ref = [h.ref EXCEPT ![p] = v]

\* The change of an object's holders that goes with it.
Delta(h, p, v, x) ==
  (IF v = x THEN 1 ELSE 0) - (IF h.ref[p] = x THEN 1 ELSE 0)

-----------------------------------------------------------------------------
(* Places and holders.                                                     *)

LEMMA LocalFinite == IsFiniteSet(Local)
<1>1. IsFiniteSet(1..MaxDepth)
  BY HeapAssumption, FS_Interval
<1>2. IsFiniteSet({"first"} \cup {"second"} \cup {"callee"})
  BY FS_Singleton, FS_Union
<1>3. IsFiniteSet({"iter"} \cup {"result"} \cup {"error"})
  BY FS_Singleton, FS_Union
<1>4. IsFiniteSet(SlotName)
  <2>1. SlotName = ({"first"} \cup {"second"} \cup {"callee"})
                     \cup ({"iter"} \cup {"result"} \cup {"error"})
    BY DEF SlotName
  <2> QED BY <1>2, <1>3, <2>1, FS_Union
<1> QED BY <1>1, <1>4, FS_Product DEF Local

LEMMA PlaceFinite == IsFiniteSet(Place)
  BY LocalFinite, HeapAssumption, FS_Union DEF Place

\* The holders of an object are finitely many.
LEMMA HoldersFinite ==
  ASSUME NEW h, NEW o
  PROVE  /\ IsFiniteSet(Holders(h, o))
         /\ Cardinality(Holders(h, o)) \in Nat
  BY PlaceFinite, FS_Subset, FS_CardinalityType DEF Holders

\* What an owner points at is allocated.
LEMMA HeldIsCounted ==
  ASSUME NEW h, NEW N, NEW s, NEW F, NEW exact, GoodHeap(h, N, s, F, exact),
         NEW p \in Place, h.ref[p] # NULL
  PROVE  h.ref[p] \in Obj /\ h.cnt[h.ref[p]] > 0
<1> DEFINE o == h.ref[p]
<1>1. o \in Obj
  BY DEF GoodHeap, Heap
<1>2. p \in Holders(h, o)
  BY DEF Holders
<1>3. Cardinality(Holders(h, o)) > 0
  <2>1. Holders(h, o) # {}
    BY <1>2
  <2> QED BY <2>1, HoldersFinite, FS_EmptySet
<1> QED BY <1>1, <1>3, HoldersFinite DEF GoodHeap, Accounted

\* One place changes: its new object gains a holder, its old one loses one.
LEMMA HoldersChange ==
  ASSUME NEW h, h.ref \in [Place -> Obj \cup {NULL}],
         NEW p \in Place, NEW v,
         NEW h2, Repoints(h, h2, p, v),
         NEW o
  PROVE  Cardinality(Holders(h2, o)) = Cardinality(Holders(h, o)) + Delta(h, p, v, o)
<1> USE DEF Repoints, Delta
<1> DEFINE S == Holders(h, o)
           T == Holders(h2, o)
<1>1. IsFiniteSet(S) /\ Cardinality(S) \in Nat
  BY HoldersFinite
<1>2. CASE v = o /\ h.ref[p] = o
  <2>1. T = S
    BY <1>2 DEF Holders
  <2> QED BY <1>1, <1>2, <2>1
<1>3. CASE v = o /\ h.ref[p] # o
  <2>1. T = S \cup {p} /\ p \notin S
    BY <1>3 DEF Holders
  <2> HIDE DEF S, T
  <2>2. Cardinality(T) = Cardinality(S) + 1
    BY <1>1, <2>1, FS_AddElement
  <2> QED BY <1>1, <1>3, <2>2 DEF S, T
<1>4. CASE v # o /\ h.ref[p] = o
  <2>1. T = S \ {p} /\ p \in S
    BY <1>4 DEF Holders
  <2> HIDE DEF S, T
  <2>2. Cardinality(T) = Cardinality(S) - 1
    BY <1>1, <2>1, FS_RemoveElement
  <2> QED BY <1>1, <1>4, <2>2 DEF S, T
<1>5. CASE v # o /\ h.ref[p] # o
  <2>1. T = S
    BY <1>5 DEF Holders
  <2> QED BY <1>1, <1>5, <2>1
<1> QED BY <1>2, <1>3, <1>4, <1>5

LEMMA HeapRecord ==
  ASSUME NEW h \in Heap
  PROVE  /\ h.ref \in [Place -> Obj \cup {NULL}]
         /\ h.cnt \in [Obj -> Int]
         /\ h.fault \subseteq Obj /\ h.live \subseteq Ptr /\ h.root \subseteq Ptr
  BY DEF Heap

-----------------------------------------------------------------------------
(* The elementary steps.                                                   *)

\* The steps keep a heap a heap.
LEMMA BorrowHeap ==
  ASSUME NEW h \in Heap, NEW p \in Place, NEW o \in Obj \cup {NULL}
  PROVE  Borrow(h, p, o) \in Heap
BY DEF Heap, Borrow

LEMMA ForgetHeap ==
  ASSUME NEW h \in Heap, NEW p \in Place
  PROVE  Forget(h, p) \in Heap
BY DEF Heap, Forget

LEMMA BumpHeap ==
  ASSUME NEW h \in Heap, NEW o \in Obj
  PROVE  Bump(h, o) \in Heap
<1>1. [h.cnt EXCEPT ![o] = h.cnt[o] + 1] \in [Obj -> Int]
  BY HeapRecord
<1>2. (IF h.cnt[o] > 0 THEN h.fault ELSE h.fault \cup {o}) \in SUBSET Obj
  BY HeapRecord
<1> QED BY <1>1, <1>2 DEF Heap, Bump

LEMMA TakeHeap ==
  ASSUME NEW h \in Heap, NEW p \in Place, NEW o \in Obj
  PROVE  Take(h, p, o) \in Heap
BY BumpHeap, BorrowHeap DEF Take

LEMMA NewHeap ==
  ASSUME NEW h \in Heap, NEW p \in Place, NEW o \in Obj
  PROVE  New(h, p, o) \in Heap
<1>1. [h.cnt EXCEPT ![o] = 1] \in [Obj -> Int]
  BY HeapRecord
<1>2. [h.ref EXCEPT ![p] = o] \in [Place -> Obj \cup {NULL}]
  BY HeapRecord
<1> QED BY <1>1, <1>2 DEF Heap, New

LEMMA DropHeap ==
  ASSUME NEW h \in Heap, NEW p \in Place
  PROVE  Drop(h, p) \in Heap
<1> DEFINE o == h.ref[p]
<1>1. CASE o = NULL
  BY <1>1 DEF Drop
<1>2. CASE o # NULL
  <2>1. o \in Obj
    BY <1>2, HeapRecord
  <2>2. [h.cnt EXCEPT ![o] = h.cnt[o] - 1] \in [Obj -> Int]
    BY <2>1, HeapRecord
  <2>3. [h.ref EXCEPT ![p] = NULL] \in [Place -> Obj \cup {NULL}]
    BY HeapRecord
  <2>4. (IF h.cnt[o] > 0 THEN h.fault ELSE h.fault \cup {o}) \in SUBSET Obj
    BY <2>1, HeapRecord
  <2> QED BY <1>2, <2>2, <2>3, <2>4 DEF Heap, Drop
<1> QED BY <1>1, <1>2

-----------------------------------------------------------------------------
(* One place changes, and the counts of the two objects with it.           *)

LEMMA DeltaType ==
  ASSUME NEW h, NEW p, NEW v, NEW x
  PROVE  Delta(h, p, v, x) \in Int
BY DEF Delta

LEMMA OneChangeAccounted ==
  ASSUME NEW h \in Heap, NEW s, NEW exact, Accounted(h, s, exact), NEW h2 \in Heap,
         NEW p \in Place, NEW v, Repoints(h, h2, p, v),
         \A x \in Obj : h2.cnt[x] >= h.cnt[x] + Delta(h, p, v, x),
         exact => \A x \in Obj : h2.cnt[x] <= h.cnt[x] + Delta(h, p, v, x)
  PROVE  Accounted(h2, s, exact)
<1>1. ASSUME NEW x \in Obj
      PROVE  /\ s[x] \in Nat /\ h2.cnt[x] \in Nat
             /\ h2.cnt[x] >= Cardinality(Holders(h2, x)) + s[x]
             /\ exact => h2.cnt[x] <= Cardinality(Holders(h2, x)) + s[x]
  <2>1. Cardinality(Holders(h2, x)) = Cardinality(Holders(h, x)) + Delta(h, p, v, x)
    BY HeapRecord, HoldersChange
  <2>2. Cardinality(Holders(h, x)) \in Nat /\ Cardinality(Holders(h2, x)) \in Nat
    BY HoldersFinite
  <2>3. h.cnt[x] \in Int /\ h2.cnt[x] \in Int /\ Delta(h, p, v, x) \in Int
    BY HeapRecord, DeltaType
  <2>4. /\ s[x] \in Nat /\ h.cnt[x] >= Cardinality(Holders(h, x)) + s[x]
        /\ exact => h.cnt[x] <= Cardinality(Holders(h, x)) + s[x]
    BY DEF Accounted
  <2>5. /\ h2.cnt[x] >= h.cnt[x] + Delta(h, p, v, x)
        /\ exact => h2.cnt[x] <= h.cnt[x] + Delta(h, p, v, x)
    OBVIOUS
  <2>6. h2.cnt[x] >= Cardinality(Holders(h2, x)) + s[x]
    BY <2>1, <2>2, <2>3, <2>4, <2>5
  <2>7. ASSUME exact
        PROVE  h2.cnt[x] <= Cardinality(Holders(h2, x)) + s[x]
    BY <2>1, <2>2, <2>3, <2>4, <2>5, <2>7
  <2> QED BY <2>2, <2>3, <2>4, <2>6, <2>7
<1> QED BY <1>1 DEF Accounted

\* One place changes; the PyPtrs and the faults do not.
LEMMA OneChangeNulls ==
  ASSUME NEW h \in Heap, NEW N, Nulls(h, N), NEW h2 \in Heap, h2.live = h.live,
         NEW p \in Place, NEW v, Repoints(h, h2, p, v)
  PROVE  /\ v = NULL => Nulls(h2, N)
         /\ v = NULL /\ p \in Local => Nulls(h2, N \cup {p})
         /\ (p \in Ptr => p \in h.live) => Nulls(h2, N \ {p})
<1>1. /\ h.ref \in [Place -> Obj \cup {NULL}] /\ N \subseteq Place /\ Ptr \subseteq Place
      /\ h2.ref = [h.ref EXCEPT ![p] = v]
  BY HeapRecord DEF Nulls, Repoints, Place
<1> QED BY <1>1, HeapAssumption DEF Nulls

LEMMA FewerNulls ==
  ASSUME NEW h, NEW N, NEW s, NEW F, NEW exact, GoodHeap(h, N, s, F, exact), NEW M \in SUBSET N
  PROVE  GoodHeap(h, M, s, F, exact)
BY DEF GoodHeap, Nulls

\* A forgotten pointer leaks what it pointed at.
LEMMA ForgetGood ==
  ASSUME NEW h, NEW N, NEW s, NEW F, NEW exact, GoodHeap(h, N, s, F, exact), NEW p \in Local,
         exact => h.ref[p] = NULL
  PROVE  GoodHeap(Forget(h, p), N \cup {p}, s, F, exact)
<1> DEFINE h2 == Forget(h, p)
<1>1. h \in Heap /\ h2 \in Heap /\ Accounted(h, s, exact) /\ p \in Place /\ Nulls(h, N)
  BY ForgetHeap DEF GoodHeap, Place
<1>2. /\ Repoints(h, h2, p, NULL) /\ h2.cnt = h.cnt
      /\ h2.live = h.live /\ h2.root = h.root /\ h2.fault = h.fault
  BY <1>1 DEF Heap, Forget, Repoints
<1>3. \A x \in Obj : h2.cnt[x] >= h.cnt[x] + Delta(h, p, NULL, x)
  BY <1>1, <1>2, HeapRecord, HeapAssumption DEF Delta
<1>4. exact => \A x \in Obj : h2.cnt[x] <= h.cnt[x] + Delta(h, p, NULL, x)
  BY <1>1, <1>2, HeapRecord, HeapAssumption DEF Delta
<1> HIDE DEF h2
<1>5. Accounted(h2, s, exact) /\ Nulls(h2, N \cup {p})
  BY <1>1, <1>2, <1>3, <1>4, OneChangeAccounted, OneChangeNulls
<1>6. GoodHeap(h2, N \cup {p}, s, F, exact)
  BY <1>1, <1>2, <1>5 DEF GoodHeap
<1> QED BY <1>6 DEF h2

\* What was freed when it was used.
Stale(h, o) == IF h.cnt[o] > 0 THEN {} ELSE {o}

LEMMA TakeAnyGood ==
  ASSUME NEW h, NEW N, NEW s, NEW F, NEW exact, GoodHeap(h, N, s, F, exact),
         NEW p \in Place, h.ref[p] = NULL, p \in Ptr => p \in h.live, NEW o \in Obj
  PROVE  /\ GoodHeap(Take(h, p, o), N \ {p}, s, F \cup Stale(h, o), exact)
         /\ Repoints(h, Take(h, p, o), p, o)
         /\ Take(h, p, o).ref[p] = o
         /\ \A x \in Obj : Take(h, p, o).cnt[x] >= h.cnt[x]
<1> DEFINE h2 == Take(h, p, o)
<1>1. h \in Heap /\ h2 \in Heap /\ Accounted(h, s, exact) /\ Nulls(h, N) /\ h.fault = F
  BY TakeHeap DEF GoodHeap
<1>2. /\ Repoints(h, h2, p, o) /\ h2.cnt = [h.cnt EXCEPT ![o] = @ + 1]
      /\ h2.live = h.live /\ h2.root = h.root /\ h2.fault = F \cup Stale(h, o)
  BY <1>1 DEF Heap, Take, Bump, Borrow, Repoints, Stale
<1> HIDE DEF h2
<1>3. \A x \in Obj : h2.cnt[x] = h.cnt[x] + (IF o = x THEN 1 ELSE 0)
  BY <1>1, <1>2, HeapRecord
<1>4. \A x \in Obj : h2.cnt[x] = h.cnt[x] + Delta(h, p, o, x)
  BY <1>1, <1>3, HeapRecord, HeapAssumption DEF Delta
<1>5. \A x \in Obj : /\ h2.cnt[x] >= h.cnt[x] + Delta(h, p, o, x)
                     /\ h2.cnt[x] <= h.cnt[x] + Delta(h, p, o, x)
  BY <1>1, <1>4, HeapRecord, DeltaType
<1>6. Accounted(h2, s, exact) /\ Nulls(h2, N \ {p})
  BY <1>1, <1>2, <1>5, OneChangeAccounted, OneChangeNulls
<1>7. GoodHeap(h2, N \ {p}, s, F \cup Stale(h, o), exact)
  BY <1>1, <1>2, <1>6 DEF GoodHeap
<1>8. h2.ref[p] = o
  BY <1>1, <1>2, HeapRecord DEF Repoints
<1>9. \A x \in Obj : h2.cnt[x] >= h.cnt[x]
  BY <1>1, <1>3, HeapRecord
<1> QED BY <1>2, <1>7, <1>8, <1>9 DEF h2

LEMMA TakeGood ==
  ASSUME NEW h, NEW N, NEW s, NEW F, NEW exact, GoodHeap(h, N, s, F, exact),
         NEW p \in Place, h.ref[p] = NULL, p \in Ptr => p \in h.live,
         NEW o \in Obj, h.cnt[o] > 0
  PROVE  /\ GoodHeap(Take(h, p, o), N \ {p}, s, F, exact)
         /\ Repoints(h, Take(h, p, o), p, o)
         /\ Take(h, p, o).ref[p] = o
         /\ \A x \in Obj : Take(h, p, o).cnt[x] >= h.cnt[x]
<1>1. F \cup Stale(h, o) = F
  BY DEF Stale
<1> QED BY <1>1, TakeAnyGood

LEMMA NewGood ==
  ASSUME NEW h, NEW N, NEW s, NEW F, NEW exact, GoodHeap(h, N, s, F, exact),
         NEW p \in Place, h.ref[p] = NULL, p \in Ptr => p \in h.live, NEW o \in Free(h)
  PROVE  GoodHeap(New(h, p, o), N \ {p}, s, F, exact) /\ Repoints(h, New(h, p, o), p, o)
<1> DEFINE h2 == New(h, p, o)
<1>1. /\ h \in Heap /\ h2 \in Heap /\ Accounted(h, s, exact) /\ Nulls(h, N)
      /\ o \in Obj /\ h.cnt[o] = 0
  BY NewHeap DEF GoodHeap, Free
<1>2. /\ Repoints(h, h2, p, o) /\ h2.cnt = [h.cnt EXCEPT ![o] = 1]
      /\ h2.live = h.live /\ h2.root = h.root /\ h2.fault = h.fault
  BY <1>1 DEF Heap, New, Repoints
<1> HIDE DEF h2
<1>3. \A x \in Obj : h2.cnt[x] = h.cnt[x] + (IF o = x THEN 1 ELSE 0)
  BY <1>1, <1>2, HeapRecord
<1>4. \A x \in Obj : h2.cnt[x] = h.cnt[x] + Delta(h, p, o, x)
  BY <1>1, <1>3, HeapRecord, HeapAssumption DEF Delta
<1>5. \A x \in Obj : /\ h2.cnt[x] >= h.cnt[x] + Delta(h, p, o, x)
                     /\ h2.cnt[x] <= h.cnt[x] + Delta(h, p, o, x)
  BY <1>1, <1>4, HeapRecord, DeltaType
<1>6. Accounted(h2, s, exact) /\ Nulls(h2, N \ {p})
  BY <1>1, <1>2, <1>5, OneChangeAccounted, OneChangeNulls
<1>7. GoodHeap(h2, N \ {p}, s, F, exact)
  BY <1>1, <1>2, <1>6 DEF GoodHeap
<1> QED BY <1>2, <1>7 DEF h2

LEMMA DropGood ==
  ASSUME NEW h, NEW N, NEW s, NEW F, NEW exact, GoodHeap(h, N, s, F, exact), NEW p \in Place
  PROVE  /\ GoodHeap(Drop(h, p), N, s, F, exact)
         /\ p \in Local => GoodHeap(Drop(h, p), N \cup {p}, s, F, exact)
         /\ Repoints(h, Drop(h, p), p, NULL)
         /\ Drop(h, p).live = h.live /\ Drop(h, p).root = h.root
<1> DEFINE o == h.ref[p]
           h2 == Drop(h, p)
<1>0. h \in Heap /\ h2 \in Heap /\ Accounted(h, s, exact) /\ Nulls(h, N)
  BY DropHeap DEF GoodHeap
<1>1. CASE o = NULL
  <2>1. h2 = h
    BY <1>1 DEF Drop
  <2>2. Repoints(h, h, p, NULL)
    BY <1>0, <1>1, HeapRecord DEF Repoints
  <2>3. p \in Local => Nulls(h, N \cup {p})
    BY <1>0, <1>1 DEF Nulls
  <2> QED BY <2>1, <2>2, <2>3 DEF GoodHeap
<1>2. CASE o # NULL
  <2>1. o \in Obj /\ h.cnt[o] > 0
    BY <1>2, HeldIsCounted
  <2>3. /\ Repoints(h, h2, p, NULL) /\ h2.cnt = [h.cnt EXCEPT ![o] = @ - 1]
        /\ h2.live = h.live /\ h2.root = h.root /\ h2.fault = h.fault
    BY <1>0, <1>2, <2>1 DEF Heap, Drop, Repoints
  <2> HIDE DEF h2
  <2>4. \A x \in Obj : h2.cnt[x] = h.cnt[x] - (IF o = x THEN 1 ELSE 0)
    BY <1>0, <2>1, <2>3, HeapRecord
  <2>5. \A x \in Obj : h2.cnt[x] = h.cnt[x] + Delta(h, p, NULL, x)
    BY <1>0, <2>1, <2>4, HeapRecord, HeapAssumption DEF Delta
  <2>6. \A x \in Obj : /\ h2.cnt[x] >= h.cnt[x] + Delta(h, p, NULL, x)
                       /\ h2.cnt[x] <= h.cnt[x] + Delta(h, p, NULL, x)
    BY <1>0, <2>5, HeapRecord, DeltaType
  <2>7. Accounted(h2, s, exact) /\ Nulls(h2, N) /\ (p \in Local => Nulls(h2, N \cup {p}))
    BY <1>0, <2>3, <2>6, OneChangeAccounted, OneChangeNulls
  <2>8. /\ GoodHeap(h2, N, s, F, exact)
        /\ p \in Local => GoodHeap(h2, N \cup {p}, s, F, exact)
    BY <1>0, <2>3, <2>7 DEF GoodHeap
  <2> QED BY <2>3, <2>8 DEF h2
<1> QED BY <1>1, <1>2

\* The reference of a local becomes that of a place that had none.
LEMMA MoveGood ==
  ASSUME NEW h, NEW N, NEW s, NEW F, NEW exact, GoodHeap(h, N, s, F, exact),
         NEW p \in Local, NEW q \in Place, p # q,
         h.ref[q] = NULL, q \in Ptr => q \in h.live
  PROVE  GoodHeap(Move(h, p, q), (N \cup {p}) \ {q}, s, F, exact)
<1> DEFINE o == h.ref[p]
           h1 == Forget(h, p)
           h2 == Borrow(h1, q, o)
<1>1. /\ h \in Heap /\ p \in Place /\ h1 \in Heap /\ o \in Obj \cup {NULL}
      /\ Accounted(h, s, exact) /\ Nulls(h, N)
  BY ForgetHeap, HeapRecord DEF GoodHeap, Place
<1>2. h2 \in Heap
  BY <1>1, BorrowHeap
<1>3. Repoints(h, h1, p, NULL) /\ h1.cnt = h.cnt /\ h1.live = h.live
  BY <1>1 DEF Heap, Forget, Repoints
<1>4. /\ h2.cnt = h.cnt /\ h2.live = h.live /\ h2.root = h.root
      /\ h2.fault = h.fault
  BY <1>1 DEF Heap, Forget, Borrow
<1>5. Repoints(h1, h2, q, o)
  BY <1>1 DEF Heap, Borrow, Repoints
<1> HIDE DEF h1, h2
<1>6. h1.ref[q] = NULL
  BY <1>1, <1>3, HeapRecord DEF Repoints
<1>7. ASSUME NEW x \in Obj
      PROVE  Cardinality(Holders(h2, x)) = Cardinality(Holders(h, x))
  <2>1. Cardinality(Holders(h1, x)) = Cardinality(Holders(h, x)) + Delta(h, p, NULL, x)
    BY <1>1, <1>3, HeapRecord, HoldersChange
  <2>2. Cardinality(Holders(h2, x)) = Cardinality(Holders(h1, x)) + Delta(h1, q, o, x)
    BY <1>1, <1>5, HeapRecord, HoldersChange
  <2>3. Delta(h, p, NULL, x) + Delta(h1, q, o, x) = 0
    BY <1>6, HeapAssumption DEF Delta
  <2>4. Delta(h, p, NULL, x) \in Int /\ Delta(h1, q, o, x) \in Int
    BY DeltaType
  <2>5. Cardinality(Holders(h, x)) \in Nat /\ Cardinality(Holders(h2, x)) \in Nat
    BY HoldersFinite
  <2> QED BY <2>1, <2>2, <2>3, <2>4, <2>5
<1>8. Accounted(h2, s, exact)
  BY <1>1, <1>4, <1>7 DEF Accounted
<1>9. Nulls(h1, N \cup {p})
  BY <1>1, <1>3, OneChangeNulls
<1>10. Nulls(h2, (N \cup {p}) \ {q})
  BY <1>1, <1>2, <1>3, <1>4, <1>5, <1>9, OneChangeNulls
<1>11. GoodHeap(h2, (N \cup {p}) \ {q}, s, F, exact)
  BY <1>2, <1>4, <1>8, <1>10 DEF GoodHeap
<1> QED BY <1>11 DEF Move, h1, h2

\* One more reference without an owner: a leak is not a fault.
LEMMA BumpGood ==
  ASSUME NEW h, NEW N, NEW s, NEW F, GoodHeap(h, N, s, F, FALSE), NEW o \in Obj, h.cnt[o] > 0
  PROVE  GoodHeap(Bump(h, o), N, s, F, FALSE)
<1> DEFINE h2 == Bump(h, o)
<1>1. h \in Heap /\ h2 \in Heap /\ Accounted(h, s, FALSE) /\ Nulls(h, N)
  BY BumpHeap DEF GoodHeap
<1>2. /\ h2.ref = h.ref /\ h2.cnt = [h.cnt EXCEPT ![o] = @ + 1]
      /\ h2.live = h.live /\ h2.root = h.root /\ h2.fault = h.fault
  BY <1>1 DEF Heap, Bump
<1>3. \A x : Holders(h2, x) = Holders(h, x)
  BY <1>2 DEF Holders
<1> HIDE DEF h2
<1>4. ASSUME NEW x \in Obj
      PROVE  /\ s[x] \in Nat /\ h2.cnt[x] \in Nat
             /\ h2.cnt[x] >= Cardinality(Holders(h2, x)) + s[x]
  <2>1. h2.cnt[x] = (IF x = o THEN h.cnt[x] + 1 ELSE h.cnt[x])
    BY <1>1, <1>2, HeapRecord
  <2>2. /\ h.cnt[x] >= Cardinality(Holders(h, x)) + s[x] /\ h.cnt[x] \in Nat
        /\ s[x] \in Nat
    BY <1>1 DEF Accounted
  <2>3. Cardinality(Holders(h, x)) \in Nat /\ Holders(h2, x) = Holders(h, x)
    BY <1>3, HoldersFinite
  <2> QED BY <2>1, <2>2, <2>3
<1>5. Accounted(h2, s, FALSE)
  BY <1>4 DEF Accounted
<1>6. Nulls(h2, N)
  BY <1>1, <1>2 DEF Nulls
<1>7. GoodHeap(h2, N, s, F, FALSE)
  BY <1>1, <1>2, <1>5, <1>6 DEF GoodHeap
<1> QED BY <1>7 DEF h2

\* What changes only which PyPtrs exist or are reachable.
LEMMA SameReferencesGood ==
  ASSUME NEW h, NEW N, NEW s, NEW F, NEW exact, GoodHeap(h, N, s, F, exact),
         NEW h2 \in Heap, h2.ref = h.ref, h2.cnt = h.cnt,
         h2.fault = h.fault, h2.root \subseteq h2.live,
         \A p \in Ptr \ h2.live : h.ref[p] = NULL
  PROVE  GoodHeap(h2, N, s, F, exact)
<1>1. \A x : Holders(h2, x) = Holders(h, x)
  BY DEF Holders
<1>2. Accounted(h2, s, exact)
  BY <1>1 DEF GoodHeap, Accounted
<1>3. Nulls(h2, N)
  BY DEF GoodHeap, Nulls
<1> QED BY <1>2, <1>3 DEF GoodHeap

LEMMA WrapGood ==
  ASSUME NEW h, NEW N, NEW s, NEW F, NEW exact, GoodHeap(h, N, s, F, exact), NEW p \in Ptr
  PROVE  /\ GoodHeap(Wrap(h, p), N, s, F, exact)
         /\ Wrap(h, p).ref = h.ref /\ Wrap(h, p).cnt = h.cnt
         /\ p \in Wrap(h, p).live
<1>1. h \in Heap /\ h.root \subseteq h.live /\ Nulls(h, N)
  BY DEF GoodHeap
<1>2. Wrap(h, p) \in Heap
  BY <1>1 DEF Heap, Wrap
<1>3. /\ Wrap(h, p).ref = h.ref /\ Wrap(h, p).cnt = h.cnt
      /\ Wrap(h, p).fault = h.fault /\ Wrap(h, p).root \subseteq Wrap(h, p).live
      /\ Wrap(h, p).live = h.live \cup {p}
  BY <1>1 DEF Heap, Wrap
<1>4. \A q \in Ptr \ Wrap(h, p).live : h.ref[q] = NULL
  BY <1>1, <1>3 DEF Nulls
<1> QED BY <1>2, <1>3, <1>4, SameReferencesGood

LEMMA UnrootGood ==
  ASSUME NEW h, NEW N, NEW s, NEW F, NEW exact, GoodHeap(h, N, s, F, exact), NEW p
  PROVE  GoodHeap([h EXCEPT !.root = @ \ {p}], N, s, F, exact)
<1> DEFINE h2 == [h EXCEPT !.root = @ \ {p}]
<1>1. /\ h2 \in Heap /\ h2.ref = h.ref /\ h2.cnt = h.cnt /\ h2.fault = h.fault
      /\ h2.root \subseteq h2.live /\ h2.live = h.live
  BY DEF GoodHeap, Heap
<1>2. \A q \in Ptr \ h2.live : h.ref[q] = NULL
  BY <1>1 DEF GoodHeap, Nulls
<1> HIDE DEF h2
<1>3. GoodHeap(h2, N, s, F, exact)
  BY <1>1, <1>2, SameReferencesGood
<1> QED BY <1>3 DEF h2

LEMMA PtrFreeGood ==
  ASSUME NEW h, NEW N, NEW s, NEW F, NEW exact, GoodHeap(h, N, s, F, exact), NEW p \in Ptr
  PROVE  GoodHeap(PtrFree(h, p), N, s, F, exact)
<1> DEFINE h1 == Drop(h, p)
<1>0. GoodHeap(h1, N, s, F, exact) /\ Repoints(h, h1, p, NULL) /\ p \in Place
  BY DropGood DEF Place
<1>1. /\ GoodHeap(h1, N, s, F, exact) /\ h1 \in Heap /\ h1.root \subseteq h1.live
      /\ Nulls(h1, N) /\ Repoints(h, h1, p, NULL) /\ p \in Place /\ h \in Heap
  BY <1>0 DEF GoodHeap
<1>2. h1.ref[p] = NULL
  BY <1>1, HeapRecord DEF Repoints
<1> HIDE DEF h1
<1> DEFINE h2 == [h1 EXCEPT !.live = @ \ {p}, !.root = @ \ {p}]
<1>3. /\ h2 \in Heap /\ h2.ref = h1.ref /\ h2.cnt = h1.cnt
      /\ h2.fault = h1.fault /\ h2.root \subseteq h2.live
      /\ h2.live = h1.live \ {p}
  BY <1>1 DEF Heap
<1>4. \A q \in Ptr \ h2.live : h1.ref[q] = NULL
  BY <1>1, <1>2, <1>3 DEF Nulls
<1>5. GoodHeap(h2, N, s, F, exact)
  BY <1>1, <1>3, <1>4, SameReferencesGood
<1> QED BY <1>5 DEF PtrFree, h1

-----------------------------------------------------------------------------
(* Conversions.                                                            *)

\* What was freed when it was converted.
StaleOf(h, o) == IF o \in Obj \ ByValue THEN Stale(h, o) ELSE {}

\* Converting an object releases nothing, and changes no cell and no local.
LEMMA ToRubyAnyGood ==
  ASSUME NEW h, NEW N, NEW s, NEW F, NEW exact, GoodHeap(h, N, s, F, exact),
         NEW o, NEW h2 \in ToRuby(h, o)
  PROVE  /\ GoodHeap(h2, N, s, F \cup StaleOf(h, o), exact)
         /\ \A x \in Obj : h2.cnt[x] >= h.cnt[x]
         /\ \A x \in Cell \cup Local : h2.ref[x] = h.ref[x]
<1>0. h \in Heap /\ Nulls(h, N)
  BY DEF GoodHeap
<1>1. CASE o \in Obj \ ByValue
  <2>1. PICK p \in Ptr \ h.live : h2 = Take(Wrap(h, p), p, o)
    BY <1>1 DEF ToRuby
  <2> DEFINE w == Wrap(h, p)
             G == F \cup Stale(h, o)
  <2>2. /\ GoodHeap(w, N, s, F, exact) /\ w.cnt = h.cnt
        /\ w.ref = h.ref /\ p \in w.live /\ h2 = Take(w, p, o)
    BY <2>1, WrapGood
  <2>3. w.ref[p] = NULL /\ p \in Place /\ p \notin Local /\ p \notin Cell
    BY <1>0, <2>2, HeapAssumption DEF Nulls, Place
  <2>4. N \ {p} = N
    BY <1>0, <2>3 DEF Nulls
  <2>5. Stale(w, o) = Stale(h, o)
    BY <2>2 DEF Stale
  <2> HIDE DEF w
  <2>6. /\ GoodHeap(h2, N \ {p}, s, F \cup Stale(w, o), exact) /\ Repoints(w, h2, p, o)
        /\ \A x \in Obj : h2.cnt[x] >= w.cnt[x]
    BY <1>1, <2>2, <2>3, TakeAnyGood
  <2>7. GoodHeap(h2, N, s, G, exact) /\ \A x \in Obj : h2.cnt[x] >= h.cnt[x]
    BY <2>2, <2>4, <2>5, <2>6
  <2>8. h2.ref = [h.ref EXCEPT ![p] = o] /\ h.ref \in [Place -> Obj \cup {NULL}]
    BY <1>0, <2>2, <2>6, HeapRecord DEF Repoints
  <2>9. \A x \in Cell \cup Local : h2.ref[x] = h.ref[x]
    BY <2>3, <2>8 DEF Place
  <2>10. StaleOf(h, o) = Stale(h, o)
    BY <1>1 DEF StaleOf
  <2> QED BY <2>7, <2>9, <2>10
<1>2. CASE o \notin Obj \ ByValue
  <2>1. h2 = h
    BY <1>2 DEF ToRuby
  <2>2. \A x \in Obj : h.cnt[x] \in Int
    BY <1>0, HeapRecord
  <2>3. F \cup StaleOf(h, o) = F
    BY <1>2 DEF StaleOf
  <2> QED BY <2>1, <2>2, <2>3
<1> QED BY <1>1, <1>2

\* An object is converted while someone owns it.
LEMMA ToRubyGood ==
  ASSUME NEW h, NEW N, NEW s, NEW F, NEW exact, GoodHeap(h, N, s, F, exact),
         NEW o, o \in Obj => h.cnt[o] > 0, NEW h2 \in ToRuby(h, o)
  PROVE  /\ GoodHeap(h2, N, s, F, exact)
         /\ \A x \in Obj : h2.cnt[x] >= h.cnt[x]
         /\ \A x \in Cell \cup Local : h2.ref[x] = h.ref[x]
<1>1. F \cup StaleOf(h, o) = F
  BY DEF StaleOf, Stale
<1> QED BY <1>1, ToRubyAnyGood

\* A new reference at q.
LEMMA FromRubyGood ==
  ASSUME NEW h, NEW N, NEW s, NEW F, NEW exact, GoodHeap(h, N, s, F, exact),
         NEW q \in Place, h.ref[q] = NULL, q \in Ptr => q \in h.live,
         NEW h2 \in FromRuby(h, q)
  PROVE  GoodHeap(h2, N \ {q}, s, F, exact) /\ \E o \in Obj : Repoints(h, h2, q, o)
<1>1. CASE \E p \in Ptr : h.ref[p] # NULL /\ h2 = Take(h, q, h.ref[p])
  <2>1. PICK p \in Ptr : h.ref[p] # NULL /\ h2 = Take(h, q, h.ref[p])
    BY <1>1
  <2>2. p \in Place
    BY DEF Place
  <2> QED BY <2>1, <2>2, HeldIsCounted, TakeGood
<1>2. CASE \E o \in Free(h) : h2 = New(h, q, o)
  BY <1>2, NewGood DEF Free
<1>3. CASE \E o \in Held(h) : h2 = Take(h, q, o)
  <2>1. PICK p \in Place : h.ref[p] # NULL /\ h2 = Take(h, q, h.ref[p])
    BY <1>3 DEF Held
  <2> QED BY <2>1, HeldIsCounted, TakeGood
<1> QED BY <1>1, <1>2, <1>3, HeapRecord DEF FromRuby, GoodHeap

LEMMA PyGiveGood ==
  ASSUME NEW h, NEW N, NEW s, NEW F, NEW exact, GoodHeap(h, N, s, F, exact),
         NEW q \in Place, h.ref[q] = NULL, q \in Ptr => q \in h.live,
         NEW from \in SUBSET Held(h), NEW h2 \in PyGive(h, q, from)
  PROVE  GoodHeap(h2, N \ {q}, s, F, exact)
<1>1. CASE \E o \in Free(h) : h2 = New(h, q, o)
  BY <1>1, NewGood
<1>2. CASE \E o \in Held(h) : h2 = Take(h, q, o)
  <2>1. PICK p \in Place : h.ref[p] # NULL /\ h2 = Take(h, q, h.ref[p])
    BY <1>2 DEF Held
  <2> QED BY <2>1, HeldIsCounted, TakeGood
<1> QED BY <1>1, <1>2 DEF PyGive

\* A PyPtr may be allocated before or after a value is converted.
LEMMA WrapNew ==
  ASSUME NEW h \in Heap, NEW p \in Ptr, NEW q \in Place, NEW o \in Obj
  PROVE  Wrap(New(h, q, o), p) = New(Wrap(h, p), q, o)
BY DEF Heap, Wrap, New

LEMMA WrapFirst ==
  ASSUME NEW h \in Heap, NEW p \in Ptr, NEW q \in Place, NEW h2 \in FromRuby(h, q)
  PROVE  Wrap(h2, p) \in FromRuby(Wrap(h, p), q)
<1> DEFINE w == Wrap(h, p)
<1>1. /\ w.ref = h.ref /\ w.cnt = h.cnt /\ w.fault = h.fault
      /\ w.root = h.root \cup {p} /\ w.live = h.live \cup {p}
  BY DEF Heap, Wrap
<1>2. ASSUME NEW o \in Obj
      PROVE  /\ Wrap(Take(h, q, o), p) = Take(w, q, o)
             /\ Wrap(New(h, q, o), p) = New(w, q, o)
  <2>1. Wrap(Take(h, q, o), p) = Take(w, q, o)
    <3> DEFINE b == Bump(h, o)
    <3>1. Wrap(b, p) = Bump(w, o)
      BY DEF Heap, Wrap, Bump
    <3>2. b \in Heap
      BY BumpHeap
    <3> HIDE DEF b
    <3>3. Wrap(Borrow(b, q, o), p) = Borrow(Wrap(b, p), q, o)
      BY <3>2 DEF Heap, Wrap, Borrow
    <3>4. QED
      BY <3>1, <3>3 DEF Take, b
  <2>2. Wrap(New(h, q, o), p) = New(w, q, o)
    BY WrapNew
  <2>3. QED
    BY <2>1, <2>2
<1>3. Free(w) = Free(h) /\ Held(w) = Held(h)
  BY <1>1 DEF Free, Held
<1> HIDE DEF w
<1>4. CASE \E r \in h.root : h.ref[r] # NULL /\ h2 = Take(h, q, h.ref[r])
  <2>1. PICK r \in h.root : h.ref[r] # NULL /\ h2 = Take(h, q, h.ref[r])
    BY <1>4
  <2>2. h.ref[r] \in Obj
    BY <2>1, HeapRecord DEF Place
  <2> QED BY <1>1, <1>2, <2>1, <2>2 DEF FromRuby, w
<1>5. CASE \E o \in Free(h) : h2 = New(h, q, o)
  BY <1>2, <1>3, <1>5 DEF FromRuby, Free, w
<1>6. CASE \E o \in ByValue \cap Held(h) : h2 = Take(h, q, o)
  BY <1>2, <1>3, <1>6, HeapAssumption DEF FromRuby, w
<1> QED BY <1>4, <1>5, <1>6 DEF FromRuby

=============================================================================
