---------------------------- MODULE GCGuardProofs ----------------------------
(***************************************************************************)
(* The guard, for any number of Ruby objects, PyRubys and references, with *)
(* or without cycles through both heaps: a Ruby object that Python refers  *)
(* to is never swept, the table forgets what is gone, and the table itself *)
(* is not used after it was freed.                                         *)
(*                                                                         *)
(* The argument is the collector's: the slots that are used and not white  *)
(* are closed under references, and hold the roots and everything guarded. *)
(* A mark keeps what it reaches, so nothing guarded turns white.           *)
(***************************************************************************)
EXTENDS GCGuard, TLAPS

TypeInv ==
  /\ kind \in [Slot -> {"free", "object", "pointer"}]
  /\ refers \in [Slot -> SUBSET Slot]
  /\ points \in [Slot -> PyRuby \cup {None}]
  /\ roots \subseteq Slot /\ white \subseteq Slot
  /\ wrapped \in [PyRuby -> Slot \cup {None}]
  /\ holders \in [PyRuby -> Nat]
  /\ local \in PyRuby \cup {None} /\ waiting \subseteq PyRuby
  /\ guard \in [PyRuby -> Slot \cup {None}]
  /\ ivar \in {"table", "nil"}
  /\ freed \in BOOLEAN /\ misused \in BOOLEAN /\ exiting \in BOOLEAN

\* The table, which only the end of the process frees.
TableInv ==
  /\ ~misused
  /\ freed => ivar = "nil"
  /\ Running => ivar = "table"

\* What the collector keeps.
Kept == Used \ white

HeapInv ==
  /\ white \subseteq Used
  /\ roots \subseteq Kept
  /\ Closed(Kept)
  /\ \A r \in Slot \ Used : refers[r] = {} /\ points[r] = None

\* An entry is the PyRuby's object, which is kept; what is referred to has one.
EntriesInv ==
  /\ \A w \in PyRuby : guard[w] # None => guard[w] = wrapped[w] /\ guard[w] \in Kept
  /\ \A w \in PyRuby : Referenced(w) => guard[w] = wrapped[w] /\ wrapped[w] # None
  /\ \A w \in waiting : ~Referenced(w) /\ wrapped[w] # None

IInv ==
  /\ TypeInv /\ TableInv /\ GuardForgets
  /\ Running => HeapInv /\ EntriesInv

-----------------------------------------------------------------------------
(* What refers to a PyRuby, and what is reached.                           *)

\* Whether anything refers to a PyRuby before a step, and after it.
Had(v) == holders[v] > 0 \/ local = v \/ \E r \in Slot : points[r] = v
Has(v) == holders'[v] > 0 \/ local' = v \/ \E r \in Slot : points'[r] = v

LEMMA ReferencedBy ==
  ASSUME NEW v
  PROVE  /\ Referenced(v) <=> Had(v)
         /\ Referenced(v)' <=> Has(v)
BY DEF Had, Has, Referenced, Pointers

LEMMA ForgetsNext ==
  GuardForgets' <=>
    (ivar' = "table" => \A v \in PyRuby : guard'[v] # None =>
                          Has(v) \/ v \in waiting')
BY DEF GuardForgets, Has, Referenced, Pointers

LEMMA EntriesNext ==
  EntriesInv' <=>
    /\ \A v \in PyRuby : guard'[v] # None => guard'[v] = wrapped'[v] /\ guard'[v] \in Kept'
    /\ \A v \in PyRuby : Has(v)
                           => guard'[v] = wrapped'[v] /\ wrapped'[v] # None
    /\ \A v \in waiting' : ~Has(v) /\ wrapped'[v] # None
BY DEF EntriesInv, Has, Referenced, Pointers

LEMMA ReachLeast ==
  ASSUME NEW S, NEW T \in SUBSET Slot, S \subseteq T, Closed(T)
  PROVE  Reach(S) \subseteq T
BY DEF Reach

LEMMA ReachClosed ==
  ASSUME TypeInv, NEW S \in SUBSET Slot
  PROVE  S \subseteq Reach(S) /\ Closed(Reach(S))
<1>1. S \subseteq Reach(S)
  BY DEF Reach
<1>2. ASSUME NEW r \in Reach(S), NEW q \in refers[r]
      PROVE  q \in Reach(S)
  <2>1. r \in Slot /\ q \in Slot
    BY DEF Reach, TypeInv
  <2> QED BY <1>2, <2>1 DEF Reach, Closed
<1> QED BY <1>1, <1>2 DEF Closed

\* What Ruby code or the guard reaches is kept.
LEMMA RootsReachKept ==
  ASSUME TypeInv, HeapInv
  PROVE  Reach(roots) \subseteq Kept /\ Kept \subseteq Slot
<1>1. Kept \in SUBSET Slot
  BY DEF Kept, Used
<1> QED BY <1>1, ReachLeast DEF HeapInv

-----------------------------------------------------------------------------
(* Types, and the table.                                                   *)

LEMMA DroppedTable ==
  ASSUME TypeInv, NEW w \in PyRuby, NEW last, Dropped(w, last)
  PROVE  /\ guard' \in [PyRuby -> Slot \cup {None}]
         /\ guard' = IF last THEN [guard EXCEPT ![w] = None] ELSE guard
         /\ ivar' = ivar /\ freed' = freed
         /\ misused' \in BOOLEAN
         /\ misused' => misused \/ (ivar = "table" /\ freed)
BY DEF TypeInv, Dropped, Dealloc, Delete, table

LEMMA NewTable ==
  ASSUME TypeInv, NEW w \in PyRuby, NEW r \in Slot, PyRubyNew(w, r)
  PROVE  /\ guard' \in [PyRuby -> Slot \cup {None}]
         /\ wrapped' \in [PyRuby -> Slot \cup {None}]
         /\ guard' = [guard EXCEPT ![w] = r] /\ wrapped' = [wrapped EXCEPT ![w] = r]
         /\ ivar' = ivar /\ freed' = freed /\ misused' = misused
BY DEF TypeInv, PyRubyNew, Aset

LEMMA NextTypeInv ==
  ASSUME TypeInv, Next, Running => \A w \in PyRuby : holders[w] > 0 => wrapped[w] # None
  PROVE  TypeInv'
<1>1. ASSUME NEW r \in Slot, NewObject(r) \/ Forget(r) \/ PyRubyPtrNew(r)
      PROVE  TypeInv'
  BY <1>1 DEF TypeInv, NewObject, Forget, PyRubyPtrNew, python, table
<1>2. ASSUME NEW r \in Slot, PassPointer(r)
      PROVE  TypeInv'
  <2>1. points[r] \in PyRuby /\ holders[points[r]] + 1 \in Nat
    BY <1>2 DEF TypeInv, PassPointer
  <2> QED BY <1>2, <2>1 DEF TypeInv, PassPointer, ruby, table
<1>3. ASSUME NEW r \in Slot, PtrDecref(r)
      PROVE  TypeInv'
  <2>1. points[r] \in PyRuby /\ \E last : Dropped(points[r], last)
    BY <1>3 DEF TypeInv, PtrDecref
  <2> QED BY <1>3, <2>1, DroppedTable DEF TypeInv, PtrDecref, python
<1>4. ASSUME NEW r \in Slot, Sweep(r)
      PROVE  TypeInv'
  <2>1. CASE points[r] = None
    BY <1>4, <2>1 DEF TypeInv, Sweep, python, table
  <2>2. CASE points[r] # None
    <3>1. points[r] \in PyRuby /\ \E last : Dropped(points[r], last)
      BY <1>4, <2>2 DEF TypeInv, Sweep
    <3> QED BY <1>4, <3>1, DroppedTable DEF TypeInv, Sweep, python
  <2> QED BY <2>1, <2>2
<1>5. ASSUME NEW r \in Slot, NEW q \in Slot, Refer(r, q)
      PROVE  TypeInv'
  BY <1>5 DEF TypeInv, Refer, python, table
<1>6. ASSUME NEW w \in PyRuby, NEW r \in Slot, FromRuby(w, r) \/ WrapRubyObject(w, r)
      PROVE  TypeInv'
  BY <1>6, NewTable DEF TypeInv, FromRuby, WrapRubyObject, ruby
<1>7. ASSUME NEW w \in PyRuby, PyIncref(w) \/ DeallocWithGVL(w)
      PROVE  TypeInv'
  BY <1>7 DEF TypeInv, PyIncref, DeallocWithGVL, Dealloc, Delete, ruby, python, table
<1>8. ASSUME NEW w \in PyRuby, PyDecref(w)
      PROVE  TypeInv'
  <2>1. holders[w] - 1 \in Nat /\ ((\E last : Dropped(w, last)) \/ UNCHANGED table)
    BY <1>8 DEF TypeInv, PyDecref
  <2>2. /\ guard' \in [PyRuby -> Slot \cup {None}]
        /\ ivar' = ivar /\ freed' = freed /\ misused' \in BOOLEAN
    BY <2>1, DroppedTable DEF TypeInv, table
  <2> QED BY <1>8, <2>1, <2>2 DEF TypeInv, PyDecref, ruby
<1>9. ASSUME NEW w \in PyRuby, Call(w)
      PROVE  TypeInv'
  BY <1>9 DEF TypeInv, Call, python, table
<1>10. ASSUME NEW w \in PyRuby, NEW v \in PyRuby, NEW m \in Slot, Getattro(w, v, m)
       PROVE  TypeInv'
  BY <1>10, NewTable DEF TypeInv, Getattro
<1>11. CASE Mark \/ Exit \/ GuardFree
  BY <1>11 DEF TypeInv, Mark, Exit, GuardFree, Used, ruby, python, table
<1> QED BY <1>1, <1>2, <1>3, <1>4, <1>5, <1>6, <1>7, <1>8, <1>9, <1>10, <1>11 DEF Next

LEMMA NextTableInv ==
  ASSUME TypeInv, TableInv, Next
  PROVE  TableInv'
<1>1. ASSUME UNCHANGED <<freed, ivar, misused, exiting>>
      PROVE  TableInv'
  BY <1>1 DEF TableInv, Running
<1>2. ASSUME UNCHANGED <<freed, ivar, exiting>>, misused' => misused \/ (ivar = "table" /\ freed)
      PROVE  TableInv'
  BY <1>2 DEF TableInv, Running
<1>3. ASSUME NEW r \in Slot, PtrDecref(r) \/ Sweep(r)
      PROVE  TableInv'
  <2>1. CASE points[r] = None
    BY <1>1, <1>3, <2>1 DEF PtrDecref, Sweep, table
  <2>2. CASE points[r] # None
    <3>1. points[r] \in PyRuby /\ exiting' = exiting /\ \E last : Dropped(points[r], last)
      BY <1>3, <2>2 DEF TypeInv, PtrDecref, Sweep
    <3> QED BY <1>2, <3>1, DroppedTable
  <2> QED BY <2>1, <2>2
<1>4. ASSUME NEW w \in PyRuby, PyDecref(w) \/ DeallocWithGVL(w)
      PROVE  TableInv'
  BY <1>1, <1>2, <1>4, DroppedTable DEF PyDecref, DeallocWithGVL, Dealloc, Delete, table
<1>5. ASSUME NEW w \in PyRuby, NEW v \in PyRuby, NEW r \in Slot,
             FromRuby(w, r) \/ WrapRubyObject(w, r) \/ Getattro(w, v, r)
      PROVE  TableInv'
  BY <1>1, <1>5 DEF FromRuby, WrapRubyObject, Getattro, PyRubyNew, Aset
<1>6. ASSUME NEW w \in PyRuby, PyIncref(w) \/ Call(w)
      PROVE  TableInv'
  BY <1>1, <1>6 DEF PyIncref, Call, table
<1>7. ASSUME NEW r \in Slot, NEW q \in Slot,
             \/ NewObject(r) \/ Forget(r) \/ PyRubyPtrNew(r) \/ PassPointer(r)
             \/ Refer(r, q)
      PROVE  TableInv'
  BY <1>1, <1>7 DEF NewObject, Forget, PyRubyPtrNew, PassPointer, Refer, table
<1>8. CASE Mark \/ Exit \/ GuardFree
  BY <1>8 DEF TableInv, Mark, Exit, GuardFree, Running, table
<1> QED BY <1>3, <1>4, <1>5, <1>6, <1>7, <1>8 DEF Next

-----------------------------------------------------------------------------
(* The entries of the table.                                               *)

\* References go, objects stay: an entry goes with the last reference.
LEMMA EntriesStay ==
  ASSUME TypeInv, EntriesInv, wrapped' = wrapped, Kept \subseteq Kept',
         \A v \in PyRuby : Has(v) => Had(v),
         \A v \in PyRuby : guard'[v] = guard[v] \/ (guard'[v] = None /\ ~Has(v)),
         \A v \in waiting' : v \in waiting \/ (v \in PyRuby /\ Had(v) /\ ~Has(v))
  PROVE  EntriesInv'
<1>1. \A v \in PyRuby : guard'[v] # None => guard'[v] = wrapped'[v] /\ guard'[v] \in Kept'
  BY DEF EntriesInv
<1>2. \A v \in PyRuby : Has(v) => guard'[v] = wrapped'[v] /\ wrapped'[v] # None
  BY ReferencedBy DEF EntriesInv
<1>3. \A v \in waiting' : ~Has(v) /\ wrapped'[v] # None
  BY ReferencedBy DEF EntriesInv, TypeInv
<1> QED BY <1>1, <1>2, <1>3, EntriesNext

\* A PyRuby is made for an object that is kept.
LEMMA EntryAdded ==
  ASSUME TypeInv, EntriesInv, Kept \subseteq Kept',
         NEW w \in PyRuby, wrapped[w] = None, NEW r \in Slot, r \in Kept',
         PyRubyNew(w, r), waiting' = waiting,
         \A v \in PyRuby \ {w} : Has(v) => Had(v)
  PROVE  EntriesInv'
<1>1. /\ guard' = [guard EXCEPT ![w] = r] /\ wrapped' = [wrapped EXCEPT ![w] = r]
      /\ guard \in [PyRuby -> Slot \cup {None}] /\ wrapped \in [PyRuby -> Slot \cup {None}]
      /\ r # None /\ waiting \subseteq PyRuby /\ w \notin waiting
  BY GuardAssumption, NewTable DEF TypeInv, EntriesInv
<1>2. ASSUME NEW v \in PyRuby
      PROVE  /\ guard'[v] # None => guard'[v] = wrapped'[v] /\ guard'[v] \in Kept'
             /\ Has(v) => guard'[v] = wrapped'[v] /\ wrapped'[v] # None
             /\ v \in waiting' => ~Has(v) /\ wrapped'[v] # None
  BY <1>1, ReferencedBy DEF EntriesInv
<1> QED BY <1>1, <1>2, EntriesNext

\* A PyRubyPtr gives up its reference.
LEMMA PointerDies ==
  ASSUME TypeInv, NEW r \in Slot, points' = [points EXCEPT ![r] = None],
         UNCHANGED <<wrapped, holders, local, waiting>>,
         LET w == points[r] IN
           IF w = None THEN UNCHANGED table
           ELSE Dropped(w, holders[w] = 0 /\ local # w /\ Pointers(w) = {r})
  PROVE  /\ \A v \in PyRuby : Has(v) => Had(v)
         /\ \A v \in PyRuby : guard'[v] = guard[v] \/ (guard'[v] = None /\ ~Has(v))
         /\ GuardForgets => GuardForgets'
<1>1. /\ points \in [Slot -> PyRuby \cup {None}] /\ guard \in [PyRuby -> Slot \cup {None}]
      /\ None \notin PyRuby
  BY GuardAssumption DEF TypeInv
<1>2. ASSUME NEW v \in PyRuby
      PROVE  Has(v) => Had(v)
  BY <1>1 DEF Had, Has
<1>3. ASSUME NEW v \in PyRuby, v # points[r], Had(v)
      PROVE  Has(v)
  <2>1. ASSUME NEW q \in Slot, points[q] = v
        PROVE  points'[q] = v
    BY <1>1, <1>3, <2>1
  <2> QED BY <1>3, <2>1 DEF Had, Has
<1>4. CASE points[r] = None
  <2>1. guard' = guard /\ ivar' = ivar
    BY <1>4 DEF table
  <2>2. GuardForgets => GuardForgets'
    BY <1>1, <1>3, <1>4, <2>1, ReferencedBy, ForgetsNext DEF GuardForgets
  <2> QED BY <1>2, <2>1, <2>2
<1>5. CASE points[r] # None
  <2> DEFINE w == points[r]
             last == holders[w] = 0 /\ local # w /\ Pointers(w) = {r}
  <2>1. w \in PyRuby /\ Dropped(w, last)
    BY <1>1, <1>5
  <2>2. ivar' = ivar /\ guard' = IF last THEN [guard EXCEPT ![w] = None] ELSE guard
    BY <2>1, DroppedTable
  <2>3. last <=> ~Has(w)
    <3>1. Pointers(w) = {r} <=> \A q \in Slot : points'[q] # w
      BY <1>1, <1>5 DEF Pointers
    <3>2. holders[w] = 0 <=> ~(holders'[w] > 0)
      BY <2>1 DEF TypeInv
    <3> QED BY <3>1, <3>2 DEF Has
  <2> HIDE DEF last
  <2>4. \A v \in PyRuby : guard'[v] = guard[v] \/ (guard'[v] = None /\ ~Has(v))
    BY <1>1, <2>1, <2>2, <2>3
  <2>5. GuardForgets => GuardForgets'
    BY <1>1, <1>3, <2>1, <2>2, <2>3, ReferencedBy, ForgetsNext DEF GuardForgets
  <2> QED BY <1>2, <2>4, <2>5
<1> QED BY <1>4, <1>5

\* Python gives up a reference; the deallocation may have to wait.
LEMMA HolderDies ==
  ASSUME TypeInv, NEW w \in PyRuby, PyDecref(w)
  PROVE  /\ \A v \in PyRuby : Has(v) => Had(v)
         /\ \A v \in PyRuby : guard'[v] = guard[v] \/ (guard'[v] = None /\ ~Has(v))
         /\ \A v \in waiting' : v \in waiting \/ (v \in PyRuby /\ Had(v) /\ ~Has(v))
         /\ GuardForgets => GuardForgets'
<1>1. /\ holders \in [PyRuby -> Nat] /\ holders[w] > 0
      /\ holders' = [holders EXCEPT ![w] = @ - 1]
      /\ UNCHANGED <<points, local>> /\ guard \in [PyRuby -> Slot \cup {None}]
      /\ waiting \subseteq PyRuby
  BY DEF TypeInv, PyDecref, ruby
<1>2. /\ ivar' = ivar
      /\ \/ waiting' = waiting /\ guard' = IF Last(w) THEN [guard EXCEPT ![w] = None] ELSE guard
         \/ Last(w) /\ waiting' = waiting \cup {w} /\ guard' = guard
  BY DroppedTable DEF PyDecref, table
<1>3. Last(w) <=> ~Has(w)
  <2>1. Pointers(w) = {} <=> \A r \in Slot : points'[r] # w
    BY <1>1 DEF Pointers
  <2>2. holders[w] = 1 <=> ~(holders'[w] > 0)
    BY <1>1
  <2> QED BY <1>1, <2>1, <2>2 DEF Last, Has
<1>4. ASSUME NEW v \in PyRuby
      PROVE  /\ Has(v) => Had(v)
             /\ v # w => (Had(v) => Has(v))
  BY <1>1 DEF Had, Has
<1>5. Had(w)
  BY <1>1 DEF Had
<1>6. \A v \in PyRuby : guard'[v] = guard[v] \/ (guard'[v] = None /\ ~Has(v))
  BY <1>1, <1>2, <1>3
<1>7. GuardForgets => GuardForgets'
  BY <1>1, <1>2, <1>3, <1>4, ReferencedBy, ForgetsNext DEF GuardForgets
<1> QED BY <1>1, <1>2, <1>3, <1>4, <1>5, <1>6, <1>7

-----------------------------------------------------------------------------
(* The steps of Ruby and Python code while the process runs.               *)

Safe == HeapInv /\ EntriesInv /\ GuardForgets

\* A step that touches neither the guard nor who refers to a PyRuby.
LEMMA HeapStepSafe ==
  ASSUME TypeInv, Safe, HeapInv', Kept \subseteq Kept',
         UNCHANGED <<wrapped, holders, local, points, waiting, guard, ivar>>
  PROVE  Safe'
<1>1. \A v : Has(v) <=> Had(v)
  BY DEF Has, Had
<1>2. EntriesInv'
  BY <1>1, EntriesStay DEF Safe
<1>3. GuardForgets'
  BY <1>1, ReferencedBy, ForgetsNext DEF Safe, GuardForgets
<1> QED BY <1>2, <1>3 DEF Safe

LEMMA MutatorSafe ==
  ASSUME TypeInv, Safe,
         \/ \E r \in Slot : NewObject(r) \/ Forget(r)
         \/ \E r, q \in Slot : Refer(r, q)
         \/ \E w \in PyRuby : Call(w)
  PROVE  Safe'
<1>1. /\ HeapInv /\ kind \in [Slot -> {"free", "object", "pointer"}]
      /\ refers \in [Slot -> SUBSET Slot] /\ roots \subseteq Slot
  BY DEF Safe, TypeInv
<1>2. ASSUME NEW r \in Slot, NewObject(r)
      PROVE  Safe'
  <2>1. HeapInv' /\ Kept \subseteq Kept'
    BY <1>1, <1>2 DEF NewObject, HeapInv, Kept, Used, Closed
  <2> QED BY <1>2, <2>1, HeapStepSafe DEF NewObject, python, table
<1>3. ASSUME NEW r \in Slot, Forget(r)
      PROVE  Safe'
  <2>1. HeapInv' /\ Kept' = Kept
    BY <1>1, <1>3 DEF Forget, HeapInv, Kept, Used, Closed
  <2> QED BY <1>3, <2>1, HeapStepSafe DEF Forget, python, table
<1>4. ASSUME NEW r \in Slot, NEW q \in Slot, Refer(r, q)
      PROVE  Safe'
  <2>1. r \in Kept /\ q \in Kept
    BY <1>1, <1>4, RootsReachKept DEF Refer
  <2>2. HeapInv' /\ Kept' = Kept
    BY <1>1, <1>4, <2>1 DEF Refer, HeapInv, Kept, Used, Closed
  <2> QED BY <1>4, <2>2, HeapStepSafe DEF Refer, python, table
<1>5. ASSUME NEW w \in PyRuby, Call(w)
      PROVE  Safe'
  <2>1. wrapped[w] \in Kept
    BY <1>5, GuardAssumption DEF Call, Safe, EntriesInv, Referenced
  <2>2. HeapInv' /\ Kept' = Kept
    BY <1>1, <1>5, <2>1 DEF Call, HeapInv, Kept, Used, Closed
  <2> QED BY <1>5, <2>2, HeapStepSafe DEF Call, python, table
<1> QED BY <1>2, <1>3, <1>4, <1>5

\* A PyRuby for an object that Ruby code refers to, or for a new Method.
LEMMA NewPyRubySafe ==
  ASSUME TypeInv, Safe, NEW w \in PyRuby, wrapped[w] = None, NEW r \in Slot,
         PyRubyNew(w, r), HeapInv', Kept \subseteq Kept', r \in Kept',
         UNCHANGED <<points, waiting>>,
         \A v \in PyRuby \ {w} : holders'[v] = holders[v],
         holders'[w] > 0 \/ local' = w, local' \in {local, w}, local = None \/ local' = local
  PROVE  Safe'
<1>1. None \notin PyRuby
  BY GuardAssumption
<1>2. \A v \in PyRuby \ {w} : Has(v) <=> Had(v)
  BY <1>1 DEF Has, Had
<1>3. EntriesInv'
  BY <1>2, EntryAdded DEF Safe
<1>4. GuardForgets'
  <2>1. /\ guard' = [guard EXCEPT ![w] = r] /\ guard \in [PyRuby -> Slot \cup {None}]
        /\ ivar' = ivar
    BY NewTable DEF TypeInv
  <2>2. Has(w)
    BY DEF Has
  <2> QED BY <1>2, <2>1, <2>2, ReferencedBy, ForgetsNext DEF Safe, GuardForgets
<1> QED BY <1>3, <1>4 DEF Safe

LEMMA WrapSafe ==
  ASSUME TypeInv, Safe,
         \/ \E w \in PyRuby, r \in Slot : FromRuby(w, r) \/ WrapRubyObject(w, r)
         \/ \E w, v \in PyRuby, r \in Slot : Getattro(w, v, r)
  PROVE  Safe'
<1>1. /\ HeapInv /\ kind \in [Slot -> {"free", "object", "pointer"}]
      /\ refers \in [Slot -> SUBSET Slot] /\ roots \subseteq Slot
      /\ holders \in [PyRuby -> Nat]
  BY DEF Safe, TypeInv
<1>2. ASSUME NEW w \in PyRuby, NEW r \in Slot, FromRuby(w, r) \/ WrapRubyObject(w, r)
      PROVE  Safe'
  <2>1. r \in Kept
    BY <1>1, <1>2, RootsReachKept DEF FromRuby, WrapRubyObject
  <2>2. HeapInv' /\ Kept' = Kept
    BY <1>1, <1>2 DEF FromRuby, WrapRubyObject, ruby, HeapInv, Kept, Used, Closed
  <2>3. /\ wrapped[w] = None /\ PyRubyNew(w, r) /\ UNCHANGED <<points, waiting>>
        /\ \A u \in PyRuby \ {w} : holders'[u] = holders[u]
        /\ holders'[w] > 0 \/ local' = w
        /\ local' \in {local, w} /\ (local = None \/ local' = local)
    BY <1>1, <1>2 DEF FromRuby, WrapRubyObject, ruby
  <2> QED BY <2>1, <2>2, <2>3, NewPyRubySafe
<1>3. ASSUME NEW w \in PyRuby, NEW v \in PyRuby, NEW r \in Slot, Getattro(w, v, r)
      PROVE  Safe'
  <2>1. wrapped[w] \in Kept /\ wrapped[w] \in Slot
    BY <1>3, GuardAssumption DEF Getattro, Safe, EntriesInv, Referenced, Kept, Used
  <2>2. HeapInv' /\ Kept \subseteq Kept' /\ r \in Kept'
    BY <1>1, <1>3, <2>1 DEF Getattro, HeapInv, Kept, Used, Closed
  <2>3. /\ wrapped[v] = None /\ PyRubyNew(v, r) /\ UNCHANGED <<points, waiting>>
        /\ \A u \in PyRuby \ {v} : holders'[u] = holders[u]
        /\ holders'[v] > 0 /\ local' = local
    BY <1>1, <1>3 DEF Getattro
  <2> QED BY <2>2, <2>3, NewPyRubySafe
<1> QED BY <1>2, <1>3

\* A reference more, to a PyRuby that has one.
LEMMA PassSafe ==
  ASSUME TypeInv, Safe,
         \/ \E r \in Slot : PyRubyPtrNew(r) \/ PassPointer(r)
         \/ \E w \in PyRuby : PyIncref(w)
  PROVE  Safe'
<1>1. /\ HeapInv /\ kind \in [Slot -> {"free", "object", "pointer"}]
      /\ points \in [Slot -> PyRuby \cup {None}] /\ roots \subseteq Slot
      /\ holders \in [PyRuby -> Nat] /\ None \notin PyRuby /\ local \in PyRuby \cup {None}
  BY GuardAssumption DEF Safe, TypeInv
<1>2. ASSUME HeapInv', Kept \subseteq Kept', UNCHANGED <<wrapped, waiting, guard, ivar>>,
             \A v \in PyRuby : Has(v) <=> Had(v)
      PROVE  Safe'
  <2>1. EntriesInv'
    BY <1>2, EntriesStay DEF Safe
  <2>2. GuardForgets'
    BY <1>2, ReferencedBy, ForgetsNext DEF Safe, GuardForgets
  <2> QED BY <1>2, <2>1, <2>2 DEF Safe
<1>3. ASSUME NEW r \in Slot, PyRubyPtrNew(r)
      PROVE  Safe'
  <2>1. HeapInv' /\ Kept \subseteq Kept'
    BY <1>1, <1>3 DEF PyRubyPtrNew, HeapInv, Kept, Used, Closed
  <2>2. points[r] = None
    BY <1>1, <1>3 DEF PyRubyPtrNew, HeapInv, Used
  <2>3. \A v \in PyRuby : Has(v) <=> Had(v)
    BY <1>1, <1>3, <2>2 DEF PyRubyPtrNew, Has, Had
  <2> QED BY <1>2, <1>3, <2>1, <2>3 DEF PyRubyPtrNew, table
<1>4. ASSUME NEW w \in PyRuby, Had(w), holders' = [holders EXCEPT ![w] = @ + 1],
             UNCHANGED <<ruby, local>>
      PROVE  HeapInv' /\ Kept \subseteq Kept' /\ \A v \in PyRuby : Has(v) <=> Had(v)
  <2>1. HeapInv' /\ Kept \subseteq Kept'
    BY <1>1, <1>4 DEF ruby, HeapInv, Kept, Used, Closed
  <2>2. Has(w)
    BY <1>1, <1>4 DEF Has
  <2>3. \A v \in PyRuby \ {w} : Has(v) <=> Had(v)
    BY <1>1, <1>4 DEF Has, Had, ruby
  <2> QED BY <1>4, <2>1, <2>2, <2>3
<1>5. ASSUME NEW r \in Slot, PassPointer(r)
      PROVE  Safe'
  <2>1. points[r] \in PyRuby /\ Had(points[r])
    BY <1>1, <1>5 DEF PassPointer, Had
  <2> QED BY <1>2, <1>4, <1>5, <2>1 DEF PassPointer, table
<1>6. ASSUME NEW w \in PyRuby, PyIncref(w)
      PROVE  Safe'
  <2>1. Had(w)
    BY <1>1, <1>6 DEF PyIncref, Had
  <2> QED BY <1>2, <1>4, <1>6, <2>1 DEF PyIncref, table
<1> QED BY <1>3, <1>5, <1>6

\* A reference less.
LEMMA ReleaseSafe ==
  ASSUME TypeInv, Safe,
         \/ \E r \in Slot : PtrDecref(r) \/ Sweep(r)
         \/ \E w \in PyRuby : PyDecref(w) \/ DeallocWithGVL(w)
  PROVE  Safe'
<1>1. /\ HeapInv /\ kind \in [Slot -> {"free", "object", "pointer"}]
      /\ refers \in [Slot -> SUBSET Slot] /\ points \in [Slot -> PyRuby \cup {None}]
      /\ guard \in [PyRuby -> Slot \cup {None}] /\ roots \subseteq Slot
  BY DEF Safe, TypeInv
<1>2. ASSUME NEW r \in Slot, PtrDecref(r)
      PROVE  Safe'
  <2>1. HeapInv' /\ Kept' = Kept
    BY <1>1, <1>2 DEF PtrDecref, HeapInv, Kept, Used, Closed
  <2>2. /\ \A v \in PyRuby : Has(v) => Had(v)
        /\ \A v \in PyRuby : guard'[v] = guard[v] \/ (guard'[v] = None /\ ~Has(v))
        /\ GuardForgets => GuardForgets'
    BY <1>2, PointerDies DEF PtrDecref, python
  <2>3. EntriesInv'
    BY <1>2, <2>1, <2>2, EntriesStay DEF Safe, PtrDecref, python
  <2> QED BY <2>1, <2>2, <2>3 DEF Safe
<1>3. ASSUME NEW r \in Slot, Sweep(r)
      PROVE  Safe'
  <2>1. HeapInv' /\ Kept' = Kept
    BY <1>1, <1>3 DEF Sweep, HeapInv, Kept, Used, Closed
  <2>2. /\ \A v \in PyRuby : Has(v) => Had(v)
        /\ \A v \in PyRuby : guard'[v] = guard[v] \/ (guard'[v] = None /\ ~Has(v))
        /\ GuardForgets => GuardForgets'
    BY <1>3, PointerDies DEF Sweep, python
  <2>3. EntriesInv'
    BY <1>3, <2>1, <2>2, EntriesStay DEF Safe, Sweep, python
  <2> QED BY <2>1, <2>2, <2>3 DEF Safe
<1>4. ASSUME NEW w \in PyRuby, PyDecref(w)
      PROVE  Safe'
  <2>1. HeapInv' /\ Kept' = Kept
    BY <1>1, <1>4 DEF PyDecref, ruby, HeapInv, Kept, Used, Closed
  <2>2. EntriesInv'
    BY <1>4, <2>1, HolderDies, EntriesStay DEF Safe, PyDecref
  <2> QED BY <1>4, <2>1, <2>2, HolderDies DEF Safe
<1>5. ASSUME NEW w \in PyRuby, DeallocWithGVL(w)
      PROVE  Safe'
  <2>1. HeapInv' /\ Kept' = Kept
    BY <1>1, <1>5 DEF DeallocWithGVL, ruby, HeapInv, Kept, Used, Closed
  <2>2. /\ waiting' = waiting \ {w} /\ guard' = [guard EXCEPT ![w] = None] /\ ivar' = ivar
        /\ ~Had(w) /\ \A v : Has(v) <=> Had(v)
    BY <1>5, ReferencedBy
       DEF DeallocWithGVL, Dealloc, Delete, Safe, EntriesInv, Has, Had, ruby, python
  <2>3. \A v \in PyRuby : guard'[v] = guard[v] \/ (guard'[v] = None /\ ~Has(v))
    BY <1>1, <2>2
  <2>4. EntriesInv'
    BY <1>5, <2>1, <2>2, <2>3, EntriesStay DEF Safe, DeallocWithGVL, python
  <2>5. GuardForgets'
    BY <1>1, <2>2, ReferencedBy, ForgetsNext DEF Safe, GuardForgets
  <2> QED BY <2>1, <2>4, <2>5 DEF Safe
<1> QED BY <1>2, <1>3, <1>4, <1>5

\* A collection starts: what it does not reach turns white.
LEMMA MarkSafe ==
  ASSUME TypeInv, Safe, Mark, ivar = "table"
  PROVE  Safe'
<1> DEFINE S == roots \cup Guarded
<1>1. /\ HeapInv /\ EntriesInv /\ GuardForgets
      /\ white = {} /\ Kept = Used /\ Used \subseteq Slot
      /\ UNCHANGED <<kind, refers, points, roots, wrapped, holders, local, waiting,
                     guard, ivar>>
  BY DEF Safe, Mark, Kept, Used, python, table
<1>2. white' = Used \ Reach(S)
  BY DEF Mark
<1>3. S \subseteq Used
  BY <1>1 DEF HeapInv, EntriesInv, Guarded
<1> HIDE DEF S
<1>4. Reach(S) \subseteq Used
  BY <1>1, <1>3, ReachLeast DEF HeapInv
<1>5. S \subseteq Reach(S) /\ Closed(Reach(S))
  BY <1>1, <1>3, ReachClosed
<1>6. Used' = Used /\ Kept' = Reach(S)
  BY <1>1, <1>2, <1>4 DEF Used, Kept
<1>7. HeapInv'
  BY <1>1, <1>2, <1>4, <1>5, <1>6 DEF HeapInv, Closed, S
<1>8. \A v : Has(v) <=> Had(v)
  BY <1>1 DEF Has, Had
<1>9. EntriesInv'
  <2>1. \A v \in PyRuby : guard'[v] # None => guard'[v] \in Kept'
    BY <1>1, <1>5, <1>6 DEF Guarded, S
  <2> QED BY <1>1, <1>8, <2>1, ReferencedBy, EntriesNext DEF EntriesInv
<1>10. GuardForgets'
  BY <1>1, <1>8, ReferencedBy, ForgetsNext DEF GuardForgets
<1> QED BY <1>7, <1>9, <1>10 DEF Safe

-----------------------------------------------------------------------------
(* The theorems.                                                           *)

LEMMA InitIInv == Init => IInv
<1> SUFFICES ASSUME Init PROVE IInv
  OBVIOUS
<1>1. TypeInv /\ TableInv
  BY DEF Init, TypeInv, TableInv, Running
<1>2. HeapInv
  BY DEF Init, HeapInv, Kept, Used, Closed
<1>3. EntriesInv /\ GuardForgets
  BY GuardAssumption DEF Init, EntriesInv, GuardForgets, Referenced, Pointers
<1> QED BY <1>1, <1>2, <1>3 DEF IInv

LEMMA NextIInv ==
  ASSUME IInv, [Next]_vars
  PROVE  IInv'
<1>1. CASE UNCHANGED vars
  BY <1>1 DEF vars, IInv, TypeInv, TableInv, GuardForgets, Running, HeapInv, EntriesInv,
              Referenced, Pointers, Kept, Used, Closed
<1>2. CASE Next
  <2>1. TypeInv' /\ TableInv'
    <3>1. Running => \A w \in PyRuby : holders[w] > 0 => wrapped[w] # None
      BY DEF IInv, EntriesInv, Referenced
    <3> QED BY <1>2, <3>1, NextTypeInv, NextTableInv DEF IInv
  <2>2. Running /\ Running' => Safe'
    <3>1. ASSUME Running, Running'
          PROVE  Safe'
      <4>1. TypeInv /\ Safe /\ ivar = "table"
        BY <3>1 DEF IInv, Safe, TableInv
      <4>2. ~Exit /\ ~GuardFree
        BY <3>1 DEF Exit, GuardFree, Running
      <4> QED BY <1>2, <4>1, <4>2, MutatorSafe, WrapSafe, PassSafe, ReleaseSafe, MarkSafe
              DEF Next
    <3> QED BY <3>1
  <2>3. CASE Running
    <3>1. CASE Running'
      BY <2>1, <2>2, <2>3, <3>1 DEF IInv, Safe
    <3>2. CASE ~Running'
      <4>1. Exit
        BY <1>2, <2>3, <3>2
           DEF Next, Running, NewObject, Forget, PyRubyPtrNew, PassPointer, PtrDecref,
               Sweep, Refer, FromRuby, WrapRubyObject, PyIncref, PyDecref,
               DeallocWithGVL, Call, Getattro, Mark, GuardFree
      <4>2. GuardForgets'
        BY <4>1 DEF Exit, IInv, GuardForgets, Referenced, Pointers, python, table
      <4> QED BY <2>1, <3>2, <4>2 DEF IInv
    <3> QED BY <3>1, <3>2
  <2>4. CASE ~Running
    <3>1. GuardFree \/ \E r \in Slot : Sweep(r)
      BY <1>2, <2>4
         DEF Next, Running, NewObject, Forget, PyRubyPtrNew, PassPointer, PtrDecref,
             Refer, FromRuby, WrapRubyObject, PyIncref, PyDecref,
             DeallocWithGVL, Call, Getattro, Mark, Exit
    <3>2. ~Running'
      BY <2>4, <3>1 DEF Running, GuardFree, Sweep
    <3>3. GuardForgets'
      BY <3>1, PointerDies DEF IInv, GuardFree, Sweep, GuardForgets, python
    <3> QED BY <2>1, <3>2, <3>3 DEF IInv
  <2> QED BY <2>3, <2>4
<1> QED BY <1>1, <1>2

\* Whatever Ruby code, Python code and the collector do, and whenever the
\* process ends.
THEOREM GuardInvariance == Spec => []IInv
<1>1. Init => IInv
  BY InitIInv
<1>2. IInv /\ [Next]_vars => IInv'
  BY NextIInv
<1> QED BY <1>1, <1>2, PTL DEF Spec

\* The Ruby object of a PyRuby that Python, or a C function of pycall, refers
\* to is neither swept nor about to be.
THEOREM PythonsObjectsStay == Spec => []GuardedWhileReferenced
<1>1. ASSUME IInv, Running, NEW w \in PyRuby, Referenced(w)
      PROVE  wrapped[w] \in Used \ white
  BY <1>1, GuardAssumption DEF IInv, EntriesInv, Kept
<1>2. IInv => GuardedWhileReferenced
  BY <1>1 DEF GuardedWhileReferenced
<1> QED BY <1>2, GuardInvariance, PTL

\* The table has no entry that nobody will remove.
THEOREM GuardLetsGo == Spec => []GuardForgets
<1>1. IInv => GuardForgets
  BY DEF IInv
<1> QED BY <1>1, GuardInvariance, PTL

\* In whatever order the heap is finalised, no deallocation uses the table
\* after gcguard_free.
THEOREM TableFreedOnce == Spec => []TableNotMisused
<1>1. IInv => TableNotMisused
  BY DEF IInv, TableInv, TableNotMisused
<1> QED BY <1>1, GuardInvariance, PTL

=============================================================================
