---------------------------- MODULE PyRefsBorrow ----------------------------
(***************************************************************************)
(* The two ways Ruby code gets a PyPtr that owns no reference, and the way *)
(* to make it safe: PyPtr.incref in the same expression, before anything   *)
(* but the collector releases a reference. A __del__ that runs then and    *)
(* takes the object's other owner away is left out.                        *)
(***************************************************************************)
EXTENDS PyRefs, FiniteSetsExt

\* The collector frees the PyPtrs of S.
Sweep(h, S) == FoldSet(LAMBDA q, g : PtrFree(g, q), h, S)

\* Mutant: the program goes on without PyPtr.incref.
NotIncref(h, o) == h

\* PyPtr.incref of a PyPtr for o.
Incref(h, o) == Bump(h, o)

\* A PyPtr p is made for the object o, whose reference count is unchanged;
\* a collection may follow; then the count catches up.
BorrowAndIncref(p, o) ==
  /\ InRuby
  /\ p \in Ptr \ heap.live
  /\ o # NULL
  /\ \E S \in SUBSET (heap.live \ heap.root) :
       heap' = Incref(Sweep(Borrow(Wrap(heap, p), p, o), S), o)
  /\ UNCHANGED <<depth, frame>>

\* PyList_GetItem returns a borrowed reference, and the PyPtr will release it.
ListGetItem(p, c) == BorrowAndIncref(p, heap.ref[c])

\* PyCall::PyPtr.new(address), the address read from another PyPtr.
PtrNew(p, q) == q \in heap.root /\ BorrowAndIncref(p, heap.ref[q])

NextB ==
  \/ Next
  \/ \E p \in Ptr, c \in Cell : ListGetItem(p, c)
  \/ \E p, q \in Ptr : PtrNew(p, q)

\* The properties of PyRefs are checked of this program: one that counts every
\* borrowed PyPtr at once is as safe as one that never borrows.
SpecB == Init /\ [][NextB]_vars

=============================================================================
