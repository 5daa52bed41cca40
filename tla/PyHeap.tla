------------------------------- MODULE PyHeap -------------------------------
(***************************************************************************)
(* The part of the CPython heap that pycall manipulates: reference counts, *)
(* and the places that own a reference.                                    *)
(*                                                                         *)
(* A heap is a record                                                      *)
(*   ref    what each place points at (a place is a PyPtr, a slot inside   *)
(*          a Python container, or a C local of a running pycall function) *)
(*   cnt    ob_refcnt of each object; 0 means the memory is free           *)
(*   fault  the objects whose memory was used while it was free            *)
(*   live   the PyPtr Ruby objects that exist                              *)
(*   root   those of them that Ruby code can still reach                   *)
(*                                                                         *)
(* Operators take a heap and return one, so that the body of a C function  *)
(* is a composition of them in the order of its statements.                *)
(***************************************************************************)
EXTENDS Integers, FiniteSets

CONSTANTS
  Obj,        \* addresses a Python object may be allocated at
  ByValue,    \* those that pycall_pyobject_to_ruby converts by copying
  Ptr,        \* PyCall::PyPtr objects
  Cell,       \* references held by the Python side (items, attributes, globals)
  MaxDepth,   \* bound: nesting of pycall C functions
  NULL

SlotName == {"first", "second", "callee", "iter", "result", "error"}

\* The C locals of the activation at each depth of the stack.
Local == (1..MaxDepth) \X SlotName

Place == Ptr \cup Cell \cup Local

ASSUME HeapAssumption ==
  /\ IsFiniteSet(Ptr) /\ IsFiniteSet(Cell)
  /\ MaxDepth \in Nat
  /\ ByValue \subseteq Obj
  /\ NULL \notin Obj
  /\ Ptr \cap Cell = {} /\ Ptr \cap Local = {} /\ Cell \cap Local = {}

Heap == [ref : [Place -> Obj \cup {NULL}], cnt : [Obj -> Int],
         fault : SUBSET Obj, live : SUBSET Ptr, root : SUBSET Ptr]

EmptyHeap == [ref |-> [p \in Place |-> NULL], cnt |-> [o \in Obj |-> 0],
              fault |-> {}, live |-> {}, root |-> {}]

Holders(h, o) == {p \in Place : h.ref[p] = o}
Held(h)       == {h.ref[p] : p \in Place} \ {NULL}
Free(h)       == {o \in Obj : h.cnt[o] = 0}

-----------------------------------------------------------------------------
(* Elementary steps of C code on one reference.                            *)

\* Py_IncRef through a raw pointer that nothing here accounts for.
Bump(h, o) ==
  [h EXCEPT !.cnt[o] = @ + 1,
            !.fault = IF h.cnt[o] > 0 THEN @ ELSE @ \cup {o}]

\* Store a raw pointer without counting it.
Borrow(h, p, o) == [h EXCEPT !.ref[p] = o]

\* Store a pointer and count it: a new reference to an existing object.
Take(h, p, o) == Borrow(Bump(h, o), p, o)

\* The allocator returns free memory with one reference, stored at p.
New(h, p, o) == [h EXCEPT !.ref[p] = o, !.cnt[o] = 1]

\* Forget a pointer without Py_DecRef: what it owned is owned by nobody.
Forget(h, p) == [h EXCEPT !.ref[p] = NULL]

\* pycall_Py_DecRef, and the pointer is dead. Py_DecRef(NULL) does nothing.
Drop(h, p) ==
  LET o == h.ref[p] IN
  IF o = NULL THEN h
  ELSE [h EXCEPT
          !.ref[p] = NULL,
          !.cnt[o] = @ - 1,
          !.fault = IF h.cnt[o] > 0 THEN @ ELSE @ \cup {o}]

\* The reference at p becomes the reference at q (stolen, or returned).
Move(h, p, q) == Borrow(Forget(h, p), q, h.ref[p])

-----------------------------------------------------------------------------
(* Ruby objects that own a reference.                                      *)

\* A PyPtr object is allocated; its caller stores the pointer.
Wrap(h, p) == [h EXCEPT !.live = @ \cup {p}, !.root = @ \cup {p}]

\* pycall_pyptr_free, and the Ruby object is gone. Ruby does not call it for
\* a null DATA_PTR; Drop does nothing then.
PtrFree(h, p) == [Drop(h, p) EXCEPT !.live = @ \ {p}, !.root = @ \ {p}]

\* pycall_pyobject_to_ruby: None, numbers, strings and PyRuby objects are
\* converted by value, any other object gets a PyPtr that owns a reference.
\* NULL stands for an object outside Obj. The set of possible results.
ToRuby(h, o) ==
  IF o \in Obj \ ByValue THEN {Take(Wrap(h, p), p, o) : p \in Ptr \ h.live}
                         ELSE {h}

\* pycall_pyobject_from_ruby, the result stored at q: a wrapper gives a new
\* reference to its object, any other Ruby value a fresh object or a new
\* reference to a cached one (small integers, None).
FromRuby(h, q) ==
  {Take(h, q, h.ref[p]) : p \in {r \in h.root : h.ref[r] # NULL}}
    \cup {New(h, q, o) : o \in Free(h)}
    \cup {Take(h, q, o) : o \in ByValue \cap Held(h)}

\* What the interpreter does when it hands out a new reference to one of its
\* own objects, those in from, or to one it creates.
PyGive(h, q, from) ==
  {Take(h, q, o) : o \in from} \cup {New(h, q, o) : o \in Free(h)}

-----------------------------------------------------------------------------
(* Correctness of a heap.                                                  *)

\* Every owner is counted, so no object is freed under an owner.
OwnedHeap(h) == \A o \in Obj : h.cnt[o] >= Cardinality(Holders(h, o))

\* Every count has an owner, so every object is freed with its last owner.
BalancedHeap(h) == \A o \in Obj : h.cnt[o] = Cardinality(Holders(h, o))

=============================================================================
