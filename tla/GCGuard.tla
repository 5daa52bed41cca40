------------------------------ MODULE GCGuard -------------------------------
(***************************************************************************)
(* Ruby objects that Python refers to. A PyRuby is Python's wrapper of a   *)
(* Ruby object, a PyRubyPtr Ruby's pointer to a PyRuby, and the guard's    *)
(* table keeps the wrapped objects from Ruby's collector, which does not   *)
(* see Python's references.                                                *)
(***************************************************************************)
EXTENDS Naturals, FiniteSets

CONSTANTS
  Slot,       \* Ruby's heap
  PyRuby,     \* PyRubys; the memory of one is never used again
  MaxHolders, \* bound: references of Python to one PyRuby
  Cycles,     \* BOOLEAN: the program makes cycles through both heaps
  None

ASSUME GuardAssumption == MaxHolders \in Nat /\ None \notin Slot \cup PyRuby

VARIABLES
  kind,     \* what is in each slot: "free", "object" or "pointer"
  refers,   \* the slots an object refers to
  points,   \* the PyRuby of a PyRubyPtr
  roots,    \* what Ruby code refers to
  white,    \* found unreachable, and not yet swept
  wrapped,  \* the Ruby object of a PyRuby
  holders,  \* how many references Python has to it
  local,    \* the PyRuby that pycall_wrap_ruby_object holds
  waiting,  \* PyRubys whose deallocation waits for the GVL
  guard,    \* guarded_objects
  ivar,     \* gcguard_table of PyCall: "table" or "nil"
  freed,    \* the table was freed
  misused,  \* and used afterwards
  exiting   \* Ruby finalises the heap

ruby   == <<kind, refers, points, roots, white>>
python == <<wrapped, holders, local>>
table  == <<guard, ivar, freed, misused>>
vars   == <<kind, refers, points, roots, white, wrapped, holders, local, waiting,
            guard, ivar, freed, misused, exiting>>

Used == {r \in Slot : kind[r] # "free"}

Closed(S) == \A r \in S : refers[r] \subseteq S

\* What Ruby's collector reaches: a PyRubyPtr has no mark function.
Reach(S) == {r \in Slot : \A T \in SUBSET Slot : S \subseteq T /\ Closed(T) => r \in T}

Guarded == {guard[w] : w \in {v \in PyRuby : guard[v] # None}}

Pointers(w) == {r \in Slot : points[r] = w}

Referenced(w) == holders[w] > 0 \/ local = w \/ Pointers(w) # {}

Init ==
  /\ kind = [r \in Slot |-> "free"] /\ refers = [r \in Slot |-> {}]
  /\ points = [r \in Slot |-> None]
  /\ roots = {} /\ white = {}
  /\ wrapped = [w \in PyRuby |-> None] /\ holders = [w \in PyRuby |-> 0]
  /\ local = None /\ waiting = {}
  /\ guard = [w \in PyRuby |-> None] /\ ivar = "table"
  /\ freed = FALSE /\ misused = FALSE /\ exiting = FALSE

-----------------------------------------------------------------------------
(* The table.                                                              *)

\* gcguard_aset.
Aset(w, r) ==
  /\ guard' = [guard EXCEPT ![w] = r]
  /\ UNCHANGED <<ivar, freed, misused>>

\* pycall_gcguard_delete: nothing to do when the table is gone.
Delete(w) ==
  /\ guard' = [guard EXCEPT ![w] = None]
  /\ misused' = (misused \/ (ivar = "table" /\ freed))
  /\ UNCHANGED <<ivar, freed>>

\* Mutant: the entry stays.
DeallocForgets(w) == UNCHANGED table

\* PyRuby_dealloc, on a thread that has the GVL.
Dealloc(w) == Delete(w)

\* A thread with the GVL has dropped a reference to w.
Dropped(w, last) == IF last THEN Dealloc(w) ELSE UNCHANGED table

-----------------------------------------------------------------------------
(* Ruby code.                                                              *)

Running == ~exiting

NewObject(r) ==
  /\ Running /\ kind[r] = "free"
  /\ kind' = [kind EXCEPT ![r] = "object"]
  /\ roots' = roots \cup {r}
  /\ UNCHANGED <<refers, points, white, python, waiting, table, exiting>>

Forget(r) ==
  /\ Running /\ r \in roots
  /\ roots' = roots \ {r}
  /\ UNCHANGED <<kind, refers, points, white, python, waiting, table, exiting>>

\* One step from an object of either heap.
Onward(S) == S \cup UNION {refers[r] : r \in S}
               \cup {wrapped[points[r]] : r \in {q \in S : points[q] # None}}

\* What the slots of S reach through both heaps.
Through(S) ==
  LET after[n \in 0..Cardinality(Slot)] == IF n = 0 THEN S ELSE Onward(after[n - 1])
  IN after[Cardinality(Slot)]

\* An instance variable, or a local of a block, refers to q; one such
\* reference of each object is enough.
Refer(r, q) ==
  /\ Running /\ {r, q} \subseteq Reach(roots) /\ kind[r] = "object"
  /\ refers[r] = {}
  /\ ~Cycles => r \notin Through({q})
  /\ refers' = [refers EXCEPT ![r] = {q}]
  /\ UNCHANGED <<kind, points, roots, white, python, waiting, table, exiting>>

\* Mutant: a PyRuby is made without the guard.
PyRubyNewUnguarded(w, r) == wrapped' = [wrapped EXCEPT ![w] = r] /\ UNCHANGED table

\* PyRuby_New_impl.
PyRubyNew(w, r) == wrapped' = [wrapped EXCEPT ![w] = r] /\ Aset(w, r)

\* pycall_pyobject_from_ruby of an object that has no other conversion.
FromRuby(w, r) ==
  /\ Running /\ wrapped[w] = None
  /\ r \in Reach(roots) /\ kind[r] = "object"
  /\ PyRubyNew(w, r)
  /\ holders' = [holders EXCEPT ![w] = 1]
  /\ UNCHANGED <<ruby, local, waiting, exiting>>

\* pycall_wrap_ruby_object: allocating the PyRubyPtr may run the collector.
WrapRubyObject(w, r) ==
  /\ Running /\ wrapped[w] = None /\ local = None
  /\ r \in Reach(roots)
  /\ PyRubyNew(w, r)
  /\ local' = w
  /\ UNCHANGED <<ruby, holders, waiting, exiting>>

PyRubyPtrNew(r) ==
  /\ Running /\ local # None /\ kind[r] = "free"
  /\ kind' = [kind EXCEPT ![r] = "pointer"]
  /\ points' = [points EXCEPT ![r] = local]
  /\ roots' = roots \cup {r}
  /\ local' = None
  /\ UNCHANGED <<refers, white, wrapped, holders, waiting, table, exiting>>

\* A PyRubyPtr is passed to Python.
PassPointer(r) ==
  /\ Running /\ r \in Reach(roots) /\ points[r] # None /\ holders[points[r]] < MaxHolders
  /\ holders' = [holders EXCEPT ![points[r]] = @ + 1]
  /\ UNCHANGED <<ruby, wrapped, local, waiting, table, exiting>>

\* PyPtr.decref.
PtrDecref(r) ==
  /\ Running /\ r \in Reach(roots) /\ points[r] # None
  /\ points' = [points EXCEPT ![r] = None]
  /\ LET w == points[r] IN Dropped(w, holders[w] = 0 /\ local # w /\ Pointers(w) = {r})
  /\ UNCHANGED <<kind, refers, roots, white, python, waiting, exiting>>

-----------------------------------------------------------------------------
(* Python code.                                                            *)

PyIncref(w) ==
  /\ Running /\ holders[w] \in 1..MaxHolders - 1
  /\ holders' = [holders EXCEPT ![w] = @ + 1]
  /\ UNCHANGED <<ruby, wrapped, local, waiting, table, exiting>>

Last(w) == holders[w] = 1 /\ local # w /\ Pointers(w) = {}

PyDecref(w) ==
  /\ Running /\ holders[w] > 0
  /\ holders' = [holders EXCEPT ![w] = @ - 1]
  /\ \/ Dropped(w, Last(w)) /\ UNCHANGED waiting
     \/ Last(w) /\ waiting' = waiting \cup {w} /\ UNCHANGED table
  /\ UNCHANGED <<ruby, wrapped, local, exiting>>

\* The thread that dropped the last reference without the GVL gets it.
DeallocWithGVL(w) ==
  /\ Running /\ w \in waiting
  /\ waiting' = waiting \ {w}
  /\ Dealloc(w)
  /\ UNCHANGED <<ruby, python, exiting>>

\* PyRuby_getattro: the Method object, and a PyRuby for it.
Getattro(w, v, m) ==
  /\ Running /\ holders[w] > 0 /\ wrapped[v] = None /\ kind[m] = "free"
  /\ kind' = [kind EXCEPT ![m] = "object"]
  /\ refers' = [refers EXCEPT ![m] = {wrapped[w]}]
  /\ PyRubyNew(v, m)
  /\ holders' = [holders EXCEPT ![v] = 1]
  /\ UNCHANGED <<points, roots, white, local, waiting, exiting>>

\* PyRuby_call: the object runs, and its method has it as self.
Call(w) ==
  /\ Running /\ holders[w] > 0
  /\ roots' = roots \cup {wrapped[w]}
  /\ UNCHANGED <<kind, refers, points, white, python, waiting, table, exiting>>

-----------------------------------------------------------------------------
(* Ruby's collector, which sweeps lazily, and the end of the process.      *)

Mark ==
  /\ Running /\ white = {}
  /\ UNCHANGED <<kind, refers, points, roots, python, waiting, table, exiting>>
  /\ white' = Used \ Reach(roots \cup IF ivar = "table" THEN Guarded ELSE {})

\* A PyRubyPtr gives up its reference; the sweeping thread has the GVL.
Sweep(r) ==
  /\ r \in white
  /\ white' = white \ {r}
  /\ kind' = [kind EXCEPT ![r] = "free"]
  /\ refers' = [refers EXCEPT ![r] = {}]
  /\ points' = [points EXCEPT ![r] = None]
  /\ LET w == points[r]
     IN IF w = None THEN UNCHANGED table
        ELSE Dropped(w, holders[w] = 0 /\ local # w /\ Pointers(w) = {r})
  /\ UNCHANGED <<roots, python, waiting, exiting>>

\* rb_objspace_call_finalizer frees all objects, in the order of the heap.
Exit ==
  /\ Running /\ exiting' = TRUE
  /\ roots' = {} /\ white' = Used
  /\ UNCHANGED <<kind, refers, points, python, waiting, table>>

\* Mutant: PyCall keeps its reference to the table.
GuardFreeKeepsIvar ==
  /\ exiting /\ ~freed
  /\ freed' = TRUE
  /\ UNCHANGED <<ruby, python, waiting, guard, ivar, misused, exiting>>

\* gcguard_free.
GuardFree ==
  /\ exiting /\ ~freed
  /\ freed' = TRUE /\ ivar' = "nil"
  /\ UNCHANGED <<ruby, python, waiting, guard, misused, exiting>>

Next ==
  \/ \E r \in Slot : NewObject(r) \/ Forget(r) \/ PyRubyPtrNew(r) \/ PassPointer(r)
                       \/ PtrDecref(r) \/ Sweep(r)
  \/ \E r, q \in Slot : Refer(r, q)
  \/ \E w \in PyRuby, r \in Slot : FromRuby(w, r) \/ WrapRubyObject(w, r)
  \/ \E w \in PyRuby : PyIncref(w) \/ PyDecref(w) \/ DeallocWithGVL(w) \/ Call(w)
  \/ \E w, v \in PyRuby, m \in Slot : Getattro(w, v, m)
  \/ Mark \/ Exit \/ GuardFree

\* A program that goes on allocates, and so collects; a thread that waits for
\* the GVL gets it.
Fairness ==
  /\ WF_vars(Mark \/ \E r \in Slot : Sweep(r))
  /\ WF_vars(\E w \in PyRuby : DeallocWithGVL(w))

Spec == Init /\ [][Next]_vars /\ Fairness

-----------------------------------------------------------------------------
(* Properties.                                                             *)

\* While anything refers to a PyRuby, its Ruby object is neither freed nor
\* about to be: Python may call it at any time (PyRuby_call, PyRuby_getattro).
GuardedWhileReferenced ==
  Running => \A w \in PyRuby : Referenced(w) => wrapped[w] \in Used \ white

\* The table holds nothing for a PyRuby that is gone, or the object would
\* stay for ever; a deallocation that waits for the GVL will remove it.
GuardForgets ==
  ivar = "table" =>
    \A w \in PyRuby : guard[w] # None => Referenced(w) \/ w \in waiting

\* In whatever order the process is finalised, the guard's table is not used
\* after it was freed (gc.c 24-30, 66).
TableNotMisused == ~misused

\* What no language can reach any more is freed at some time, when the program
\* makes no cycle through both heaps: the guard lets go.
Needed == Through(roots \cup {wrapped[w] : w \in {v \in PyRuby : holders[v] > 0 \/ local = v}})

GarbageIsFreed == \A r \in Slot : r \in Used \ Needed ~> r \notin Used

=============================================================================
