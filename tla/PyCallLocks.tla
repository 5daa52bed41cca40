----------------------------- MODULE PyCallLocks -----------------------------
(***************************************************************************)
(* The two interpreter locks: which thread holds Ruby's GVL and Python's   *)
(* GIL while Ruby code, Python code and pycall call each other.            *)
(*                                                                         *)
(* Only the thread that loaded pycall.so calls Python (more is not         *)
(* supported); it took the GIL when it initialised Python and never gives  *)
(* it up in Ruby code. The other threads run Ruby code, and may collect.   *)
(*                                                                         *)
(* Every fiber has a stack of frames. A frame that exchanged a lock on     *)
(* entry is marked undo, and exchanges it back on exit:                    *)
(*   block     a PyCall.without_gvl block                                  *)
(*   call      pyobject_call: Python runs; undo: without the GVL           *)
(*   capi      any other C API function that runs Python code              *)
(*   callback  Python called a Ruby object; undo: it took the GVL          *)
(*   dealloc   Python frees a PyRuby object; undo: it took the GVL         *)
(*   free      pycall_pyptr_free, in a sweep; undo: it took the GIL        *)
(***************************************************************************)
EXTENDS Integers, Sequences

CONSTANTS
  Thread,        \* Ruby threads
  Main,          \* the one that loaded pycall.so
  ExtraFiber,    \* fibers of Main, besides its root fiber
  Collectors,    \* threads in which Ruby's collector may run
  FiberInBlock,  \* whether the program resumes a fiber inside a block
  MaxFrames,     \* bound: depth of a stack
  None

\* A thread names its root fiber.
Fiber == Thread \cup ExtraFiber
Home(f) == IF f \in Thread THEN f ELSE Main

ASSUME LocksAssumption ==
  /\ Main \in Thread /\ Collectors \subseteq Thread
  /\ Thread \cap ExtraFiber = {}
  /\ None \notin Thread
  /\ FiberInBlock \in BOOLEAN /\ MaxFrames \in Nat

VARIABLES
  gvl, gil,   \* the thread that holds the lock, or None
  flag,       \* thread-local storage: the value at without_gvl_key
  current,    \* the fiber each thread is running
  stack,      \* the frames of each fiber, the innermost last
  wants       \* the lock each thread is blocked on: "gvl", "gil" or "none"

vars == <<gvl, gil, flag, current, stack, wants>>

RubyKind   == {"main", "block", "callback"}
PythonKind == {"call", "capi", "free"}
Frame == [kind : {"block", "callback", "dealloc"} \cup PythonKind, undo : BOOLEAN]

Typed ==
  /\ gvl \in Thread \cup {None} /\ gil \in Thread \cup {None}
  /\ flag \in [Thread -> BOOLEAN]
  /\ current \in [Thread -> Fiber]
  /\ \A t \in Thread : Home(current[t]) = t
  /\ stack \in [Fiber -> Seq(Frame)]
  /\ wants \in [Thread -> {"none", "gvl", "gil"}]

\* The types; and neither lock can be taken twice: pycall asks for one only
\* where the thread does not hold it.
TypeOK ==
  /\ Typed
  /\ \A t \in Thread :
       (wants[t] = "gvl" => gvl # t) /\ (wants[t] = "gil" => gil # t)

Init ==
  /\ gvl = Main /\ gil = Main
  /\ flag = [t \in Thread |-> FALSE]
  /\ current = [t \in Thread |-> t]
  /\ stack = [f \in Fiber |-> <<>>]
  /\ wants = [t \in Thread |-> IF t = Main THEN "none" ELSE "gvl"]

-----------------------------------------------------------------------------
Stack(t) == stack[current[t]]
Top(t) == IF Stack(t) = <<>> THEN [kind |-> "main", undo |-> FALSE]
                             ELSE Stack(t)[Len(Stack(t))]

Runs(t, kinds) == wants[t] = "none" /\ Top(t).kind \in kinds
RunsRuby(t)    == Runs(t, RubyKind)
RunsPython(t)  == Runs(t, PythonKind)

Push(t, kind, undo) ==
  /\ Len(Stack(t)) < MaxFrames
  /\ stack' = [stack EXCEPT ![current[t]] =
                 Append(@, [kind |-> kind, undo |-> undo])]

Pop(t) == stack' = [stack EXCEPT ![current[t]] = SubSeq(@, 1, Len(@) - 1)]

Want(t, lock) == wants' = [wants EXCEPT ![t] = lock]

-----------------------------------------------------------------------------
(* The locks, outside of pycall.                                           *)

TakeGVL(t) ==
  /\ wants[t] = "gvl" /\ gvl = None
  /\ gvl' = t
  /\ Want(t, "none")
  /\ UNCHANGED <<gil, flag, current, stack>>

TakeGIL(t) ==
  /\ wants[t] = "gil" /\ gil = None
  /\ gil' = t
  /\ Want(t, "none")
  /\ UNCHANGED <<gvl, flag, current, stack>>

\* Ruby code is preempted, or blocks.
Preempt(t) ==
  /\ RunsRuby(t)
  /\ gvl' = None
  /\ Want(t, "gvl")
  /\ UNCHANGED <<gil, flag, current, stack>>

\* Python code lets other Python threads run.
DropGIL(t) ==
  /\ RunsPython(t)
  /\ gil' = None
  /\ Want(t, "gil")
  /\ UNCHANGED <<gvl, flag, current, stack>>

-----------------------------------------------------------------------------
(* Ruby code.                                                              *)

EnterBlock(t) ==
  /\ RunsRuby(t)
  /\ flag' = [flag EXCEPT ![t] = TRUE]
  /\ Push(t, "block", FALSE)
  /\ UNCHANGED <<gvl, gil, current, wants>>

\* Mutant: an exception leaves the block past pycall_set_with_gvl.
LeaveBlockUnprotected(t) ==
  /\ Runs(t, {"block"})
  /\ flag' \in {flag, [flag EXCEPT ![t] = FALSE]}
  /\ Pop(t)
  /\ UNCHANGED <<gvl, gil, current, wants>>

\* rb_protect returns here however the block was left.
LeaveBlock(t) ==
  /\ Runs(t, {"block"})
  /\ flag' = [flag EXCEPT ![t] = FALSE]
  /\ Pop(t)
  /\ UNCHANGED <<gvl, gil, current, wants>>

\* Fiber.yield and Fiber#resume, with no C frame of Python on either stack.
ResumeFiber(t, f) ==
  /\ RunsRuby(t)
  /\ Home(f) = t /\ f # current[t]
  /\ \A s \in {Stack(t), stack[f]} :
       \A i \in 1..Len(s) : s[i].kind = "block" /\ FiberInBlock
  /\ current' = [current EXCEPT ![t] = f]
  /\ UNCHANGED <<gvl, gil, flag, stack, wants>>

-----------------------------------------------------------------------------
(* Calls from Ruby to Python.                                              *)

\* Mutant: the call is made without giving the GVL up.
CallObjectKeepsGVL(t) ==
  /\ t = Main /\ RunsRuby(t)
  /\ Push(t, "call", flag[t])
  /\ UNCHANGED <<gvl, gil, flag, current, wants>>

CallObject(t) ==
  /\ t = Main /\ RunsRuby(t)
  /\ Push(t, "call", flag[t])
  /\ gvl' = IF flag[t] THEN None ELSE gvl
  /\ UNCHANGED <<gil, flag, current, wants>>

CallApi(t) ==
  /\ t = Main /\ RunsRuby(t)
  /\ Push(t, "capi", FALSE)
  /\ UNCHANGED <<gvl, gil, flag, current, wants>>

Return(t) ==
  /\ Runs(t, {"call", "capi"})
  /\ Pop(t)
  /\ Want(t, IF Top(t).undo THEN "gvl" ELSE "none")
  /\ UNCHANGED <<gvl, gil, flag, current>>

-----------------------------------------------------------------------------
(* From Python to Ruby: the ..._with_gvl slots of PyRuby_Type. A sweep may *)
(* free a PyRuby object, but no Ruby code runs in it.                      *)

\* Mutant: the slot functions do not look for the GVL.
EnterRubyAsIs(t, kind) ==
  /\ RunsPython(t)
  /\ kind = "dealloc" \/ Top(t).kind # "free"
  /\ Push(t, kind, FALSE)
  /\ UNCHANGED <<gvl, gil, flag, current, wants>>

\* Mutant: the slot functions ask for the GVL without looking for it.
EnterRubyAlwaysAsks(t, kind) ==
  /\ RunsPython(t)
  /\ kind = "dealloc" \/ Top(t).kind # "free"
  /\ Push(t, kind, TRUE)
  /\ Want(t, "gvl")
  /\ UNCHANGED <<gvl, gil, flag, current>>

EnterRuby(t, kind) ==
  /\ RunsPython(t)
  /\ kind = "dealloc" \/ Top(t).kind # "free"
  /\ Push(t, kind, gvl # t)
  /\ Want(t, IF gvl # t THEN "gvl" ELSE "none")
  /\ UNCHANGED <<gvl, gil, flag, current>>

\* Mutant: the GVL stays with the thread.
LeaveRubyKeepsGVL(t) ==
  /\ Runs(t, {"callback", "dealloc"})
  /\ Pop(t)
  /\ UNCHANGED <<gvl, gil, flag, current, wants>>

LeaveRuby(t) ==
  /\ Runs(t, {"callback", "dealloc"})
  /\ Pop(t)
  /\ gvl' = IF Top(t).undo THEN None ELSE gvl
  /\ UNCHANGED <<gil, flag, current, wants>>

-----------------------------------------------------------------------------
(* The collector frees a PyPtr.                                            *)

Collect(t) ==
  /\ t \in Collectors /\ RunsRuby(t)
  /\ Push(t, "free", gil # t)
  /\ Want(t, IF gil # t THEN "gil" ELSE "none")
  /\ UNCHANGED <<gvl, gil, flag, current>>

\* Mutant: PyGILState_Release also after PyGILState_Check succeeded.
FreedAlwaysReleases(t) ==
  /\ Runs(t, {"free"})
  /\ Pop(t)
  /\ gil' = None
  /\ UNCHANGED <<gvl, flag, current, wants>>

Freed(t) ==
  /\ Runs(t, {"free"})
  /\ Pop(t)
  /\ gil' = IF Top(t).undo THEN None ELSE gil
  /\ UNCHANGED <<gvl, flag, current, wants>>

-----------------------------------------------------------------------------
Step(t) ==
  \/ TakeGVL(t) \/ TakeGIL(t) \/ Preempt(t) \/ DropGIL(t)
  \/ EnterBlock(t) \/ LeaveBlock(t)
  \/ \E f \in Fiber : ResumeFiber(t, f)
  \/ CallObject(t) \/ CallApi(t) \/ Return(t)
  \/ EnterRuby(t, "callback") \/ EnterRuby(t, "dealloc") \/ LeaveRuby(t)
  \/ Collect(t) \/ Freed(t)

Next == \E t \in Thread : Step(t)

\* Both locks are handed over in a queue, Ruby's timer interrupts Ruby code
\* that holds the GVL, and what runs in a sweep ends. Python code called from
\* Ruby, blocks and callbacks need not end.
Fairness == \A t \in Thread :
  /\ SF_vars(TakeGVL(t)) /\ SF_vars(TakeGIL(t)) /\ SF_vars(Preempt(t))
  /\ WF_vars(Freed(t)) /\ WF_vars(Runs(t, {"dealloc"}) /\ LeaveRuby(t))

Spec == Init /\ [][Next]_vars
FairSpec == Spec /\ Fairness

-----------------------------------------------------------------------------
(* Properties.                                                             *)

\* Ruby code and the guard table are touched only under the GVL, also when
\* Python called without it calls back.
RubyHasGVL == \A t \in Thread : Runs(t, RubyKind \cup {"dealloc"}) => gvl = t

\* The C API is used only under the GIL: by a thread that frees a PyPtr, and
\* by Main, which never asks for the GIL before it calls Python, so it has to
\* hold it whenever it runs at all.
PythonHasGIL == \A t \in Thread :
  wants[t] = "none" /\ (t = Main \/ RunsPython(t)) => gil = t

\* A Python call that gave the GVL up runs without it, and gets back to
\* running without it after every callback.
ReleasedMeansReleased ==
  \A t \in Thread : Runs(t, {"call"}) => (gvl = t <=> ~Top(t).undo)

\* A frame of a call, and the blocks around it on its fiber.
InBlock(f, i) == \E j \in 1..i : stack[f][j].kind = "block"
CallFrames == {fi \in Fiber \X (1..MaxFrames) :
                 fi[2] <= Len(stack[fi[1]]) /\ stack[fi[1]][fi[2]].kind = "call"}

\* Outside of without_gvl blocks no other Ruby thread runs during a call.
KeptOutsideBlocks ==
  \A fi \in CallFrames :
    stack[fi[1]][fi[2]].undo => InBlock(fi[1], fi[2])

\* In a without_gvl block every Python function call gives the GVL up.
ReleasedInBlocks ==
  \A fi \in CallFrames :
    InBlock(fi[1], fi[2]) => stack[fi[1]][fi[2]].undo

\* No thread waits for the GIL of a thread that waits for its GVL. A thread
\* that frees a PyPtr does, once Main was preempted in Ruby code: Main has the
\* GIL whatever it runs, and asks for nothing but the GVL.
NoLockCycle ==
  ~ \E t, u \in Thread : /\ wants[t] = "gil" /\ gil = u
                         /\ wants[u] = "gvl" /\ gvl = t

\* As long as no thread but Main collects, a thread that waits for the GVL
\* gets it, unless Python code called with the GVL keeps it for ever: a call
\* in a without_gvl block never holds other threads up.
OnlyMainFrees == \A t \in Thread \ {Main} : Top(t).kind # "free"
KeepsGVL == \E t \in Thread :
  /\ gvl = t
  /\ Top(t).kind \notin RubyKind
  /\ ~(Top(t).kind = "call" /\ Top(t).undo)
Responsive ==
  []OnlyMainFrees =>
    \A t \in Thread : wants[t] = "gvl" ~> (gvl = t \/ []KeepsGVL)

=============================================================================
