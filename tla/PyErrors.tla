------------------------------ MODULE PyErrors ------------------------------
(***************************************************************************)
(* Errors that cross between Python and Ruby.                              *)
(*                                                                         *)
(* CPython keeps a pending exception in the thread's error indicator; a    *)
(* Ruby exception, a break or a throw unwinds the C stack by longjmp.      *)
(* Each function of pycall has its own way to turn the first into the      *)
(* second: by the value its C API call returned, by asking whether the     *)
(* indicator is set (and then it may find an old error), or not at all.    *)
(* Callbacks turn the second into a None, or let it unwind Python.         *)
(*                                                                         *)
(* A frame of the stack is a function of pycall waiting for Python, or a   *)
(* Ruby method or block. Functions that treat errors alike share a kind.   *)
(***************************************************************************)
EXTENDS Integers

CONSTANTS
  Programs,  \* the programs considered, each the set of features it uses
  MaxDepth   \* bound: frames above the main program

ASSUME ErrorsAssumption == MaxDepth \in Nat

VARIABLES
  prog,    \* the program
  ind,     \* the type of the exception in the error indicator, or "none"
  fly,     \* what is unwinding the stack, or "none"
  cut,     \* is the '=' of the setter's name overwritten? See SetterEnter
  depth,   \* number of frames above the main program
  frame    \* what each frame is doing

vars == <<prog, ind, fly, cut, depth, frame>>
stack == <<depth, frame>>

\* Features that may leave an error pending when they are done.
LeavesError == {"blind", "bad_text", "interrupt"}
Careful == prog \cap LeavesError = {}

\* Features that run Ruby code or raise outside of rb_protect under Python.
Unprotected == {"slot", "hash_result"}

\* A Python exception is told apart only when it ends an iteration.
PyExc == {"StopIteration", "Error"}

\* A PyError of each type, another Ruby exception, and a break or a throw.
Flight == PyExc \cup {"RubyError", "throw", "none"}

\* Functions of pycall.c that call Python, one kind for each treatment.
CKind == {"getattr", "checked", "probe", "kindof", "blind", "call", "todict",
          "each", "setter"}

\* Ruby code: the program, a callable or another object that Python uses,
\* and the methods of PyProtocols.
RubyKind == {"main", "callback", "slot", "with", "loop"}

Frame == [kind : CKind \cup RubyKind \cup {"idle"},
          pc   : {"python", "failing", "returned", "raised", "args", "ruby",
                  "result", "enter", "exit", "iter", "next", "idle"},
          err  : Flight]

IdleFrame == [kind |-> "idle", pc |-> "idle", err |-> "none"]
NewFrame(k, at) == [kind |-> k, pc |-> at, err |-> "none"]

Typed ==
  /\ prog \in Programs
  /\ ind \in PyExc \cup {"none"} /\ fly \in Flight /\ cut \in BOOLEAN
  /\ depth \in 0..MaxDepth
  /\ frame \in [0..MaxDepth -> Frame]
  /\ \A d \in 0..MaxDepth : frame[d].kind = "idle" <=> d > depth

\* The types; and a failure comes with an exception: neither Python nor a slot
\* of a Ruby object returns NULL with the error indicator clear.
TypeOK == Typed /\ (frame[depth].pc \in {"raised", "failing"} => ind # "none")

Init ==
  /\ prog \in Programs
  /\ ind = "none" /\ fly = "none" /\ cut = FALSE
  /\ depth = 0
  /\ frame = [d \in 0..MaxDepth |-> IF d = 0 THEN NewFrame("main", "ruby") ELSE IdleFrame]

-----------------------------------------------------------------------------
(* The stack.                                                              *)

Top == frame[depth]
In(k) == Top.kind = k

Running  == fly = "none"
InRuby   == Running /\ Top.pc = "ruby"
InPython == Running /\ Top.pc = "python"

\* Python has given control back to a function of kind k.
Back(k) == Running /\ In(k) /\ Top.pc \in {"returned", "raised"}
Failed  == Top.pc = "raised"

Push(k, at) ==
  /\ depth < MaxDepth
  /\ depth' = depth + 1
  /\ frame' = [frame EXCEPT ![depth + 1] = NewFrame(k, at)]

Pop ==
  /\ depth' = depth - 1
  /\ frame' = [frame EXCEPT ![depth] = IdleFrame]

Goto(at) ==
  /\ depth' = depth
  /\ frame' = [frame EXCEPT ![depth].pc = at]

\* The top frame ends, and the one below it goes on at `at'.
PopTo(at) ==
  /\ depth' = depth - 1
  /\ frame' = [frame EXCEPT ![depth] = IdleFrame, ![depth - 1].pc = at]

-----------------------------------------------------------------------------
(* What a function of pycall leaves behind: the indicator, and what flies. *)

Leave(i, f) == ind' = i /\ fly' = f

\* pycall_pyerror_fetch_and_raise: PyErr_Fetch clears the indicator; without
\* a pending exception a PyCall::Error is raised.
FetchAndRaise == Leave("none", IF ind = "none" THEN "RubyError" ELSE ind)

\* Looking a class up for an object may call PyObject_IsSubclass, whose failure
\* counts as yes: the object becomes an instance of the wrong class, or that
\* class refuses it with a TypeError.
MisjudgedClass ==
  "blind" \in prog /\ \E f \in {"none", "RubyError"} : Leave("Error", f)

\* pycall_pyobject_to_ruby of a result. An integer is taken for an error if
\* one is pending.
ConvertResult ==
  \/ Leave(ind, "none")
  \/ ind # "none" /\ FetchAndRaise
  \/ MisjudgedClass

-----------------------------------------------------------------------------
(* Functions of pycall.                                                    *)

\* Ruby code calls a function of kind k, which calls Python.
Enter(k) ==
  /\ InRuby /\ k \in prog
  /\ Push(k, "python")
  /\ UNCHANGED <<ind, fly, cut>>

\* getattr: with a default value, errors are cleared, old ones included. Then
\* the result is converted.
GetattrReturn ==
  /\ Back("getattr")
  /\ \/ Failed /\ FetchAndRaise
     \/ Leave("none", "none")
     \/ ~Failed /\ MisjudgedClass
  /\ Pop /\ UNCHANGED cut

\* compare, setattr, delattr, getitem, setitem, delitem, str, dir, import and
\* the contains functions: by the value the C API call returned.
CheckedReturn ==
  /\ Back("checked")
  /\ IF Failed THEN FetchAndRaise ELSE ConvertResult
  /\ Pop /\ UNCHANGED cut

\* hasattr? and PyPtr#hash: a failure is an answer, and is cleared.
ProbeReturn ==
  /\ Back("probe")
  /\ Leave(IF Failed THEN "none" ELSE ind, "none")
  /\ Pop /\ UNCHANGED cut

\* Mutant: the failure is not cleared.
KindOfReturnKeeps ==
  /\ Back("kindof")
  /\ Leave(ind, IF Failed THEN "RubyError" ELSE "none")
  /\ Pop /\ UNCHANGED cut

\* kind_of?: a failure is cleared, and then the Python class is taken for a
\* Ruby class, which raises TypeError.
KindOfReturn ==
  /\ Back("kindof")
  /\ IF Failed THEN Leave("none", "RubyError") ELSE Leave(ind, "none")
  /\ Pop /\ UNCHANGED cut

\* subclass_p and the memsize of a PyPtr: a failure is returned as -1, which
\* means true or a size, and the indicator stays set.
BlindReturn ==
  /\ Back("blind")
  /\ Leave(ind, "none")
  /\ Pop /\ UNCHANGED cut

\* A String that is not UTF-8 becomes NULL with an error pending. setattr and
\* the arguments of a call pass the NULL on: PyObject_SetAttrString deletes the
\* attribute, PyTuple_SetItem leaves a hole. A key, a wrapper's setter and a
\* call with keywords see the error first, and raise it.
BadText ==
  /\ InRuby /\ "bad_text" \in prog
  /\ \/ \E k \in {"checked", "call"} : Push(k, "python") /\ Leave("Error", "none")
     \/ Leave("none", "Error") /\ UNCHANGED stack
  /\ UNCHANGED cut

\* Keyword arguments are stored, then PyErr_Occurred decides about the call.
CallKwargs ==
  /\ InRuby /\ "call" \in prog
  /\ \/ ind # "none" /\ FetchAndRaise /\ UNCHANGED stack
     \/ ind = "none" /\ Push("call", "python") /\ UNCHANGED <<ind, fly>>
  /\ UNCHANGED cut

CallReturn ==
  /\ Back("call")
  /\ IF Failed THEN FetchAndRaise ELSE ConvertResult
  /\ Pop /\ UNCHANGED cut

\* In a without_gvl block, an interrupt of the thread is raised by
\* rb_thread_call_without_gvl, after the call and over the rest of CallReturn.
CallInterrupted ==
  /\ Back("call") /\ "interrupt" \in prog
  /\ Leave(ind, "RubyError")
  /\ Pop /\ UNCHANGED cut

\* A Hash becomes a dict: PyObject_SetItem runs __hash__ and __eq__, and
\* PyErr_Occurred is asked at the end.
DictFromRubyReturn ==
  /\ Back("todict")
  /\ IF ind # "none" THEN FetchAndRaise ELSE Leave(ind, "none")
  /\ Pop /\ UNCHANGED cut

\* sequence_each: PyObject_GetIter and each PyIter_Next.
EachYield ==
  /\ Back("each") /\ ~Failed
  /\ ConvertResult
  /\ IF fly' = "none" THEN Goto("ruby") ELSE Pop
  /\ UNCHANGED cut

EachNext ==
  /\ InRuby /\ In("each")
  /\ Goto("python") /\ UNCHANGED <<ind, fly, cut>>

\* Mutant: the end of the loop is not checked.
EachEndUnchecked ==
  /\ Back("each")
  /\ Leave(ind, "none")
  /\ Pop /\ UNCHANGED cut

\* NULL means the end or an error: PyErr_Occurred is asked.
EachEnd ==
  /\ Back("each")
  /\ IF ind # "none" THEN FetchAndRaise ELSE Leave(ind, "none")
  /\ Pop /\ UNCHANGED cut

-----------------------------------------------------------------------------
(* The setter of a wrapper, `w.name = v'. It overwrites the '=' in the     *)
(* characters of the Symbol itself while Python sets the attribute.        *)

\* With the '=' gone the name has a NUL in it: ArgumentError.
SetterEnter ==
  /\ InRuby /\ "setter" \in prog
  /\ \/ cut /\ fly' = "RubyError" /\ UNCHANGED <<cut, stack>>
     \/ ~cut /\ Push("setter", "python") /\ cut' = TRUE /\ UNCHANGED fly
  /\ UNCHANGED ind

\* Mutant: the '=' is put back only if Python succeeded.
SetterReturnRaisesFirst ==
  /\ Back("setter")
  /\ IF Failed THEN FetchAndRaise ELSE Leave(ind, "none")
  /\ Pop /\ cut' = (cut /\ Failed)

SetterReturn ==
  /\ Back("setter")
  /\ IF Failed THEN FetchAndRaise ELSE Leave(ind, "none")
  /\ Pop /\ cut' = FALSE

-----------------------------------------------------------------------------
(* Python.                                                                 *)

\* Exceptions that leave the Python code below the top frame. PyIter_Next
\* keeps StopIteration to itself; a program without the feature "stop" has
\* no other code that raises it than the __next__ of PyProtocols.
CanRaise == {"Error"} \cup (IF "stop" \in prog /\ ~In("each") THEN {"StopIteration"} ELSE {})

PyRaise(e) ==
  /\ InPython
  /\ Leave(e, "none")
  /\ Goto("raised") /\ UNCHANGED cut

\* The code returns, the indicator as it was. If it was set, CPython may also
\* notice and raise SystemError: PyRaise.
PyReturn ==
  /\ InPython
  /\ Goto("returned") /\ UNCHANGED <<ind, fly, cut>>

\* The code raises and handles an exception, which replaces an older one.
PyHandle ==
  /\ InPython /\ ind # "none"
  /\ Leave("none", "none") /\ UNCHANGED <<stack, cut>>

\* A callback has failed with an exception, which the code handles or not.
PyFail ==
  /\ Running /\ Top.pc = "failing"
  /\ \/ Goto("raised") /\ UNCHANGED <<ind, fly>>
     \/ Goto("python") /\ Leave("none", "none")
  /\ UNCHANGED cut

-----------------------------------------------------------------------------
(* Python calls Ruby: PyRuby_call, and the other slots of the type.        *)

\* Python calls a Ruby object, or uses its repr, hash or an attribute.
CallbackEnter(k, at) ==
  /\ InPython /\ k \in prog
  /\ Push(k, at) /\ UNCHANGED <<ind, fly, cut>>

\* Mutant: NULL for Python, but no exception.
CallbackRefuseSilently ==
  /\ Running
  /\ Top.pc = "args" \/ (Top.pc = "result" /\ "bad_text" \in prog)
  /\ PopTo("failing") /\ UNCHANGED <<ind, fly, cut>>

\* The Ruby object is gone or has no method call, or its result is a String
\* that is not UTF-8: an exception for Python.
CallbackRefuse ==
  /\ Running
  /\ Top.pc = "args" \/ (Top.pc = "result" /\ "bad_text" \in prog)
  /\ PopTo("failing")
  /\ Leave("Error", "none") /\ UNCHANGED cut

\* The arguments are converted, outside of rb_protect; then call runs.
CallbackArgs ==
  /\ Running /\ Top.pc = "args"
  /\ ConvertResult
  /\ IF fly' = "none" THEN Goto("ruby") ELSE UNCHANGED stack
  /\ UNCHANGED cut

\* The method returns, and its result is converted, outside of rb_protect:
\* a Hash by pycall_pydict_from_ruby.
CallbackDone ==
  /\ InRuby /\ In("callback")
  /\ Goto("result") /\ UNCHANGED <<ind, fly, cut>>

CallbackConvertHash ==
  /\ Running /\ Top.pc = "result" /\ "hash_result" \in prog
  /\ Push("todict", "python") /\ UNCHANGED <<ind, fly, cut>>

\* Mutant: the exception goes on into the Python caller's C frames.
CallbackSwallowPasses ==
  /\ fly # "none" /\ In("callback") /\ Top.pc = "ruby"
  /\ Pop /\ UNCHANGED <<ind, fly, cut>>

\* rb_protect stops whatever leaves the method: the result is None.
CallbackSwallow ==
  /\ fly # "none" /\ In("callback") /\ Top.pc = "ruby"
  /\ Pop /\ Leave(ind, "none") /\ UNCHANGED cut

\* Python gets the result.
CallbackReturn ==
  /\ Running
  /\ \/ In("callback") /\ Top.pc = "result"
     \/ In("slot") /\ Top.pc = "ruby"
  /\ Pop /\ UNCHANGED <<ind, fly, cut>>

-----------------------------------------------------------------------------
(* Ruby.                                                                   *)

RubyRaise ==
  /\ InRuby /\ depth > 0
  /\ fly' = "RubyError" /\ UNCHANGED <<ind, cut, stack>>

\* break, throw, or the end of a killed thread.
RubyThrow ==
  /\ InRuby /\ depth > 0 /\ "throw" \in prog
  /\ fly' = "throw" /\ UNCHANGED <<ind, cut, stack>>

\* A rescue or catch in the Ruby code of the top frame; the program has one.
RubyRescue ==
  /\ fly # "none" /\ Top.pc = "ruby"
  /\ fly' = "none" /\ UNCHANGED <<ind, cut, stack>>

\* longjmp over a frame of C code, and over the Python code it waits for.
Unwind ==
  /\ fly # "none"
  /\ \/ Top.kind \in CKind \cup {"slot"}
     \/ In("callback") /\ Top.pc \in {"args", "result"}
  /\ Pop /\ UNCHANGED <<ind, fly, cut>>

-----------------------------------------------------------------------------
CStep ==
  \/ \E k \in {"getattr", "checked", "probe", "kindof", "blind", "call", "todict", "each"} : Enter(k)
  \/ GetattrReturn \/ CheckedReturn \/ ProbeReturn \/ KindOfReturn \/ BlindReturn
  \/ BadText \/ CallKwargs \/ CallReturn \/ CallInterrupted \/ DictFromRubyReturn
  \/ EachYield \/ EachNext \/ EachEnd
  \/ SetterEnter \/ SetterReturn

PythonStep ==
  \/ \E e \in CanRaise : PyRaise(e)
  \/ PyReturn \/ PyHandle \/ PyFail
  \/ CallbackEnter("callback", "args") \/ CallbackEnter("slot", "ruby")
  \/ CallbackRefuse \/ CallbackArgs \/ CallbackDone \/ CallbackConvertHash
  \/ CallbackSwallow \/ CallbackReturn

RubyStep == RubyRaise \/ RubyThrow \/ RubyRescue \/ Unwind

Next == (CStep \/ PythonStep \/ RubyStep) /\ UNCHANGED prog

Spec == Init /\ [][Next]_vars

-----------------------------------------------------------------------------
(* Properties.                                                             *)

\* An error is pending only while Python or the function it returned to deals
\* with it, whatever is raised, rescued, thrown or unwound: no Ruby code and
\* no later function ever finds it and takes it for its own.
IndicatorClear == (Careful /\ ind # "none") => Top.pc \in {"raised", "failing"}

\* A function that saw its Python code raise does not return as if nothing
\* had happened, unless failing is one of its answers.
ErrorsReported ==
  [][(Failed /\ Running /\ depth' < depth /\ fly' = "none")
       => Top.kind \in {"getattr", "probe", "blind"}]_vars

\* Python code that calls Ruby is always resumed, with a result or an error:
\* nothing that leaves a callback unwinds its frames. (Of the programs of the
\* run only one without "throw" is in question; for breaks and throws it is the
\* theorem that says so.)
PythonResumed ==
  [][(Careful /\ prog \cap Unprotected = {} /\ Top.pc = "python") => depth' >= depth]_vars

\* The Symbol of a setter has its '=' again once no setter runs, whatever
\* Python raised or called back meanwhile: if not, no setter of that name
\* works again in the process.
NameRestored ==
  (Careful /\ prog \cap Unprotected = {} /\ cut)
    => \E d \in 1..depth : frame[d].kind = "setter"

=============================================================================
