------------------------------- MODULE PyRefs -------------------------------
(***************************************************************************)
(* Ownership of Python references by pycall: the functions of pycall.c     *)
(* that convert values, call Python and iterate, interleaved with Ruby     *)
(* code, Python code, callbacks from Python to Ruby and Ruby's GC.         *)
(*                                                                         *)
(* A pycall function that calls Python is an activation on the C stack: an *)
(* ...Enter action models it up to the call, Python runs, and a ...Return  *)
(* action models the rest. Ruby code runs when the stack is empty or its   *)
(* top is a block or a callback; Python code runs when the top's pc is     *)
(* "python". One thread is modelled: pycall supports no other.             *)
(*                                                                         *)
(* Converting an object may itself run code of the program: the wrap_pyptr *)
(* of a registered class, a metaclass's __hash__ or __subclasscheck__. A   *)
(* local or a PyPtr owns the object by then, so in general that code might *)
(* as well run before or after. The exception is dict_each: it borrows a   *)
(* value while it converts the key, and the code of that conversion is an  *)
(* activation of its own.                                                  *)
(***************************************************************************)
EXTENDS PyHeap

CONSTANTS
  Ops,     \* the entry points the program uses
  MaxRef   \* bound: no function is entered while a count is above it

VARIABLES
  heap,    \* the Python heap and the owners of its references
  depth,   \* number of pycall functions on the C stack
  frame    \* what the function at each depth does, and where it is

vars == <<heap, depth, frame>>

\* Entry points that keep a reference they never release.
Leaky == {"getattr", "setattr", "wrapper_get", "import", "import_level",
          "conv_to_ruby", "ptr_incref", "python_error", "conversion_error",
          "each_break"}

\* PyDict_Next lends its key and value to the loop. Between their conversions
\* code of the program may take the value away: a finalizer, or what the
\* conversion of the key runs.
DictRace == "dict_each" \in Ops /\ Ops \cap {"finalizer", "key_code"} # {}

Kind == {"getattr", "setattr", "method", "wrapper_set", "call", "getitem",
         "setitem", "delitem", "contains", "compare", "delattr", "str", "dir",
         "define_method", "import", "import_level", "kwargs", "iter", "each",
         "dict", "convert", "callback", "main", "idle"}

\* Where an activation is: Python runs, Python returned or raised, Ruby code
\* of a block or callback runs; or dict_each is about to call PyDict_Next,
\* converts a key, or is about to convert a value.
Pc == {"python", "returned", "raised", "ruby", "next", "key", "value", "idle"}

Frame == [kind : Kind, pc : Pc, loan : Obj \cup {NULL}]
IdleFrame == [kind |-> "idle", pc |-> "idle", loan |-> NULL]

\* The bottom of the stack is the Ruby program.
MainFrame == [kind |-> "main", pc |-> "ruby", loan |-> NULL]

TypeOK ==
  /\ heap \in Heap
  /\ \A o \in Obj : heap.cnt[o] \in Nat
  /\ heap.root \subseteq heap.live
  /\ depth \in 0..MaxDepth
  /\ frame \in [0..MaxDepth -> Frame]

Init ==
  /\ heap = EmptyHeap
  /\ depth = 0
  /\ frame = [d \in 0..MaxDepth |-> IF d = 0 THEN MainFrame ELSE IdleFrame]

-----------------------------------------------------------------------------
(* The C stack.                                                            *)

Top == frame[depth]
Slot(s) == <<depth, s>>
NextSlot(s) == <<depth + 1, s>>

InRuby   == Top.pc = "ruby"
InPython == Top.pc = "python"

\* Python handed control back to the pycall function of kind k.
Back(k) == Top.kind = k /\ Top.pc \in {"returned", "raised"}

Push(k, at) ==
  /\ depth < MaxDepth
  /\ depth' = depth + 1
  /\ frame' = [frame EXCEPT ![depth + 1] = [kind |-> k, pc |-> at, loan |-> NULL]]

Pop ==
  /\ depth' = depth - 1
  /\ frame' = [frame EXCEPT ![depth] = IdleFrame]

Become(k, at) ==
  /\ depth' = depth
  /\ frame' = [frame EXCEPT ![depth] = [kind |-> k, pc |-> at, loan |-> NULL]]

\* Ruby code may call the entry point op; not once freed memory was used, when
\* what the program does is undefined.
CanCall(op) ==
  op \in Ops /\ InRuby /\ heap.fault = {} /\ \A o \in Obj : heap.cnt[o] <= MaxRef

\* The same, for an entry point that needs C locals.
CanEnter(op) == CanCall(op) /\ depth < MaxDepth

\* pycall_pyerror_fetch_and_raise: the exception is converted and the fetched
\* reference is forgotten; then the Ruby exception leaves the function.
FetchError(h) ==
  {Forget(h1, Slot("error")) : h1 \in ToRuby(h, h.ref[Slot("error")])}

\* Mutant: the wrapper takes the reference over, and it is released too.
ConvertWithoutCounting(h) ==
  LET o == h.ref[Slot("result")] IN
  IF o \in Obj \ ByValue
  THEN {Drop(Borrow(Wrap(h, p), p, o), Slot("result")) : p \in Ptr \ h.live}
  ELSE {Drop(h, Slot("result"))}

\* Mutant: released before it is converted.
ReleaseAndConvert(h) ==
  ToRuby(Drop(h, Slot("result")), h.ref[Slot("result")])

\* The result is converted and released ...
ConvertAndRelease(h) ==
  {Drop(h1, Slot("result")) : h1 \in ToRuby(h, h.ref[Slot("result")])}

\* ... or converted and forgotten.
ConvertAndForget(h) ==
  {Forget(h1, Slot("result")) : h1 \in ToRuby(h, h.ref[Slot("result")])}

\* What a function leaves behind, given the outcomes of a successful call.
Outcome(h, success) == IF Top.pc = "raised" THEN FetchError(h) ELSE success

-----------------------------------------------------------------------------
(* Ruby: the garbage collector and the methods of PyPtr.                   *)

\* Ruby code, or a C frame of its, no longer uses a PyPtr. This may happen
\* in any state: an argument is dead once it is converted.
Unroot(p) ==
  /\ p \in heap.root
  /\ heap' = [heap EXCEPT !.root = @ \ {p}]
  /\ UNCHANGED <<depth, frame>>

\* The collector runs at any allocation of Ruby code or of a pycall function.
CanCollect == ~InPython

Collect(p) ==
  /\ CanCollect
  /\ p \in heap.live \ heap.root
  /\ heap' = PtrFree(heap, p)
  /\ UNCHANGED <<depth, frame>>

\* The object dies with its PyPtr and its __del__ removes the item c.
CollectRunsFinalizer(p, c) ==
  /\ "finalizer" \in Ops
  /\ CanCollect
  /\ p \in heap.live \ heap.root
  /\ heap.ref[p] # NULL /\ heap.cnt[heap.ref[p]] = 1
  /\ heap' = Drop(PtrFree(heap, p), c)
  /\ UNCHANGED <<depth, frame>>

\* Mutant: DATA_PTR keeps the pointer that was released.
PtrDecrefKeepsPointer(p) ==
  /\ CanCall("ptr_decref")
  /\ p \in heap.root /\ heap.ref[p] # NULL
  /\ heap' = [heap EXCEPT !.cnt[heap.ref[p]] = @ - 1]
  /\ UNCHANGED <<depth, frame>>

PtrDecref(p) ==
  /\ CanCall("ptr_decref")
  /\ p \in heap.root
  /\ heap' = Drop(heap, p)
  /\ UNCHANGED <<depth, frame>>

PtrIncref(p) ==
  /\ CanCall("ptr_incref")
  /\ p \in heap.root /\ heap.ref[p] # NULL
  /\ heap' = Bump(heap, heap.ref[p])
  /\ UNCHANGED <<depth, frame>>

-----------------------------------------------------------------------------
(* Entry points that complete without running Python code.                 *)

\* The builtins module is an object that a cell of the interpreter holds.
BuiltinsModulePtr(p, c) ==
  /\ CanCall("builtins_module_ptr")
  /\ p \in Ptr \ heap.live
  /\ heap.ref[c] # NULL
  /\ heap' = Take(Wrap(heap, p), p, heap.ref[c])
  /\ UNCHANGED <<depth, frame>>

\* PyCall::Conversion.from_ruby: the new reference becomes a PyPtr's.
ConvFromRuby(p) ==
  /\ CanCall("conv_from_ruby")
  /\ p \in Ptr \ heap.live
  /\ \E h \in FromRuby(heap, p) : heap' = Wrap(h, p)
  /\ UNCHANGED <<depth, frame>>

\* PyCall::Conversion.to_ruby: an object that gets a wrapper of its own has
\* its count incremented once by pycall_pyobject_to_ruby and once here.
ConvToRuby(q) ==
  /\ CanCall("conv_to_ruby")
  /\ q \in heap.root /\ heap.ref[q] # NULL
  /\ \E h \in ToRuby(heap, heap.ref[q]) :
       heap' = IF heap.ref[q] \in ByValue THEN h ELSE Bump(h, heap.ref[q])
  /\ UNCHANGED <<depth, frame>>

\* PyCall::Tuple.new: the tuple o gets an owner, and its item c a value.
TupleNew(p, o, c) ==
  /\ CanCall("tuple_new")
  /\ p \in Ptr \ heap.live
  /\ o \in Free(heap) \ ByValue
  /\ heap.ref[c] = NULL
  /\ \E h \in FromRuby(New(heap, p, o), c) : heap' = Wrap(h, p)
  /\ UNCHANGED <<depth, frame>>

\* Mutant: the item that PyTuple_GetItem lends is not retained.
TupleItemNotRetained(h, tmp, o) ==
  {Drop(h1, tmp) : h1 \in ToRuby(Borrow(h, tmp, o), o)}

\* Tuple#to_a and the arguments of a callback, for an item o: it is retained
\* by a local while it is converted. h has that local free.
TupleItemToRuby(h, tmp, o) ==
  {Drop(h1, tmp) : h1 \in ToRuby(Take(h, tmp, o), o)}

TupleToA(c) ==
  /\ CanEnter("tuple_to_a")
  /\ heap.ref[c] # NULL
  /\ heap' \in TupleItemToRuby(heap, NextSlot("result"), heap.ref[c])
  /\ UNCHANGED <<depth, frame>>

-----------------------------------------------------------------------------
(* Attributes, items and comparison: convert, call Python, convert back.   *)

\* Activation k starts; its arguments are the locals of args.
Enter(k, h) ==
  /\ CanEnter(k)
  /\ Push(k, "python")
  /\ heap' = h

\* One argument is converted to a new reference, kept in a local.
Enter1(k) ==
  depth < MaxDepth /\ \E h \in FromRuby(heap, NextSlot("first")) : Enter(k, h)

GetattrEnter == Enter("getattr", heap)

\* With a default value the error is cleared; otherwise it is raised.
GetattrReturn ==
  /\ Back("getattr")
  /\ \/ heap' \in Outcome(heap, ConvertAndForget(heap))
     \/ Top.pc = "raised" /\ heap' = Drop(heap, Slot("error"))
  /\ Pop

SetattrEnter == Enter1("setattr")

\* The reference made for the value is never released.
SetattrReturn ==
  /\ Back("setattr")
  /\ LET h == Forget(heap, Slot("first")) IN heap' \in Outcome(h, {h})
  /\ Pop

DelattrEnter == Enter("delattr", heap)

DelattrReturn ==
  /\ Back("delattr")
  /\ heap' \in Outcome(heap, {heap})
  /\ Pop

DefineMethodEnter == Enter("define_method", heap)

\* The attribute is only looked up: it is released at once.
DefineMethodReturn ==
  /\ Back("define_method")
  /\ heap' \in Outcome(heap, {Drop(heap, Slot("result"))})
  /\ Pop

GetitemEnter == Enter1("getitem")

GetitemReturn ==
  /\ Back("getitem")
  /\ LET h == Drop(heap, Slot("first"))
     IN heap' \in Outcome(h, ConvertAndRelease(h))
  /\ Pop

\* The key first, then the value.
SetitemEnter ==
  /\ depth < MaxDepth
  /\ \E h1 \in FromRuby(heap, NextSlot("first")) :
       \E h2 \in FromRuby(h1, NextSlot("second")) : Enter("setitem", h2)

SetitemReturn ==
  /\ Back("setitem")
  /\ LET h == Drop(Drop(heap, Slot("first")), Slot("second"))
     IN heap' \in Outcome(h, {h})
  /\ Pop

DelitemEnter == Enter1("delitem")

DelitemReturn ==
  /\ Back("delitem")
  /\ LET h == Drop(heap, Slot("first")) IN heap' \in Outcome(h, {h})
  /\ Pop

\* dict_contains and sequence_contains.
ContainsEnter == Enter1("contains")

ContainsReturn ==
  /\ Back("contains")
  /\ LET h == Drop(heap, Slot("first")) IN heap' \in Outcome(h, {h})
  /\ Pop

CompareEnter == Enter("compare", heap)

CompareReturn ==
  /\ Back("compare")
  /\ heap' \in Outcome(heap, ConvertAndRelease(heap))
  /\ Pop

StrEnter == Enter("str", heap)

\* Mutant: the string is not released (the leak that 1.5.2 fixed).
StrReturnLeaks ==
  /\ Back("str")
  /\ heap' \in Outcome(heap, ConvertAndForget(heap))
  /\ Pop

StrReturn ==
  /\ Back("str")
  /\ heap' \in Outcome(heap, ConvertAndRelease(heap))
  /\ Pop

DirEnter == Enter("dir", heap)

\* Mutant: the PyPtr gets the pointer, and the reference is released too.
DirReturnReleases ==
  /\ Back("dir")
  /\ heap' \in Outcome(heap,
       {Drop(Borrow(Wrap(heap, p), p, heap.ref[Slot("result")]), Slot("result")) :
          p \in Ptr \ heap.live})
  /\ Pop

\* The new reference itself becomes the PyPtr's.
DirReturn ==
  /\ Back("dir")
  /\ heap' \in Outcome(heap,
       IF heap.ref[Slot("result")] = NULL THEN {heap}
       ELSE {Move(Wrap(heap, p), Slot("result"), p) : p \in Ptr \ heap.live})
  /\ Pop

-----------------------------------------------------------------------------
(* Modules.                                                                *)

ImportModuleEnter == Enter("import", heap)

ImportModuleReturn ==
  /\ Back("import")
  /\ heap' \in Outcome(heap, ConvertAndForget(heap))
  /\ Pop

\* The argument is the fromlist.
ImportModuleLevelEnter == Enter1("import_level")

ImportModuleLevelReturn ==
  /\ Back("import_level")
  /\ LET h == Forget(heap, Slot("first"))
     IN heap' \in Outcome(h, ConvertAndForget(h))
  /\ Pop

-----------------------------------------------------------------------------
(* Calls.                                                                  *)

\* The argument tuple (its item stands for it: PyTuple_SetItem steals the
\* reference) and, for a call that ends with a Hash, the kwargs.
CallArguments(h, d) ==
  LET args == FromRuby(h, <<d, "first">>) \cup {h}
  IN args \cup UNION {FromRuby(h1, <<d, "second">>) : h1 \in args}

CallEnter ==
  depth < MaxDepth /\ \E h \in CallArguments(heap, depth + 1) : Enter("call", h)

\* Mutant: kwargs is not released.
CallReturnKeepsKwargs ==
  /\ Back("call")
  /\ LET h == Drop(heap, Slot("first")) IN
     heap' \in
       IF Top.pc = "raised"
       THEN {Forget(h1, Slot("callee")) : h1 \in FetchError(h)}
       ELSE {Drop(h1, Slot("callee")) : h1 \in ConvertAndRelease(h)}
  /\ Pop

\* Back from PyObject_Call: the arguments go first. The attribute of a
\* wrapper method is released by its caller, which an exception skips.
CallReturn ==
  /\ Back("call")
  /\ LET h == Drop(Drop(heap, Slot("first")), Slot("second")) IN
     heap' \in
       IF Top.pc = "raised"
       THEN {Forget(h1, Slot("callee")) : h1 \in FetchError(h)}
       ELSE {Drop(h1, Slot("callee")) : h1 \in ConvertAndRelease(h)}
  /\ Pop

\* A wrapper's singleton method looks its attribute up ...
WrapperMethodEnter ==
  /\ CanEnter("wrapper_get") \/ CanEnter("wrapper_call")
  /\ Push("method", "python")
  /\ UNCHANGED heap

\* ... and raises, or returns what cannot be called, or is a type ...
WrapperMethodGet ==
  /\ Back("method")
  /\ Top.pc = "raised" \/ "wrapper_get" \in Ops
  /\ heap' \in Outcome(heap, ConvertAndForget(heap))
  /\ Pop

\* ... and calls anything else.
WrapperMethodCall ==
  /\ Back("method") /\ Top.pc = "returned" /\ "wrapper_call" \in Ops
  /\ heap' \in CallArguments(Move(heap, Slot("result"), Slot("callee")), depth)
  /\ Become("call", "python")

WrapperSetEnter == Enter1("wrapper_set")

WrapperSetReturn ==
  /\ Back("wrapper_set")
  /\ LET h == Drop(heap, Slot("first")) IN heap' \in Outcome(h, {h})
  /\ Pop

\* An item of kwargs cannot be stored: the call never starts.
CallKwargsEnter ==
  /\ CanEnter("call") /\ "python_error" \in Ops
  /\ Push("kwargs", "raised")
  /\ \E h \in CallArguments(heap, depth + 1) :
       heap' \in PyGive(h, NextSlot("error"), {}) \cup {h}

\* args is released, kwargs is not.
CallKwargsRaise ==
  /\ Back("kwargs")
  /\ heap' \in FetchError(Forget(Drop(heap, Slot("first")), Slot("second")))
  /\ Pop

\* Converting an argument raises (an unhashable Hash key, for one) after an
\* earlier one was converted: the tuple that has it is forgotten.
CallConversionRaises ==
  /\ CanEnter("call") /\ "conversion_error" \in Ops
  /\ \E h \in FromRuby(heap, NextSlot("first")) :
       heap' = Forget(h, NextSlot("first"))
  /\ UNCHANGED <<depth, frame>>

-----------------------------------------------------------------------------
(* Iteration.                                                              *)

\* sequence_each: PyObject_GetIter, then PyIter_Next before each block call.
EachEnter ==
  /\ CanEnter("each")
  /\ Push("iter", "python")
  /\ UNCHANGED heap

EachIter ==
  /\ Back("iter")
  /\ \/ /\ Top.pc = "raised"
        /\ heap' \in FetchError(heap)
        /\ Pop
     \/ /\ Top.pc = "returned"
        /\ heap' = Move(heap, Slot("result"), Slot("iter"))
        /\ Become("each", "python")

\* The item is converted and the block called; the loop keeps its own
\* reference to the item until the block returns.
EachYield ==
  /\ Back("each") /\ Top.pc = "returned"
  /\ heap' \in ToRuby(heap, heap.ref[Slot("result")])
  /\ Become("each", "ruby")

\* Mutant: the loop does not release its item.
EachNextKeepsItem ==
  /\ InRuby /\ Top.kind = "each"
  /\ heap' = Forget(heap, Slot("result"))
  /\ Become("each", "python")

EachNext ==
  /\ InRuby /\ Top.kind = "each"
  /\ heap' = Drop(heap, Slot("result"))
  /\ Become("each", "python")

\* PyIter_Next returned NULL: at the end, or because of an error.
EachEnd ==
  /\ Back("each")
  /\ LET h == Drop(heap, Slot("iter")) IN
       \/ Top.pc = "raised" /\ heap' \in FetchError(h)
       \/ Top.pc = "returned" /\ heap.ref[Slot("result")] = NULL /\ heap' = h
  /\ Pop

\* break, throw or an exception leaves the block: longjmp over the loop.
EachBreak ==
  /\ "each_break" \in Ops
  /\ InRuby /\ Top.kind = "each"
  /\ heap' = Forget(Forget(heap, Slot("result")), Slot("iter"))
  /\ Pop

DictEnter ==
  /\ CanEnter("dict_each")
  /\ Push("dict", "next")
  /\ UNCHANGED heap

AtDictNext == Top.kind = "dict" /\ Top.pc \in {"next", "ruby"}

\* What the containers have, and may lend.
Lent(h) == {h.ref[c] : c \in Cell} \ {NULL}

\* PyDict_Next lends a key and a value; the key may be outside Obj (NULL). The
\* key is converted: it has an owner before that can run code of the program.
DictNext(key, value) ==
  /\ AtDictNext
  /\ heap' \in ToRuby(heap, key)
  /\ depth' = depth
  /\ frame' = [frame EXCEPT ![depth] =
       [kind |-> "dict", pc |-> IF key \in ByValue THEN "value" ELSE "key", loan |-> value]]

\* Code of the program that the conversion of the key runs, in Ruby or in
\* Python: it may do anything, to the dict too.
KeyConversionEnter(at) ==
  /\ "key_code" \in Ops
  /\ Top.kind = "dict" /\ Top.pc = "key"
  /\ Push("convert", at)
  /\ UNCHANGED heap

KeyConversionReturn ==
  /\ Top.kind = "convert" /\ Top.pc \in {"ruby", "returned"}
  /\ Pop
  /\ UNCHANGED heap

\* Then the value, and the block is called. Reading the type of the value is
\* a use of its memory whatever it is.
DictYield ==
  /\ Top.kind = "dict" /\ Top.pc \in {"key", "value"}
  /\ \E h \in ToRuby(heap, Top.loan) :
       heap' = IF heap.cnt[Top.loan] > 0 THEN h
               ELSE [h EXCEPT !.fault = @ \cup {Top.loan}]
  /\ Become("dict", "ruby")

\* The end of the dict, a break, or an exception of the conversion of the
\* key: the loop owns nothing.
DictEnd ==
  /\ Top.kind = "dict" /\ Top.pc \in {"next", "ruby", "key"}
  /\ Pop
  /\ UNCHANGED heap

-----------------------------------------------------------------------------
(* Python calls Ruby: PyRuby_call.                                         *)

\* What running Python code can reach: the cells, and its arguments.
Reach(h) == {h.ref[p] : p \in Cell \cup {Slot("first"), Slot("second")}} \ {NULL}

CallbackEnter ==
  /\ "callback" \in Ops /\ InPython
  /\ Push("callback", "ruby")
  /\ \E o \in Reach(heap) :
       heap' \in TupleItemToRuby(heap, NextSlot("result"), o)

\* The result is a new reference, which the Python caller stores at c.
CallbackReturn(c) ==
  /\ InRuby /\ Top.kind = "callback"
  /\ heap.ref[c] = NULL
  /\ heap' \in FromRuby(heap, c)
  /\ Pop

\* A Ruby exception is dropped and None returned.
CallbackSwallow ==
  /\ InRuby /\ Top.kind = "callback"
  /\ Pop
  /\ UNCHANGED heap

-----------------------------------------------------------------------------
(* The Python side. Its own counting is correct.                           *)

PyStore(c) ==
  /\ InPython
  /\ heap.ref[c] = NULL
  /\ heap' \in PyGive(heap, c, Reach(heap))
  /\ UNCHANGED <<depth, frame>>

PyClear(c) ==
  /\ InPython
  /\ heap.ref[c] # NULL
  /\ heap' = Drop(heap, c)
  /\ UNCHANGED <<depth, frame>>

Resume(at) == depth' = depth /\ frame' = [frame EXCEPT ![depth].pc = at]

\* Kinds whose C API call returns a status, not an object.
StatusOnly == {"setattr", "wrapper_set", "setitem", "delitem", "contains", "delattr",
               "convert"}

PyReturn ==
  /\ InPython /\ Top.kind \notin StatusOnly
  /\ heap' \in PyGive(heap, Slot("result"), Reach(heap))
  /\ Resume("returned")

\* A status, the end of an iteration, or an object outside Obj.
PyDone ==
  /\ InPython
  /\ Resume("returned")
  /\ UNCHANGED heap

\* The exception is an object of its own. pycall forgets the reference it
\* fetches ("python_error"); for a program that is to leak nothing else, the
\* exceptions are outside Obj, and a wrapper's method, which would forget its
\* callee, raises none ("error"). What PyObject_Hash and PyObject_IsSubclass
\* raise does not come back to the function that converts.
PyRaise ==
  /\ InPython /\ Top.kind # "convert"
  /\ \/ /\ "python_error" \in Ops
        /\ heap' \in PyGive(heap, Slot("error"), Reach(heap))
     \/ /\ "error" \in Ops
        /\ heap.ref[Slot("callee")] = NULL
        /\ UNCHANGED heap
  /\ Resume("raised")

-----------------------------------------------------------------------------
RubyStep ==
  \/ \E p \in Ptr : Unroot(p) \/ Collect(p) \/ PtrDecref(p) \/ PtrIncref(p)
  \/ \E p \in Ptr, c \in Cell : CollectRunsFinalizer(p, c)
  \/ \E p \in Ptr, c \in Cell : BuiltinsModulePtr(p, c)
  \/ \E p \in Ptr : ConvFromRuby(p) \/ ConvToRuby(p)
  \/ \E p \in Ptr, o \in Obj, c \in Cell : TupleNew(p, o, c)
  \/ \E c \in Cell : TupleToA(c)

HelperEnter ==
  \/ GetattrEnter \/ SetattrEnter \/ DelattrEnter \/ DefineMethodEnter
  \/ GetitemEnter \/ SetitemEnter \/ DelitemEnter \/ ContainsEnter
  \/ CompareEnter \/ StrEnter \/ DirEnter
  \/ ImportModuleEnter \/ ImportModuleLevelEnter
  \/ CallEnter \/ CallKwargsEnter \/ CallConversionRaises
  \/ WrapperMethodEnter \/ WrapperSetEnter
  \/ EachEnter \/ DictEnter

HelperReturn ==
  \/ GetattrReturn \/ SetattrReturn \/ DelattrReturn \/ DefineMethodReturn
  \/ GetitemReturn \/ SetitemReturn \/ DelitemReturn \/ ContainsReturn
  \/ CompareReturn \/ StrReturn \/ DirReturn
  \/ ImportModuleReturn \/ ImportModuleLevelReturn
  \/ CallReturn \/ CallKwargsRaise
  \/ WrapperMethodGet \/ WrapperMethodCall \/ WrapperSetReturn

IterationStep ==
  \/ EachIter \/ EachYield \/ EachNext \/ EachEnd \/ EachBreak
  \/ \E key \in Lent(heap) \cup {NULL}, value \in Lent(heap) : DictNext(key, value)
  \/ \E at \in {"python", "ruby"} : KeyConversionEnter(at)
  \/ KeyConversionReturn \/ DictYield \/ DictEnd

PythonStep ==
  \/ CallbackEnter \/ CallbackSwallow
  \/ \E c \in Cell : CallbackReturn(c) \/ PyStore(c) \/ PyClear(c)
  \/ PyReturn \/ PyDone \/ PyRaise

Next == RubyStep \/ HelperEnter \/ HelperReturn \/ IterationStep \/ PythonStep

Spec == Init /\ [][Next]_vars

-----------------------------------------------------------------------------
(* Properties.                                                             *)

\* No function of pycall, no step of the collector and no Python code reached
\* from them uses the memory of an object that has been freed.
NoUseAfterFree == heap.fault = {}

\* Whatever points at an object and will release it is counted by ob_refcnt:
\* a PyPtr, an item of a container and a local of a pycall function never
\* outlive the object, and its address is not reused under them.
Owned == OwnedHeap(heap)

\* Nothing else is counted: once no PyPtr, no container and no running
\* function points at an object, its memory is free.
Balanced == BalancedHeap(heap)

\* The only memory that is ever used after it was freed is that of a value
\* which dict_each borrowed: when it was to be converted, the dict and every
\* other container had let it go.
OnlyLoansGoStale ==
  [][heap'.fault # heap.fault =>
       /\ Top.kind = "dict" /\ Top.pc \in {"key", "value"}
       /\ heap'.fault = heap.fault \cup {Top.loan}
       /\ Top.loan \notin Lent(heap)]_vars

\* A leak is for ever: no step releases a reference that has no owner, so a
\* reference leaked by one function cannot free an object another one uses.
Surplus(h, o) == h.cnt[o] - Cardinality(Holders(h, o))
LeaksStay == [][\A o \in Obj : Surplus(heap', o) >= Surplus(heap, o)]_vars

\* A pycall function that is no longer on the stack has no local left that
\* points at an object: what it did not release it can never release.
NoStrayLocals ==
  \A d \in 1..MaxDepth, s \in SlotName : d > depth => heap.ref[<<d, s>>] = NULL

=============================================================================
