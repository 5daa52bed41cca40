# PyCall in TLA+

PyCall runs CPython inside a Ruby process: it finds and opens libpython, turns
Ruby values into Python objects and back, calls in both directions, and lets
two garbage collectors and two interpreter locks live together. These modules
model the parts of it whose correctness depends on the order of steps: who owns
a Python reference, who holds which lock, which Ruby object must survive,
what initialisation leaves behind, which error is pending when, and which class
wraps which type. They also model the conversions of values (integers, slices,
texts, Arrays and Hashes), where boundary values matter.

Paths are relative to the repository: `src/ext/pycall/pycall.c` is written
`pycall.c`, and `init.rb` is `src/lib/pycall/init.rb`.

    tlc -workers 2 -config refs_leaky.cfg MCPyRefs      # a run
    tlapm PyRefsProofs.tla                              # a proof module

`PROJECT.json` lists the runs, the theorems, the hazards, the lines that each
definition models, and for each checked property a plausible bug (a "Mutant" in
the modules) that makes it fail.

## 1. The system

| Component | State | Operations | Hard behaviour | Correct when |
|---|---|---|---|---|
| **References** (`pycall.c`: PyPtr, `LibPython::Helpers`, conversions, calls, iteration) | `DATA_PTR` of each PyPtr, `ob_refcnt` of Python objects, C locals of running functions | `PyPtr.new/incref/decref`, `getattr`, `setattr`, `getitem`, ..., `call_object`, `sequence_each`, `dict_each`, `import_module`, `pycall_pyptr_free` | the collector may run at every conversion; Python code calls back into Ruby and re-enters; errors longjmp over the releases | every owner is counted, every count has an owner, nothing freed is used |
| **Locks** (`pycall.c` 80-150, 1000-1020; the `..._with_gvl` functions of `ruby_wrapper.c`) | GVL, GIL, the thread-local `without_gvl` flag | `PyCall.without_gvl`, calls, callbacks, deallocations, frees in a sweep | two locks taken in both orders; nested blocks; fibers | each language runs under its lock; a call in a block does not stop other threads; no cycle of waits |
| **Ruby objects in Python** (`ruby_wrapper.c`, `gc.c`) | `guarded_objects`, `gcguard_table`, `PyRuby.ruby_object`, PyRubyPtrs | `PyRuby_New`, `PyRuby_dealloc`, `PyRuby_getattro`, `PyRuby_call`, `gcguard_aset/delete/free` | lazy sweeps, deallocations that wait for the GVL, finalisation in any order at exit | what Python refers to survives; the rest is let go |
| **Value conversions** (`pycall.c` 1487-2050; `range.c`) | none | `pycall_pyobject_to_ruby`, `pycall_pyobject_from_ruby`, `pycall_pyslice_from_ruby` | widths of integers, ends of ranges, encodings, keys that are equal for one side only | values keep their meaning |
| **Initialisation** (`init.rb`, `libpython.rb`, `libpython/finder.rb`, `libpython.c`, `Init_pycall`) | `@handle`, the two `const_missing` hooks, `LibPython.handle`, `$LOADED_FEATURES`, constants, `sys.path`, `PYTHONHOME` | `PyCall.init`, references to hooked constants, `LibPython.handle` | threads switch while `find_libpython` runs a subprocess; every step may fail | the interpreter starts once; the answer tells the truth; hooks end |
| **Error indicator** (`pycall.c`: `pycall_pyerror_fetch`, what each function does with a failure; `ruby_wrapper.c`: callbacks) | CPython's error indicator, the stack of C, Python and Ruby frames, the characters of a setter's name | fetch, clear, overlook, raise; `rb_protect` in callbacks; longjmp over C and Python frames | an indicator left set is blamed on a later call; an exception unwinds Python; a half-done step is never finished | each error is reported once, to its cause; Python code is resumed |
| **Wrapper classes, cache** (`pyobject_wrapper.rb`, `pytypeobject_wrapper.rb`, `pymodule_wrapper.rb`, `wrapper_object_cache.rb`, the type mapping in `pycall.c` 1408-1472) | weak map from addresses to wrappers, the mapping from types to classes in order of registration, singleton methods | `wrap_class`, `wrap_module`, `register_python_type_mapping`, `method_missing` | addresses are reused; look-up and store are two steps; types die | a wrapper belongs to the object at its address; a class is found by its own type first |
| **Iterables and `with`** (`pycall.rb`, `iterable_wrapper.rb`) | the context entered, the iterator | `PyCall.with`, `IterableWrapper#each` | exceptions of the user's block and of Python meet in one rescue clause | contexts are exited once; loops run to the end |
| **Import** (`import.rb`), **List, Dict, Slice** | none to speak of | thin Ruby methods over the helpers | | |
| **Old FFI files** (`gc_guard.rb`, `set.rb`, `libpython/py*_struct.rb`) | - | nothing requires them | - | |

How they interact: Ruby code calls a helper with PyPtrs; the helper converts
arguments (References, Conversions), perhaps gives up the GVL (Locks) and calls
Python. Python code may call a PyRuby (Ruby objects), which takes the GVL if it
was given up and runs Ruby code that calls helpers again. Ruby's collector runs
in between, on any Ruby thread, and frees PyPtrs (References), for which it
needs the GIL (Locks) and which may deallocate PyRubys (Ruby objects).

The README of PyCall says that multi-threaded *calls* are not supported. The
modules respect that: only one thread calls Python. Other Ruby threads that run
plain Ruby code (which every Ruby program may have) are part of the models of
the locks, the guard and the initialisation.

## 2. The modules

| Module | Models | Extends |
|---|---|---|
| `PyHeap` | the heap as PyCall sees it: places that point at Python objects, counts, PyPtrs; elementary steps (`Take`, `Drop`, `Borrow`, `Move`, `ToRuby`, `FromRuby`) | |
| `PyRefs` | every function of `pycall.c` that handles references, as activations on a C stack | `PyHeap` |
| `PyRefsBorrow` | the two ways to get a PyPtr that owns nothing, and `PyPtr.incref` after it | `PyRefs` |
| `PyCallLocks` | GVL, GIL, the flag, threads and fibers | |
| `GCGuard` | Ruby's heap and collector, PyRubys, the guard's table, exit | |
| `Conversions` | integers and slices | |
| `Values` | texts, Arrays and Hashes, there and back | `Conversions` |
| `PyErrors` | the error indicator and what unwinds the stack, over nested calls, callbacks, loops and setters | |
| `PyProtocols` | `PyCall.with` and `IterableWrapper#each` on that stack | `PyErrors` |
| `IdentityMap` | what a wrapper cache promises, without addresses and look-ups | |
| `WrapperCache` | the cache of wrapper classes and the type mapping; implements `IdentityMap` | |
| `PyInit` | initialisation, step by step, and the finder | |
| `MC...` | definitions that the TLC configurations give to constants | the module in the name |
| `PyHeapProofs`, `PyRefsProofs`, `PyCallLocksProofs`, `GCGuardProofs`, `PyErrorsProofs`, `WrapperCacheProofs`, `ConversionsProofs`, `PyInitProofs` | theorems (section 5) | the module in the name (`PyErrorsProofs`: `PyProtocols`), `TLAPS` |

### PyHeap and PyRefs

A heap is a record. `ref` says what each *place* points at: a PyPtr
(`DATA_PTR`), a cell (a reference held by the Python side: an item, an
attribute, a global) or a C local of a running function, named by the depth of
the activation and its role. `cnt` is `ob_refcnt`. A function's body is a
composition of heap operators in the order of its statements, so `CallReturn`
reads like the end of `pyobject_call` and `pycall_call_python_object`: drop
args, drop kwargs, fetch an error or convert the result, drop the result, drop
the attribute. Where a conversion has several outcomes the operators give a set.

A function that runs Python code is split there: `...Enter` up to the call,
then Python steps (`PyStore`, `PyClear`, `CallbackEnter`, ...), then `...Return`.
A function that cannot be interrupted by Python code is one action. The
collector is not bound to those points: `Unroot` and `Collect` are separate
actions and may happen whenever Ruby code or a PyCall function may allocate,
and `CollectRunsFinalizer` is a collection whose `__del__` removes an item.
`dict_each` has further points between its two conversions, because
`PyDict_Next` lends references: `DictNext` converts the key, `DictYield` the
value, and in between collections may run, and the code of the program that the
conversion of the key calls (`KeyConversionEnter`: `wrap_pyptr` or `wrap_class`
in Ruby, a metaclass's `__hash__` or `__subclasscheck__` in Python), which may do
anything, to the dict too. A program for which that, or a finalizer, may take
the borrowed value away has the race `DictRace`; a use of the value is then a
*fault* (`heap.fault`), after which the program does nothing that is defined, and
enters no further function. In every other function what is converted has an
owner, so code that its conversion runs might as well run before or after it.

Objects in `ByValue` (strings, numbers, None, PyRubys) are converted by copying
and others get a PyPtr. Objects outside `Obj` are `NULL`. `Ops` names the entry
points that the program of a run uses; `Leaky` those that keep a reference they
never release (the model does what the code does, so a balance can only be
claimed for the others). Python may raise in two ways: with `"python_error"` the
exception is one of `Obj`, and `pycall_pyerror_fetch_and_raise` leaks it; with
`"error"` it is outside, so that the balance of everything else can be checked
on the paths of errors too.

### PyCallLocks

Each fiber has a stack of frames; a frame whose entry exchanged a lock is marked
`undo`, as the code remembers whether to give the lock back. `CallObject` is
`pyobject_call`, which looks at the flag; `CallApi` stands for every other C API
call, which does not. `EnterRuby` and `LeaveRuby` are the `..._with_gvl`
functions, `Collect` and `Freed` are `pycall_pyptr_free`. Blocking is `wants`.
The switching of threads (`Preempt`, `DropGIL`, `TakeGVL`, `TakeGIL`) is that of
Ruby and of CPython.

### GCGuard

`wrapped` is `PyRuby.ruby_object`, `holders` how many references Python has to
a PyRuby, `points` the PyRubyPtrs. The collector marks (`Mark`) and sweeps one
slot at a time (`Sweep`), with the program running between, as Ruby does. It
does not see Python's references: only the guard keeps their objects. A
deallocation on a thread without the GVL waits (`waiting`). `Exit` is
`rb_objspace_call_finalizer`: all that is left is freed in any order, the table
(`GuardFree`) included.

### Conversions

`Wrap` is two's complement arithmetic at the width of a long. A long, a long
long and a `Py_ssize_t` have the same width (LP64 platforms). `SliceFromRuby` is
`pycall_pyslice_from_ruby`; `Items` is what CPython makes of the slice
(external), and `Meant` is an independent reading of the Range, position by
position, with no reference to how the stop is computed.

### Values

A value is its class, what it is, and its encoding; the contents of a text are
what its bytes are *when they are read as UTF-8* (ASCII, other characters, or not
UTF-8), whatever they are in its own encoding. `TextFromRuby` looks at the encoding
only to tell binary from the rest, as `pycall_pystring_from_ruby` does: a text
in ISO-8859-1 or UTF-16 keeps its bytes and becomes the text that they are in
UTF-8, or is refused if they are none (`ReadAs`, `Survives`). `PassText` is the
setter of a wrapper, which raises for a text that is refused;
`Conversion.from_ruby` reads the type of the NULL (pycall.c:1791), which is
undefined and not modelled. `python3` is
`python_is_unicode_literals`. A Hash is converted one entry at a time, as
`rb_hash_foreach` does: `SetItem` is `pycall_pydict_from_ruby_iter`, and an entry
that cannot be stored ends it. `Update` is one turn of `Dict#to_h`. `Eql` and
`PyEqual` say which keys are one for Ruby and for Python. `HashSurvives` compares
the Hash that came back with a direct reading of the one that was sent
(`Meet`: the keys that do not stay apart). UTF-16 keys are left out (`HashKey`):
a String in UTF-16 with the bytes of an ASCII one is another key for Ruby but the
same str, and then three keys can meet two by two in such a way that the last
value does not win.

### PyErrors and PyProtocols

The stack alternates functions of pycall that wait for Python, and Ruby methods
or blocks. `ind` is the error indicator and `fly` the exception, break or throw
that is unwinding. Functions of `pycall.c` that treat errors alike have one
*kind*, and one action for what they do when Python has returned or raised:

| Kind | Functions | Treatment |
|---|---|---|
| `getattr` | `getattr` with and without a default | fetch and raise, or clear everything |
| `checked` | `compare`, `setattr`, `getitem`, `import_module`, `str`, ... | by the value returned |
| `probe` | `hasattr?`, `PyPtr#hash` | the failure is an answer |
| `kindof` | `PyPtr#kind_of?` | cleared, then `TypeError` from Ruby |
| `blind` | `subclass_p`, `memsize` | -1 is returned, the indicator stays |
| `call` | `call_object` and wrapper methods | the indicator is asked before the call, the value after it |
| `todict` | a Hash to a dict | the indicator is asked at the end |
| `each` | `sequence_each` | the indicator is asked at the end |
| `setter` | `w.name = v` | by the value returned, after the name is mended |

`CallbackEnter` ... `CallbackReturn` are the slots of the PyRuby type; only `call`
is under `rb_protect` (`CallbackSwallow`). Everything else that unwinds passes
over C and Python frames (`Unwind`). A program is a set of features, so that one
run has programs that avoid what is known to leave an error behind (`LeavesError`:
`blind`, an interrupt in a `without_gvl` block, and `bad_text`, a String that is not
UTF-8 as the value of `setattr`, an argument of a call or the result of a callback)
or to unwind Python (`Unprotected`), and programs that use everything: each
property names the features it excludes, and holds with all the others.

`PyProtocols` adds the Ruby methods whose rescue clauses look at those
exceptions. `open` is the set of `with` frames whose context was entered.

### WrapperCache and IdentityMap

`life` tells apart the types that are at one address one after the other. A type
is alive while Python, a PyTypePtr or a subclass refers to it. `Lookup`, `Make`
and `Store` are the steps of `WrapperObjectCache#lookup` between which Ruby may
switch threads. The entry of a class goes when the class is collected (`Collect`),
which the program and the mapping prevent (`StronglyHeld`). `MappedClass` is
`pycall_python_type_mapping_get_mapped_class`: the exact type first, then the
first registered ancestor.

`IdentityMap` has only objects, who asks for which, and the answer; an object's
wrapper is forgotten only when nobody has been answered it. The refinement maps
an object to the class that the table has for it and that was made for it
(`Cached`). It is stated for programs that use one thread at a time and do not
take references away with `PyPtr.decref`: with two threads both may miss and
make a class each (that is the hazard, and `WrapperIsCurrent` says what is left).

### PyInit

Each step of `PyCall.init` and of `Init_pycall` that other threads can see is an
action, with its failure. `Unhook` is `remove_method :const_missing`, which
raises when another thread has done it before. `Environment` gives what the
finder meets: what each Python command answers, the library that the executable
is linked with, the files in the library directories.

## 3. The runs

Where a `.cfg` turns the deadlock check off, the system may really stop: the
bounds on depth and counts refuse every further step (`refs_leaky`,
`leak_attribute_read`), every address was used as often as
`MaxLife` allows (`wrappers`), two threads wait for each other
(`locks`, which does not hide it: `gil_deadlock` is the run about it), or the
process has exited (`gcguard`).

| Run | Question | Answer |
|---|---|---|
| `refs_balanced` | Do all functions that mean to release what they take do so, and use nothing that was freed, with finalizers that run Python code, when Python raises, when calls, loops and callbacks nest, and when a borrowed PyPtr is counted by `PyPtr.incref` in the same expression? | yes: `TypeOK`, `Balanced`, `NoUseAfterFree`, `NoStrayLocals` |
| `refs_leaky` | With every entry point, exceptions, `break`, finalizers and code that converting a key runs: are leaks harmless otherwise, and is the value that `dict_each` borrows the only thing that can be used after it was freed? | yes: `Owned`, `LeaksStay`, `OnlyLoansGoStale` |
| `leak_attribute_read` | Does reading an attribute balance? | **no**: finding 1 |
| `locks` | Does each language run under its lock, whatever nests? Are other threads not held up by a call in a block? | yes: `TypeOK` (no lock is asked for by the thread that holds it), `RubyHasGVL`, `PythonHasGIL`, `ReleasedMeansReleased`, `KeptOutsideBlocks`, `Responsive` |
| `gvl_nested_block` | Do *all* calls in a block give up the GVL? | **no**: finding 2 |
| `gil_deadlock` | Can threads wait for each other's lock? | **yes**: finding 3 |
| `conversions` | Do ranges take their items, and do numbers, texts, Arrays and Hashes survive the way to Python and back? | yes, but for text in other encodings, as `Survives` says: `RangeTakesItsItems`, `NumbersSurvive`, `ValuesSurvive`, `HashSurvives` |
| `errors` | Is every error reported once, to its cause? Is Python always resumed, the setter's name mended? Do `with` and `each` keep their protocols whatever is raised? | yes, for the programs each property names: `TypeOK` (no failure without an exception), `IndicatorClear`, `ErrorsReported`, `PythonResumed`, `NameRestored`, `ContextsClosed`, `ExitPaired`, `LoopsRunToTheEnd` |
| `wrappers` | Is a wrapper class that of the type at its address now? Do registrations leave others alone? Is the cache an identity map? | yes, as each property says: `WrapperIsCurrent`, `MappingIsCurrent`, `ExactClassWins`, `RegisterKeepsOthers`, `CacheIsIdentityMap` |
| `init` | Do concurrent attempts on different machines start Python once, answer `true` only when all is ready, and end? | yes: `InitialisedOnce`, `TrueMeansReady`, `AutoloadEnds` |
| `init_after_failure` | Does `false` mean "already initialized"? | **no**: finding 4 |
| `gcguard` | Does the guard keep what Python refers to, and let the rest go? Is the table safe at exit? | yes: `GuardedWhileReferenced`, `GuardForgets`, `TableNotMisused`, `GarbageIsFreed` |

### Bounds, and why they are enough

- **References.** One object that is converted by value and one that gets
  wrappers, two PyPtrs, one cell: two PyPtrs for one object, a PyPtr and a cell,
  reuse of an address and of a PyPtr all occur. `MaxDepth` is how many PyCall
  functions nest: 3 in `refs_balanced` (a call, a callback in it and a call or
  loop in the callback), 2 in `refs_leaky`, whose properties are also proved for
  any depth. `MaxRef` stops the program at a count above it,
  so that leaking programs are finite; no function's behaviour depends on a
  larger count. Wrapper objects, cells and PyPtrs are interchangeable (no definition
  names one), so symmetry is used; no liveness property is checked in those
  runs. The depth, the numbers of objects, PyPtrs and cells are arbitrary in
  the theorems.
- **Locks.** The calling thread, one other Ruby thread and one more fiber are
  what every lock property speaks of. `MaxFrames` is 5 in `locks` (a block, a
  call, a callback, a block and a call or a free, say) and 3 where a violation
  is shorter. `FiberInBlock` is FALSE: a program that resumes another
  fiber inside a block is outside of what holds (the flag belongs to the native
  thread, see the hazards).
- **Guard.** Three slots of Ruby's heap and two PyRubys: an object that refers
  to another, a PyRubyPtr, a Method object for an attribute. `MaxHolders` 2
  tells the last reference from one before. The memory of a PyRuby is not used
  again in the model: its address enters the table only through its owner. The
  run has `Cycles` FALSE, because a cycle through both heaps is never
  freed, by design of the guard.
- **Conversions.** Longs of four bits (-8..7), every number up to one beyond on
  either side, every range and step over them, lists of up to three items. All
  special cases (0, -1, nil, negative steps, ends outside the list or the width)
  are within. The theorems cover every width and every length.
- **Values.** Texts of each encoding and content, nil, small numbers of each
  class, an Integer without a long, an Array as a key; Arrays and Hashes of up to
  three of them, with each version of Python. Three keys are one more than it
  takes for two to meet, and all that 1, 1.0 and true need.
- **Errors.** Frames four deep above the program: a loop or `with`, its call, a
  callback in it and a call in the callback; or two setters with a callback
  between. Four programs (`Considered`): without anything that leaves an error
  behind or unwinds Python; with all that unwinds Python; without throws and
  interrupts; with everything. Exceptions are StopIteration, another Python
  exception, a Ruby exception and a throw, as no code tells more apart.
- **Wrappers.** A type, its subclass and a subclass of both, so that an instance
  has an own class and two ancestors; two wrapper classes; two types one after
  the other at each address; two threads. Wrapper classes and threads are
  interchangeable. `CHECK_DEADLOCK FALSE`, because types run out.
- **Init.** Two threads and five machines: no working Python; a Python and no
  library; a library in a directory behind an absent file; a linked library that
  lacks a function; a conda Python with its own library. The theorems cover any
  number of threads and any machine.

### Fairness

- `PyCallLocks`: strong fairness of `TakeGVL`, `TakeGIL` and `Preempt` (Ruby
  hands the GVL over in a queue, and its timer thread interrupts the holder;
  CPython forces a switch of the GIL), weak fairness of `Freed` and of leaving a
  deallocation (C code without loops or waits). Nothing says that Python code,
  blocks or callbacks end, so `Responsive` may not rely on that: a thread that
  waits for the GVL gets it although a call in a block runs for ever. It is
  stated for programs in which only the main thread frees PyPtrs (finding 3 is
  what happens otherwise).
- `PyInit`: weak fairness of each thread's `Step` (Ruby runs every thread that
  can run). Nobody has to ask (`Ask` is not fair).
- `GCGuard`: weak fairness of `Mark` or `Sweep` (a program that goes on
  allocates) and of `DeallocWithGVL` (the queue of the GVL).

## 4. Findings

1. **Attribute reads leak** (`leak_attribute_read`).
   `pycall_pyobject_wrapper_wrapper_method` (pycall.c:1129) converts the new
   reference of `PyObject_GetAttrString`, which counts the object again for its
   PyPtr, and does not release it when the attribute is not callable or is a
   class. `getattr` and `setattr` leak likewise. The properties `Owned` and
   `LeaksStay`, and their theorems, say that no such leak makes anything else unsafe.
2. **Nested blocks** (`gvl_nested_block`). A block's end resets the flag even
   when an outer block is running (pycall.c:108), and calls in the rest of the
   outer block keep the GVL. The README says all calls in a block run without it.
3. **Opposite lock orders** (`gil_deadlock`). The main thread has the GIL from
   `init` on and gives it up only inside Python code. When Ruby switches, in plain
   Ruby code, to another thread, and a collection there frees a PyPtr, that thread
   holds the GVL and waits for the GIL in `pycall_pyptr_free` (pycall.c:147), and
   the main thread holds the GIL and waits for the GVL. No callback and no
   `without_gvl` block is needed. `spec/pycall/gvl_spec.rb:40` runs such a thread.
4. **`false` after a failure** (`init_after_failure`). `@handle` is set before
   `pycall.so` is loaded (init.rb:33). When loading fails the next `PyCall.init`
   returns `false`, which stands for "already initialized".

Seen while modelling, without a run of their own: `LONG2FIX` drops the top bit of
Python integers between the largest Fixnum and `LONG_MAX` (pycall.c:1646), which
`NumbersSurvive` therefore does not promise; the end of a slice at the limits of
`Py_ssize_t` (the comment at pycall.c:2016 leaves it open, and `Fits` excludes
it); `LibPython::Conversion` is promised by a hook and defined in `PyCall`;
the names for the system's library paths are relative, and are never opened
(finder.rb:113); without a usable library `LibPythonFunctionNotFound` is raised
where the title of a test (spec/pycall_spec.rb) says `PythonNotFound`; `pyfrom`
of an attribute that is converted by value (`pi` of `math`) asks a Ruby number
for its `__pyptr__` (import.rb:113), and one that is a submodule refers to a
variable that is never set (import.rb:67).

## 5. The proofs

TLAPS proves the theorems for every value of the constants that satisfies the
named assumptions of the modules; TLC evaluates these assumptions in every run.
They ask for finite sets of PyPtrs and cells, disjoint kinds of places, a main
thread that is a thread, `NULL` and `None` that are not data, bounds that are
natural numbers, superclasses that are types, and a `MaxLong` one less than a
multiple of 4. What a theorem assumes beyond that is in its statement and below.
Each invariant was checked by TLC on the instance of a run before it was proved,
but for the one of `HashesSurvive`, which quantifies over all dicts.

| Module | Theorems, and the property each one states |
|---|---|
| `PyRefsProofs` | `TypeCorrect` (`TypeOK`), `OwnersAreCounted` (`Owned`), `MemorySafety` (`NoUseAfterFree`), `OnlyDictLoansFault` (`OnlyLoansGoStale`), `LocalsDieWithTheirFunction` (`NoStrayLocals`), `NothingLeaks` (`Balanced`), `LeaksAreForEver` (`LeaksStay`) |
| `PyCallLocksProofs` | `LocksTyped` (`TypeOK`), `RubyRunsUnderGVL` (`RubyHasGVL`), `PythonRunsUnderGIL` (`PythonHasGIL`), `ReleasedStaysReleased` (`ReleasedMeansReleased`), `GVLKeptOutsideBlocks` (`KeptOutsideBlocks`) |
| `GCGuardProofs` | `PythonsObjectsStay` (`GuardedWhileReferenced`), `GuardLetsGo` (`GuardForgets`), `TableFreedOnce` (`TableNotMisused`) |
| `PyErrorsProofs` | `ErrorsTyped` (`TypeOK`), `NoStaleErrors` (`IndicatorClear`), `SetterNamesRestored` (`NameRestored`), `ContextsAreClosed` (`ContextsClosed`), `NoErrorLost` (`ErrorsReported`), `PythonIsResumed` (`PythonResumed`), `ExitsArePaired` (`ExitPaired`), `LoopsRun` (`LoopsRunToTheEnd`) |
| `WrapperCacheProofs` | `CacheTyped` (`TypeOK`), `AnswersAreCurrent` (`WrapperIsCurrent`), `MappingStaysCurrent` (`MappingIsCurrent`), `ExactClassFound` (`ExactClassWins`), `RegistrationsAreLocal` (`RegisterKeepsOthers`), `CacheImplementsIdentityMap` (`CacheIsIdentityMap`) |
| `ConversionsProofs` | `RangesTakeTheirItems` (`RangeTakesItsItems`), `FixnumsSurvive` (`NumbersSurvive`), `ValuesImplementConversions`, `TextsAndArraysSurvive` (`ValuesSurvive`), `HashesSurvive` (`HashSurvives`) |
| `PyInitProofs` | `OneInterpreter` (`InitialisedOnce`), `TrueIsReady` (`TrueMeansReady`) |

`PyHeapProofs` holds the lemmas about the operators of `PyHeap`.

**`PyRefsProofs`**, for any number of objects, PyPtrs, cells and nested functions:

    IInv == Ready(NoLeaks, heap.fault, Counted) /\ (~DictRace => heap.fault = {})
    Ready(s, F, exact) == GoodHeap(heap, Unused, s, F, exact) /\ StackOK /\ LendingOK /\ ...

`GoodHeap(h, N, s, F, exact)` says that the heap has its type and the faults `F`, that the
places in `N` point at nothing, and that each count is at least the number of its
holders plus `s`, and exactly that when `exact`. `Owned` alone is not inductive: that
`Drop` does not take a count below the holders left needs that the place dropped
was one of them, and that `Bump` touches no freed memory needs a holder.
`Balanced` and `NoStrayLocals` need more: which locals a function uses is known
from its kind and from how far it is (`Uses`), all others are NULL (`Unused`), and so
a local that is assigned overwrites no reference and a function that returns or
is unwound leaves none behind. `StackOK` also says that a frame's entry point is in
`Ops` (`UsedOps`), which is how `NothingLeaks` excludes the leaky ones; `LendingOK` that
without `DictRace` the value lent to `dict_each` is still in a cell.

`PyHeapProofs` proves, operator by operator, that each elementary step keeps
`GoodHeap`, from one lemma on cardinality (`HoldersChange`: when one place
changes, its new object gains a holder and its old one loses one). `PyRefsProofs`
then has one step per action, done once for all `s`, `F` and `exact`. With `s` zero it
gives the invariant; `NothingLeaks` is the exact case; `LeaksAreForEver` is
the same lemma with `s` the surplus before the step.

`MemorySafety` assumes `~DictRace`: the program does not iterate over a dict while
finalizers, or conversions of its keys, run code that may change it. With the race
the code does use freed memory; that is a hazard of the code, not a gap of the
proof, and `OnlyDictLoansFault` says for every program that it is the only one.
`NothingLeaks` assumes that
the program calls no leaky entry point (`Ops \cap Leaky = {}`), as the code leaks in
those (finding 1); Python may still raise (`"error"`), so the paths of errors are
among those that are shown to release what they took. The other theorems hold
for every program. The theorems are about `Spec`; the run `refs_balanced` adds
the borrowed PyPtrs of `PyRefsBorrow`, about which nothing is proved.

**`PyCallLocksProofs`**, for any number of threads and fibers and any depth. Which
locks a thread holds is a function of the innermost frame of the fiber it runs
and of the lock it waits for (`HoldsOK`), and a frame is marked `undo` exactly when
the frame below it runs with other locks (`Fits`). The second half is needed
since leaving a frame restores the locks by its mark alone. `GVLKeptOutsideBlocks`
assumes `~FiberInBlock`, as its run does: the flag belongs to the native thread.

**`GCGuardProofs`**, for heaps of any size and shape, with or without cycles through
both. The slots that are used and not white are closed under references and hold
the roots and everything guarded; `Mark` keeps what it reaches, so nothing guarded
ever turns white, although the sweep is interleaved with everything else. An
entry of the table belongs to a PyRuby that is referred to or waits for its
deallocation, and the other way round (`EntriesInv`). This is claimed while the
process runs; of the end, `TableFreedOnce` says that no order of finalisation
uses the freed table.

**`PyErrorsProofs`**, for any set of programs and any depth, about the specification
with the methods of `PyProtocols` (`SpecP`), of which `PyErrors` is a part. What a
frame may be doing is bounded by its kind, by the frame on top of it and by the
program's features (`Shape`), so that one knows what an exception that flies or is
pending can meet. `NoErrorLost`, `PythonIsResumed`, `ExitsArePaired` and `LoopsRun` are
action properties, proved from that invariant. Each theorem claims what its
property does, for the programs the property names.

**`WrapperCacheProofs`**, for any types, classes, threads, and reuses of an address.
A PyTypePtr keeps its type alive, and an address is used again only when its type
is dead; so a class that has its pointer was made for the type that is there now
(`WrapperInv`). `AliveBorn` gives that what is alive was made. For the refinement,
`AloneInv` says that without threads what a call missed in the table stays
missing until it stores it. `CacheImplementsIdentityMap` maps each step: `WrapClass`
to `Ask`, a hit of `Lookup` to `AnswerKnown`, `Store` to `AnswerNew`, `Use` to `Take`,
`Collect` of a class in the table to `Forget`, and every other step to a
stutter; it is for programs with neither threads nor `PyPtr.decref`, for which alone
the code keeps the promise. The proofs about the mapping rest on three lemmas
about sequences: `FirstIsLeast`, `FirstOfAppend` and `RemoveAtKeeps`.

**`ConversionsProofs`.** The lemma
`SliceMeant` compares the items of the slice with the items the Range denotes, by
the sign of the step and the cases of the end; that the state keeps the list and
the slice it was taken from together is the rest of the invariant.
`ValuesImplementConversions` carries this over to `Values`.

`TextsAndArraysSurvive` has for its invariant that what Python holds of a text or of an
item is nothing or would come back as `Survives` says. `HashesSurvive`, for Hashes of any
length, needs more, because each entry is stored by an action of its own: the
dict after `m` entries of the Hash, and the Hash after `m` entries of the dict, are
both a `Table`: an entry for each class of equal keys, with the value of the last
of them, in the order of their first keys. `StoreKeepsTable` is the step of both,
for any classes of keys. At the end the two tables are put together
(`HashComesBack`): keys meet if they are one to the dict or come back as one
(`MeetingKeys`), which is an equivalence; and keys that only come back as one
are the same ASCII characters as bytes and as a str, each alone in its class
(`LonelyKeys`), so the order of the dict decides between them as the order of the
Hash did. Hence the entries that come back are in a bijection with the last of
the keys that have met. The assumption on `NULL` says that no object and no dict is
taken for an exception.

**`PyInitProofs`.** The removal of PyCall's
hook works as a lock that is never given back: `OneInside` says that at most
one thread is past it, and that the hook is gone then. `NotBegun` says that
nothing has happened while the hook is there; `InStep` says exactly what has
been done at each step of the thread inside (`Done`). Hence no other thread can
disturb it, and `true` is returned only from its last step.

Only model-checked:

- all liveness (`Responsive`, `AutoloadEnds`, `GarbageIsFreed`), since fairness and
  ENABLED are out of the prover's reach;
- `TypeOK`, `Balanced`, `NoUseAfterFree` and `NoStrayLocals` with the borrowed PyPtrs of `PyRefsBorrow`,
  whose sweep frees several PyPtrs at once with a fold.

## 6. What is not modelled

- `method_missing` and the singleton methods and operators it defines;
  `import.rb`, which defines constants and methods by reflection; the rest of List, Dict and
  Slice: single calls of helpers. `Dict#[]`, which takes every Python error for
  a missing key, is left out.
- Complex numbers, containers in containers, and the contents of texts beyond
  their kind. A list with a hole (a String that is not UTF-8 in an Array) is
  converted; what Python code does with it is undefined, and so is what
  `Conversion.from_ruby` does with such a String (it reads the type of NULL).
- Keys of a Hash in UTF-16, and the attribute that `setattr` deletes when its value
  is a String that is not UTF-8.
- The references that an interrupted call leaks, `KeyboardInterrupt` itself (one
  of the errors that stay pending), and the frames of Python code that Ruby
  unwinds: what CPython does afterwards is not the code's.
- The call of Python by which `IterableWrapper#each` compares two types.
- A registered class whose PyTypePtr is released by `PyPtr.decref` (it is the key
  of the mapping), and Ruby subclasses of wrapper classes, which share it.
- Order and number of the entries that `PyDict_Next` visits while the block
  changes the dict: `PyRefs` lets the dict change and checks only ownership.
- Ruby code that runs inside a sweep (a Python finalizer that calls a PyRuby):
  Ruby forbids it. With it, `gcguard_aset` after the table was freed at exit.
- A collection in `gcguard_new`, between `Data_Make_Struct` and
  `st_init_numtable`: it runs once, at load time.
- `after_fork` and the unblocking function of a call without the GVL: one call
  into CPython each. (`thread.c` wraps thread-local storage, which is `flag`.)
- The old FFI files, the investigator script, the IRuby helper and build files:
  dead code, or input and output.

## 7. Plan

The order followed the risk: a mistake in references corrupts memory, one in
the locks stops the process, one in the guard frees live objects.

Done: all modules of section 2, their runs, and the proofs of section 5.

Next: the proofs about `PyRefsBorrow` (the fold of its sweep replaced by one
PyPtr at a time, if that stays faithful to the collector), and `Step` of the
finder in `PyInit` by what each file gives.

The model may grow by the singleton methods of `method_missing`, which stay when
Python deletes the attribute they were defined for.
