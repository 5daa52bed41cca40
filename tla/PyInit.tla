------------------------------- MODULE PyInit -------------------------------
(***************************************************************************)
(* PyCall.init: how threads that ask for PyCall, or for a constant that    *)
(* only exists after it is initialised, find libpython, load pycall.so and *)
(* start the interpreter, and what a failed attempt leaves behind.         *)
(***************************************************************************)
EXTENDS Naturals, Sequences

CONSTANTS
  Thread,      \* Ruby threads
  Environment, \* what an attempt may find on this machine
  None

\* What the path of a candidate leads to. A "foreign" library opens and lacks
\* a required function; a "broken" one does not open.
File == {"none", "relative", "absent", "broken", "foreign", "library"}

\* The answers of the Python commands that are tried, the library the
\* executable is linked with, the files in the library directories, and
\* whether the executable is that of the active conda environment.
ASSUME EnvironmentAssumption ==
  /\ Environment \subseteq [pythons : Seq({"raises", "empty", "config"}),
                            linked : File, directories : Seq(File), conda : BOOLEAN]
  /\ None \notin File \cup {"names", "true", "false", "value"}

VARIABLES
  handle,    \* @handle of LibPython
  accessor,  \* what the method LibPython.handle does
  hooks,     \* the modules that still have their const_missing
  feature,   \* of require: pycall.so
  defined,   \* constants
  started,   \* how often the interpreter was initialised
  paths,     \* how often pycall's directory was appended to sys.path
  home,      \* whose PYTHONHOME is in ENV
  pc,        \* where each thread is
  request,   \* what it asked for
  result     \* and got

global == <<handle, accessor, hooks, feature, defined, started, paths, home>>
vars == <<handle, accessor, hooks, feature, defined, started, paths, home,
          pc, request, result>>

Hooked == [PyCall    |-> {"PyCall::PyPtr", "PyCall::PYTHON_VERSION"},
           LibPython |-> {"LibPython::API", "LibPython::Conversion",
                          "LibPython::Helpers", "LibPython::PYTHON_VERSION"}]

Name == {"PyCall::Dict"} \cup Hooked.PyCall \cup Hooked.LibPython

Request == {"init", "handle"} \cup Name

-----------------------------------------------------------------------------
(* The finder.                                                             *)

FindPythonConfig(e) == \E i \in DOMAIN e.pythons : e.pythons[i] = "config"

\* The names for the system's library paths are relative.
CandidatePaths(e) == <<e.linked>> \o e.directories \o <<"relative">>

NormalizePath(file) == file \in {"broken", "foreign", "library"}

\* Any exception of dlopen is rescued and the next candidate tried.
Dlopen(file) == NormalizePath(file) /\ file # "broken"

\* Without a candidate that opens, the value is the Array of names.
FindLibpython(e) ==
  LET opened == SelectSeq(CandidatePaths(e), Dlopen)
  IN IF opened = <<>> THEN "names" ELSE Head(opened)

-----------------------------------------------------------------------------
(* A thread's request: PyCall.init, LibPython.handle or a constant.        *)

Init ==
  /\ handle = None
  /\ accessor = "init"
  /\ hooks = {"PyCall", "LibPython"}
  /\ feature = "absent"
  /\ defined = {}
  /\ started = 0
  /\ paths = 0
  /\ home \in {"unset", "user"}
  /\ pc = [t \in Thread |-> "done"]
  /\ request = [t \in Thread |-> "init"]
  /\ result = [t \in Thread |-> None]

At(t, place) == pc[t] = place

Goto(t, place) ==
  /\ pc' = [pc EXCEPT ![t] = place]
  /\ UNCHANGED <<request, result>>

Finish(t, r) ==
  /\ pc' = [pc EXCEPT ![t] = "done"]
  /\ result' = [result EXCEPT ![t] = r]
  /\ UNCHANGED request

First(what) == IF what = "init" THEN "check"
               ELSE IF what = "handle" THEN "handle" ELSE "lookup"

\* init returns to the method that called it: const_get, or handle again.
Return(t, r) ==
  IF request[t] = "init" THEN Finish(t, r) ELSE Goto(t, First(request[t]))

Ask(t, what) ==
  /\ At(t, "done")
  /\ pc' = [pc EXCEPT ![t] = First(what)]
  /\ request' = [request EXCEPT ![t] = what]
  /\ result' = [result EXCEPT ![t] = None]
  /\ UNCHANGED global

\* A constant is referred to, or const_get looks for it.
Lookup(t) ==
  /\ At(t, "lookup")
  /\ IF request[t] \in defined THEN Finish(t, "value")
     ELSE IF \E m \in hooks : request[t] \in Hooked[m] THEN Goto(t, "check")
     ELSE Finish(t, "NameError")
  /\ UNCHANGED global

Handle(t) ==
  /\ At(t, "handle")
  /\ \/ accessor = "init" /\ Goto(t, "check")
     \/ accessor = "undefined" /\ Finish(t, "NameError")
     \/ accessor = "reader" /\ Finish(t, "value")
  /\ UNCHANGED global

-----------------------------------------------------------------------------
(* PyCall.init. Another thread may run between any two of its steps.       *)

Check(t) ==
  /\ At(t, "check")
  /\ IF handle # None THEN Return(t, "false") ELSE Goto(t, "unhook PyCall")
  /\ UNCHANGED global

\* Mutant: a hook that is gone is no error.
UnhookIfThere(t, m, place, next) ==
  /\ At(t, place)
  /\ Goto(t, next)
  /\ hooks' = hooks \ {m}
  /\ UNCHANGED <<handle, accessor, feature, defined, started, paths, home>>

\* Mutant: the hook stays.
UnhookNothing(t, m, place, next) ==
  /\ At(t, place)
  /\ Goto(t, next)
  /\ UNCHANGED global

\* remove_method raises NameError when there is no such method.
Unhook(t, m, place, next) ==
  /\ At(t, place)
  /\ IF m \in hooks THEN Goto(t, next) ELSE Finish(t, "NameError")
  /\ hooks' = hooks \ {m}
  /\ UNCHANGED <<handle, accessor, feature, defined, started, paths, home>>

Find(t, e) ==
  /\ At(t, "find")
  /\ IF FindPythonConfig(e)
     THEN /\ home' = IF home = "user" /\ ~e.conda THEN "user" ELSE "python"
          /\ handle' = FindLibpython(e)
          /\ Goto(t, "undefine")
     ELSE Finish(t, "PythonNotFound") /\ UNCHANGED <<handle, home>>
  /\ UNCHANGED <<accessor, hooks, feature, defined, started, paths>>

UndefineHandle(t) ==
  /\ At(t, "undefine")
  /\ accessor' = "undefined"
  /\ Goto(t, "reader")
  /\ UNCHANGED <<handle, hooks, feature, defined, started, paths, home>>

HandleReader(t) ==
  /\ At(t, "reader")
  /\ accessor' = "reader"
  /\ Goto(t, "require")
  /\ UNCHANGED <<handle, hooks, feature, defined, started, paths, home>>

\* require waits while another thread loads the file.
Require(t) ==
  /\ At(t, "require") /\ feature # "loading"
  /\ IF feature = "absent" THEN feature' = "loading" /\ Goto(t, "types")
                           ELSE UNCHANGED feature /\ Goto(t, "path")
  /\ UNCHANGED <<handle, accessor, hooks, defined, started, paths, home>>

\* Init_pycall up to the handle.
DefineTypes(t) ==
  /\ At(t, "types")
  /\ defined' = defined \cup {"PyCall::PyPtr"}
  /\ Goto(t, "open")
  /\ UNCHANGED <<handle, accessor, hooks, feature, started, paths, home>>

\* Mutant: every symbol is optional.
OpenLibraryUnchecked(t) ==
  /\ At(t, "open")
  /\ defined' = defined \cup {"LibPython::API"}
  /\ Goto(t, "helpers")
  /\ UNCHANGED <<handle, accessor, hooks, feature, started, paths, home>>

\* Every required function of the API table is found in it. Looking one up in
\* an Array raises NoMethodError, which is rescued.
HasSymbols(opened) == opened = "library"

OpenLibrary(t) ==
  /\ At(t, "open")
  /\ IF HasSymbols(handle)
     THEN /\ defined' = defined \cup {"LibPython::API"}
          /\ Goto(t, "helpers")
          /\ UNCHANGED feature
     ELSE /\ feature' = "absent"
          /\ Finish(t, "LibPythonFunctionNotFound")
          /\ UNCHANGED defined
  /\ UNCHANGED <<handle, accessor, hooks, started, paths, home>>

\* Conversion is defined in PyCall, not where the hook promises it.
DefineHelpers(t) ==
  /\ At(t, "helpers")
  /\ defined' = defined \cup {"LibPython::Helpers", "LibPython::PYTHON_VERSION"}
  /\ Goto(t, "start")
  /\ UNCHANGED <<handle, accessor, hooks, feature, started, paths, home>>

\* init_python and the rest of Init_pycall.
StartPython(t) ==
  /\ At(t, "start")
  /\ started' = started + 1
  /\ feature' = "loaded"
  /\ Goto(t, "path")
  /\ UNCHANGED <<handle, accessor, hooks, defined, paths, home>>

AppendPath(t) ==
  /\ At(t, "path")
  /\ paths' = paths + 1
  /\ Goto(t, "classes")
  /\ UNCHANGED <<handle, accessor, hooks, feature, defined, started, home>>

RequireClasses(t) ==
  /\ At(t, "classes")
  /\ defined' = defined \cup {"PyCall::Dict"}
  /\ Goto(t, "versions")
  /\ UNCHANGED <<handle, accessor, hooks, feature, started, paths, home>>

SetVersions(t) ==
  /\ At(t, "versions")
  /\ defined' = defined \cup {"PyCall::PYTHON_VERSION"}
  /\ Return(t, "true")
  /\ UNCHANGED <<handle, accessor, hooks, feature, started, paths, home>>

Step(t) ==
  \/ Lookup(t) \/ Handle(t) \/ Check(t)
  \/ Unhook(t, "PyCall", "unhook PyCall", "unhook LibPython")
  \/ Unhook(t, "LibPython", "unhook LibPython", "find")
  \/ \E e \in Environment : Find(t, e)
  \/ UndefineHandle(t) \/ HandleReader(t) \/ Require(t)
  \/ DefineTypes(t) \/ OpenLibrary(t) \/ DefineHelpers(t) \/ StartPython(t)
  \/ AppendPath(t) \/ RequireClasses(t) \/ SetVersions(t)

Next == \E t \in Thread : Step(t) \/ \E what \in Request : Ask(t, what)

\* Ruby runs every thread that can run; nobody has to ask.
Fairness == \A t \in Thread : WF_vars(Step(t))

Spec == Init /\ [][Next]_vars /\ Fairness

-----------------------------------------------------------------------------
(* Properties.                                                             *)

\* However many threads initialise at once, and after whatever failures, the
\* interpreter is started and sys.path extended at most once: the removal of
\* the hooks (init.rb 26-31) keeps all but one thread out.
InitialisedOnce == started <= 1 /\ paths <= 1

Ready ==
  /\ handle = "library" /\ accessor = "reader" /\ feature = "loaded"
  /\ started = 1 /\ paths = 1
  /\ defined = Name \ {"LibPython::Conversion"}

\* A thread to which init returned true can use all of PyCall, whatever other
\* threads did meanwhile (init.rb 33-48).
TrueMeansReady == \A t \in Thread : result[t] = "true" => Ready

\* A reference to a constant, or to LibPython.handle, always comes to an end:
\* the hooks do not call init and const_get for ever, after a failure either
\* (init.rb 2-22, libpython.rb 5-10).
AutoloadEnds == \A t \in Thread : ~At(t, "done") ~> At(t, "done")

\* init returns false if already initialized (spec/pycall_spec.rb).
FalseMeansReady == \A t \in Thread : result[t] = "false" => Ready

=============================================================================
