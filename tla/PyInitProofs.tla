---------------------------- MODULE PyInitProofs ----------------------------
(***************************************************************************)
(* Any number of threads, on any machine: PyCall is initialised once, and  *)
(* a thread that is told so finds it ready.                                *)
(***************************************************************************)
EXTENDS PyInit, TLAPS

\* The thread that removed PyCall's hook is inside of init.
Early   == {"unhook LibPython", "find", "undefine", "reader", "require"}
Loading == {"types", "open", "helpers", "start"}
Late    == {"path", "classes", "versions"}

Inside(t) == pc[t] \in Early \cup Loading \cup Late

Inner == Early \cup Loading \cup Late
Outer == {"done", "lookup", "handle", "check", "unhook PyCall"}
Error == {"PythonNotFound", "LibPythonFunctionNotFound", "NameError"}

CallOK ==
  /\ pc \in [Thread -> Inner \cup Outer]
  /\ request \in [Thread -> Request]
  /\ result \in [Thread -> {None, "true", "false", "value"} \cup Error]

\* The hook works as a lock.
OneInside ==
  /\ \A t, u \in Thread : Inside(t) /\ Inside(u) => t = u
  /\ \A t \in Thread : Inside(t) => "PyCall" \notin hooks

Untouched == handle = None /\ feature = "absent" /\ started = 0 /\ paths = 0

NotBegun == "PyCall" \in hooks => Untouched

\* The constants that a thread inside has defined.
DefinedAt(place) ==
  (IF place \in Early \cup {"types"} THEN {} ELSE {"PyCall::PyPtr"})
  \cup (IF place \in {"helpers", "start"} \cup Late THEN {"LibPython::API"} ELSE {})
  \cup (IF place \in {"start"} \cup Late
        THEN {"LibPython::Helpers", "LibPython::PYTHON_VERSION"} ELSE {})
  \cup (IF place = "versions" THEN {"PyCall::Dict"} ELSE {})

\* What a thread inside has done so far, nobody else did more or less.
Done(place) ==
  /\ place \in {"unhook LibPython", "find"} => handle = None
  /\ place \in {"helpers", "start"} \cup Late => handle = "library"
  /\ place \in {"require"} \cup Loading \cup Late => accessor = "reader"
  /\ place \in Early => feature = "absent"
  /\ place \in Loading => feature = "loading"
  /\ place \in Late => feature = "loaded"
  /\ started = IF place \in Late THEN 1 ELSE 0
  /\ paths = IF place \in {"classes", "versions"} THEN 1 ELSE 0
  /\ defined = DefinedAt(place)

InStep == \A t \in Thread : Inside(t) => Done(pc[t])

\* Nobody has defined anything before the first thread is inside.
NothingDefined == "PyCall" \in hooks => defined = {}

IInv ==
  /\ CallOK /\ OneInside /\ NotBegun /\ NothingDefined /\ InStep
  /\ InitialisedOnce /\ TrueMeansReady

others == <<handle, accessor, hooks, feature, defined, started, paths>>

-----------------------------------------------------------------------------
(* The ways in which a step of a thread moves it.                          *)

LEMMA FirstIsOuter ==
  ASSUME NEW what \in Request
  PROVE  First(what) \in Outer
BY DEF First, Outer

LEMMA NotReadyInside ==
  ASSUME IInv, NEW t \in Thread, Inside(t), NEW u \in Thread
  PROVE  result[u] # "true"
<1>1. defined = DefinedAt(pc[t])
  BY DEF IInv, InStep, Done
<1>2. "PyCall::PYTHON_VERSION" \notin defined
  BY <1>1 DEF DefinedAt
<1>3. ~Ready
  BY <1>2 DEF Ready, Name, Hooked
<1>4. QED
  BY <1>3 DEF IInv, TrueMeansReady

\* A thread outside stays outside and changes nothing.
LEMMA StaysOutside ==
  ASSUME IInv, NEW t \in Thread, ~Inside(t), NEW place \in Outer,
         pc' = [pc EXCEPT ![t] = place],
         CallOK', UNCHANGED others,
         \A u \in Thread : result'[u] = "true" => result[u] = "true"
  PROVE  IInv'
<1>1. \A u \in Thread : Inside(u)' => Inside(u) /\ pc'[u] = pc[u]
  BY DEF IInv, CallOK, Inside, Outer, Early, Loading, Late
<1>2. OneInside' /\ InStep'
  BY <1>1 DEF IInv, OneInside, InStep, Done, others
<1>3. TrueMeansReady'
  BY DEF IInv, TrueMeansReady, Ready, others
<1>4. QED
  BY <1>2, <1>3 DEF IInv, NotBegun, NothingDefined, Untouched, InitialisedOnce, others

\* A thread inside goes on to another step inside.
LEMMA GoesOn ==
  ASSUME IInv, NEW t \in Thread, Inside(t), NEW place \in Inner,
         Goto(t, place), hooks' \subseteq hooks, Done(place)'
  PROVE  IInv'
<1>1. CallOK'
  BY DEF IInv, CallOK, Goto
<1>2. /\ pc'[t] = place
      /\ \A u \in Thread : u # t => pc'[u] = pc[u]
  BY DEF IInv, CallOK, Goto
<1>3. \A u \in Thread : Inside(u)' => u = t
  BY <1>2 DEF IInv, OneInside, Inside
<1>4. "PyCall" \notin hooks'
  BY DEF IInv, OneInside
<1>5. OneInside' /\ InStep'
  BY <1>2, <1>3, <1>4 DEF OneInside, InStep
<1>6. TrueMeansReady'
  BY NotReadyInside DEF TrueMeansReady, Goto
<1>7. InitialisedOnce'
  <2>1. started' \in {0, 1} /\ paths' \in {0, 1}
    BY Zenon DEF Done
  <2>2. QED
    BY <2>1 DEF InitialisedOnce
<1>8. QED
  BY <1>1, <1>4, <1>5, <1>6, <1>7 DEF IInv, NotBegun, NothingDefined

\* A thread inside raises an exception.
LEMMA Leaves ==
  ASSUME IInv, NEW t \in Thread, Inside(t), NEW r \in Error,
         Finish(t, r), UNCHANGED <<hooks, started, paths>>
  PROVE  IInv'
<1>1. CallOK'
  BY DEF IInv, CallOK, Finish, Outer
<1>2. /\ pc'[t] = "done"
      /\ \A u \in Thread : u # t => pc'[u] = pc[u]
      /\ \A u \in Thread : result'[u] \in {r, result[u]}
  BY DEF IInv, CallOK, Finish
<1>3. \A u \in Thread : ~Inside(u)'
  BY <1>2 DEF IInv, OneInside, Inside, Early, Loading, Late
<1>4. "PyCall" \notin hooks'
  BY DEF IInv, OneInside
<1>5. TrueMeansReady'
  BY <1>2, NotReadyInside DEF TrueMeansReady, Error
<1>6. QED
  BY <1>1, <1>3, <1>4, <1>5
     DEF IInv, OneInside, InStep, NotBegun, NothingDefined, InitialisedOnce

-----------------------------------------------------------------------------
(* Every step keeps the invariant.                                         *)

LEMMA InitIInv == Init => IInv
BY EnvironmentAssumption
   DEF Init, IInv, CallOK, OneInside, NotBegun, Untouched, NothingDefined, InStep,
       InitialisedOnce, TrueMeansReady, Inside, Early, Loading, Late, Outer, Request

\* Steps of threads that are not in init, or at its start.
LEMMA OutsideStep ==
  ASSUME IInv, NEW t \in Thread,
         \/ Lookup(t) \/ Handle(t) \/ Check(t)
         \/ \E what \in Request : Ask(t, what)
  PROVE  IInv'
<1> USE DEF Outer
<1>1. /\ pc \in [Thread -> Inner \cup Outer] /\ request \in [Thread -> Request]
      /\ result \in [Thread -> {None, "true", "false", "value"} \cup Error]
  BY DEF IInv, CallOK
<1>2. ~Inside(t)
  BY DEF Lookup, Handle, Check, Ask, At, Inside, Early, Loading, Late
<1>3. UNCHANGED others
  BY DEF Lookup, Handle, Check, Ask, others, global
<1>4. /\ \E place \in Outer : pc' = [pc EXCEPT ![t] = place]
      /\ \/ request' = request
         \/ \E what \in Request : request' = [request EXCEPT ![t] = what]
      /\ \/ result' = result
         \/ \E r \in {None, "false", "value", "NameError"} : result' = [result EXCEPT ![t] = r]
  <2>1. CASE \E what \in Request : Ask(t, what)
    BY <2>1, FirstIsOuter DEF Ask
  <2>2. CASE Lookup(t)
    BY <2>2 DEF Lookup, Finish, Goto
  <2>3. CASE Handle(t)
    BY <2>3 DEF Handle, Finish, Goto
  <2>4. CASE Check(t)
    BY <2>4, FirstIsOuter, <1>1 DEF Check, Return, Finish, Goto
  <2>5. QED
    BY <2>1, <2>2, <2>3, <2>4
<1>5. CallOK'
  <2>1. pc' \in [Thread -> Inner \cup Outer]
    BY <1>1, <1>4
  <2>2. request' \in [Thread -> Request]
    BY <1>1, <1>4
  <2>3. result' \in [Thread -> {None, "true", "false", "value"} \cup Error]
    BY <1>1, <1>4 DEF Error
  <2>4. QED
    BY <2>1, <2>2, <2>3 DEF CallOK
<1>6. \A u \in Thread : result'[u] = "true" => result[u] = "true"
  BY <1>1, <1>4, EnvironmentAssumption
<1>7. QED
  BY <1>2, <1>3, <1>4, <1>5, <1>6, StaysOutside

\* Who removes PyCall's hook is alone inside.
LEMMA EnterStep ==
  ASSUME IInv, NEW t \in Thread,
         Unhook(t, "PyCall", "unhook PyCall", "unhook LibPython")
  PROVE  IInv'
<1>1. ~Inside(t) /\ UNCHANGED <<handle, accessor, feature, defined, started, paths>>
  BY DEF Unhook, At, Inside, Early, Loading, Late
<1>2. CASE "PyCall" \in hooks
  <2>1. Goto(t, "unhook LibPython") /\ "PyCall" \notin hooks'
    BY <1>2 DEF Unhook
  <2>2. Untouched /\ defined = {} /\ \A u \in Thread : ~Inside(u)
    BY <1>2 DEF IInv, NotBegun, NothingDefined, OneInside
  <2>3. CallOK'
    BY <2>1 DEF IInv, CallOK, Goto, Inner, Early
  <2>4. /\ pc'[t] = "unhook LibPython"
        /\ \A u \in Thread : u # t => pc'[u] = pc[u]
    BY <2>1 DEF IInv, CallOK, Goto
  <2>5. \A u \in Thread : Inside(u)' => u = t
    BY <2>2, <2>4 DEF Inside
  <2>6. Done("unhook LibPython")'
    BY <1>1, <2>2 DEF Done, DefinedAt, Untouched, Early, Loading, Late
  <2>7. OneInside' /\ InStep'
    BY <2>1, <2>4, <2>5, <2>6 DEF OneInside, InStep
  <2>8. \A u \in Thread : result'[u] = result[u]
    BY <2>1 DEF Goto
  <2>9. TrueMeansReady' /\ InitialisedOnce'
    BY <1>1, <2>2, <2>8 DEF IInv, TrueMeansReady, InitialisedOnce, Ready, Untouched
  <2>10. QED
    BY <2>1, <2>3, <2>7, <2>9 DEF IInv, NotBegun, NothingDefined
<1>3. CASE "PyCall" \notin hooks
  <2>1. Finish(t, "NameError") /\ hooks' = hooks
    BY <1>3 DEF Unhook
  <2>2. CallOK'
    BY <2>1 DEF IInv, CallOK, Finish, Outer, Error
  <2>3. \A u \in Thread : result'[u] = "true" => result[u] = "true"
    BY <2>1 DEF IInv, CallOK, Finish
  <2>4. QED
    BY <1>1, <2>1, <2>2, <2>3, StaysOutside DEF Finish, Outer, others
<1>4. QED
  BY <1>2, <1>3

LEMMA OneMore ==
  ASSUME NEW n, n = 0
  PROVE  n + 1 = 1
OBVIOUS

\* Steps of the thread inside, each at its place.
LEMMA InsideStep ==
  ASSUME IInv, NEW t \in Thread,
         \/ Unhook(t, "LibPython", "unhook LibPython", "find")
         \/ \E e \in Environment : Find(t, e)
         \/ UndefineHandle(t) \/ HandleReader(t) \/ Require(t)
         \/ DefineTypes(t) \/ OpenLibrary(t) \/ DefineHelpers(t) \/ StartPython(t)
         \/ AppendPath(t) \/ RequireClasses(t)
  PROVE  IInv'
<1> USE DEF At
<1>1. pc[t] \in Inner => Inside(t) /\ Done(pc[t])
  BY DEF IInv, InStep, Inside, Inner
<1> USE DEF Inner, Early, Loading, Late
<1>2. CASE Unhook(t, "LibPython", "unhook LibPython", "find")
  <2>1. CASE "LibPython" \in hooks
    <3>1. Goto(t, "find") /\ hooks' \subseteq hooks
      BY <1>2, <2>1 DEF Unhook
    <3>2. Done("find")'
      BY <1>1, <1>2 DEF Unhook, Done, DefinedAt
    <3>3. QED
      BY <1>1, <1>2, <3>1, <3>2, GoesOn DEF Unhook
  <2>2. CASE "LibPython" \notin hooks
    BY <1>1, <1>2, <2>2, Leaves DEF Unhook, Error
  <2>3. QED
    BY <2>1, <2>2
<1>3. ASSUME NEW e \in Environment, Find(t, e)
      PROVE  IInv'
  <2>1. CASE FindPythonConfig(e)
    <3>1. Goto(t, "undefine") /\ hooks' = hooks
      BY <1>3, <2>1 DEF Find
    <3>2. Done("undefine")'
      BY <1>1, <1>3 DEF Find, Done, DefinedAt
    <3>3. QED
      BY <1>1, <1>3, <3>1, <3>2, GoesOn DEF Find
  <2>2. CASE ~FindPythonConfig(e)
    BY <1>1, <1>3, <2>2, Leaves DEF Find, Error
  <2>3. QED
    BY <2>1, <2>2
<1>4. CASE UndefineHandle(t)
  <2>1. Done("reader")'
    BY <1>1, <1>4 DEF UndefineHandle, Done, DefinedAt
  <2>2. QED
    BY <1>1, <1>4, <2>1, GoesOn DEF UndefineHandle
<1>5. CASE HandleReader(t)
  <2>1. Done("require")'
    BY <1>1, <1>5 DEF HandleReader, Done, DefinedAt
  <2>2. QED
    BY <1>1, <1>5, <2>1, GoesOn DEF HandleReader
<1>6. CASE Require(t)
  <2>1. feature = "absent"
    BY <1>1, <1>6 DEF Require, Done
  <2>2. Goto(t, "types") /\ feature' = "loading"
    BY <1>6, <2>1 DEF Require
  <2>3. Done("types")'
    BY <1>1, <1>6, <2>2 DEF Require, Done, DefinedAt
  <2>4. QED
    BY <1>1, <1>6, <2>2, <2>3, GoesOn DEF Require
<1>7. CASE DefineTypes(t)
  <2>1. Done("open")'
    BY <1>1, <1>7 DEF DefineTypes, Done, DefinedAt
  <2>2. QED
    BY <1>1, <1>7, <2>1, GoesOn DEF DefineTypes
<1>8. CASE OpenLibrary(t)
  <2>1. CASE handle = "library"
    <3>1. Goto(t, "helpers")
      BY <1>8, <2>1 DEF OpenLibrary, HasSymbols
    <3>2. Done("helpers")'
      BY <1>1, <1>8, <2>1 DEF OpenLibrary, HasSymbols, Done, DefinedAt
    <3>3. QED
      BY <1>1, <1>8, <3>1, <3>2, GoesOn DEF OpenLibrary
  <2>2. CASE handle # "library"
    BY <1>1, <1>8, <2>2, Leaves DEF OpenLibrary, HasSymbols, Error
  <2>3. QED
    BY <2>1, <2>2
<1>9. CASE DefineHelpers(t)
  <2>1. Done("start")'
    BY <1>1, <1>9 DEF DefineHelpers, Done, DefinedAt
  <2>2. QED
    BY <1>1, <1>9, <2>1, GoesOn DEF DefineHelpers
<1>10. CASE StartPython(t)
  <2>1. started = 0
    BY <1>1, <1>10 DEF StartPython, Done
  <2>2. started' = 1
    BY Zenon, <1>10, <2>1, OneMore DEF StartPython
  <2>3. Done("path")'
    BY <1>1, <1>10, <2>2 DEF StartPython, Done, DefinedAt
  <2>4. QED
    BY <1>1, <1>10, <2>3, GoesOn DEF StartPython
<1>11. CASE AppendPath(t)
  <2>1. paths = 0
    BY <1>1, <1>11 DEF AppendPath, Done
  <2>2. paths' = 1
    BY Zenon, <1>11, <2>1, OneMore DEF AppendPath
  <2>3. Done("classes")'
    BY <1>1, <1>11, <2>2 DEF AppendPath, Done, DefinedAt
  <2>4. QED
    BY <1>1, <1>11, <2>3, GoesOn DEF AppendPath
<1>12. CASE RequireClasses(t)
  <2>1. Done("versions")'
    BY <1>1, <1>12 DEF RequireClasses, Done, DefinedAt
  <2>2. QED
    BY <1>1, <1>12, <2>1, GoesOn DEF RequireClasses
<1>13. QED
  BY <1>2, <1>3, <1>4, <1>5, <1>6, <1>7, <1>8, <1>9, <1>10, <1>11, <1>12

\* init returns true.
LEMMA LastStep ==
  ASSUME IInv, NEW t \in Thread, SetVersions(t)
  PROVE  IInv'
<1>1. Inside(t) /\ Done("versions")
  BY DEF IInv, InStep, Inside, SetVersions, At, Late
<1>2. Ready'
  BY <1>1 DEF Done, DefinedAt, Ready, SetVersions, Name, Hooked, Early, Loading, Late
<1>3. /\ UNCHANGED <<hooks, started, paths, request>>
      /\ \E place \in Outer : pc' = [pc EXCEPT ![t] = place]
      /\ result' = result \/ result' = [result EXCEPT ![t] = "true"]
  <2>1. request[t] \in Request
    BY DEF IInv, CallOK
  <2>2. QED
    BY <2>1, FirstIsOuter DEF SetVersions, Return, Goto, Finish, Outer
<1>4. CallOK'
  BY <1>3 DEF IInv, CallOK
<1>5. \A u \in Thread : ~Inside(u)'
  BY <1>1, <1>3 DEF IInv, CallOK, OneInside, Inside, Outer, Early, Loading, Late
<1>6. "PyCall" \notin hooks'
  BY <1>1, <1>3 DEF IInv, OneInside
<1>7. QED
  BY <1>2, <1>3, <1>4, <1>5, <1>6
     DEF IInv, OneInside, InStep, NotBegun, NothingDefined, InitialisedOnce, TrueMeansReady

LEMMA NextIInv == IInv /\ [Next]_vars => IInv'
<1>1. ASSUME IInv, NEW t \in Thread, Step(t)
      PROVE  IInv'
  BY <1>1, OutsideStep, EnterStep, InsideStep, LastStep DEF Step
<1>2. ASSUME IInv, NEW t \in Thread, NEW what \in Request, Ask(t, what)
      PROVE  IInv'
  BY <1>2, OutsideStep
<1>3. ASSUME IInv, UNCHANGED vars
      PROVE  IInv'
  BY <1>3 DEF vars, IInv, CallOK, OneInside, NotBegun, Untouched, NothingDefined, InStep,
              Done, Inside, InitialisedOnce, TrueMeansReady, Ready
<1>4. QED
  BY <1>1, <1>2, <1>3 DEF Next

-----------------------------------------------------------------------------
(* Theorems.                                                               *)

THEOREM Invariance == Spec => []IInv
BY InitIInv, NextIInv, PTL DEF Spec

\* However many threads initialise PyCall, at the same time or after failed
\* attempts, init.rb starts one interpreter and extends sys.path once.
THEOREM OneInterpreter == Spec => []InitialisedOnce
<1>1. IInv => InitialisedOnce
  BY DEF IInv
<1>2. QED
  BY <1>1, Invariance, PTL

\* A thread to which PyCall.init returned true finds PyCall ready, on every
\* machine and whatever the other threads do.
THEOREM TrueIsReady == Spec => []TrueMeansReady
<1>1. IInv => TrueMeansReady
  BY DEF IInv
<1>2. QED
  BY <1>1, Invariance, PTL

=============================================================================
