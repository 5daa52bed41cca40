---------------------------- MODULE WrapperCache ----------------------------
(***************************************************************************)
(* Wrapper classes of Python types: WrapperObjectCache, which maps the     *)
(* address of a type to its wrapper class weakly, and the type mapping,    *)
(* which says what class an instance of a type is wrapped by.              *)
(*                                                                         *)
(* Types come and go: an address whose object has died is used for another *)
(* type. A type lives while Python code, a PyTypePtr or a subclass refers  *)
(* to it. Wrapper modules of Python modules are cached by the same code.   *)
(***************************************************************************)
EXTENDS Integers, Sequences, SequencesExt

CONSTANTS
  Type,       \* addresses of type objects
  Above,      \* the superclasses, proper ones, of each type
  Wrapper,    \* Ruby classes that wrap types
  Thread,     \* Ruby threads
  Programs,   \* the programs considered, each the set of features it uses
  MaxLife,    \* bound: types that have the same address one after the other
  NULL

ASSUME CacheAssumption ==
  /\ Above \in [Type -> SUBSET Type]
  /\ MaxLife \in Nat
  /\ NULL \notin Type \cup Wrapper \cup (Type \X (1..MaxLife))

VARIABLES
  prog,     \* the program
  life,     \* which of the types that share an address is there
  held,     \* types that Python code refers to
  wrapper,  \* each wrapper class: the type it was made for, and its PyTypePtr
  table,    \* the WeakMap
  used,     \* wrapper classes that the program itself refers to
  mapping,  \* python_type_mapping, in order of insertion: wrapper classes
  thread    \* each thread's call of wrap_class

vars == <<prog, life, held, wrapper, table, used, mapping, thread>>

Object == Type \X (1..MaxLife)
NoWrapper == [of |-> NULL, ptr |-> NULL]
IdleThread == [pc |-> "idle", type |-> NULL, ptr |-> NULL, class |-> NULL]

TypeOK ==
  /\ prog \in Programs
  /\ life \in [Type -> 0..MaxLife] /\ held \subseteq Type
  /\ wrapper \in [Wrapper -> [of : Object \cup {NULL}, ptr : Type \cup {NULL}]]
  /\ table \in [Type -> Wrapper \cup {NULL}]
  /\ used \subseteq {w \in Wrapper : wrapper[w] # NoWrapper}
  /\ mapping \in Seq(Wrapper)
  /\ \A w \in ToSet(mapping) : wrapper[w] # NoWrapper
  /\ IsInjective(mapping)
  /\ thread \in [Thread -> [pc : {"idle", "lookup", "make", "store", "got"},
                            type : Type \cup {NULL}, ptr : Type \cup {NULL},
                            class : Wrapper \cup {NULL}]]

Init ==
  /\ prog \in Programs
  /\ life = [a \in Type |-> 0] /\ held = {}
  /\ wrapper = [w \in Wrapper |-> NoWrapper]
  /\ table = [a \in Type |-> NULL]
  /\ used = {} /\ mapping = <<>>
  /\ thread = [t \in Thread |-> IdleThread]

-----------------------------------------------------------------------------
(* Python.                                                                 *)

Referred(a) ==
  \/ a \in held
  \/ \E w \in Wrapper : wrapper[w].ptr = a
  \/ \E t \in Thread : thread[t].ptr = a

Alive(a) == \E b \in Type : (b = a \/ a \in Above[b]) /\ Referred(b)

\* A class statement: a type is made at a free address.
DefineType(a) ==
  /\ ~Alive(a) /\ life[a] < MaxLife
  /\ \A b \in Above[a] : Alive(b)
  /\ life' = [life EXCEPT ![a] = @ + 1]
  /\ held' = held \cup {a}
  /\ UNCHANGED <<wrapper, table, used, mapping, thread>>

\* Python code drops its last reference. The type may die with it.
DropType(a) ==
  /\ a \in held
  /\ held' = held \ {a}
  /\ UNCHANGED <<life, wrapper, table, used, mapping, thread>>

-----------------------------------------------------------------------------
(* PyCall.wrap_class, for a type that pycall_pytype_to_ruby converts.      *)

Set(t, r) == thread' = [thread EXCEPT ![t] = r]

\* A new PyTypePtr retains the type; the checks of lookup pass for a type.
\* Without the feature "threads" only one thread uses pycall at a time.
WrapClass(t, a) ==
  /\ thread[t].pc = "idle" /\ Alive(a)
  /\ "threads" \notin prog => \A u \in Thread : thread[u].pc = "idle"
  /\ Set(t, [pc |-> "lookup", type |-> a, ptr |-> a, class |-> NULL])
  /\ UNCHANGED <<life, held, wrapper, table, used, mapping>>

\* @wrapper_object_table[key]; a hit leaves the new PyTypePtr unused.
Lookup(t) ==
  /\ thread[t].pc = "lookup"
  /\ LET a == thread[t].type IN
       Set(t, [pc |-> IF table[a] = NULL THEN "make" ELSE "got",
               type |-> a, ptr |-> thread[t].ptr, class |-> table[a]])
  /\ UNCHANGED <<life, held, wrapper, table, used, mapping>>

\* Mutant: the class does not keep the pointer.
MakeWithoutPointer(t, w) ==
  /\ thread[t].pc = "make" /\ wrapper[w] = NoWrapper
  /\ LET a == thread[t].type IN
       wrapper' = [wrapper EXCEPT ![w] = [of |-> <<a, life[a]>>, ptr |-> NULL]]
  /\ Set(t, [pc |-> "store", type |-> thread[t].type, ptr |-> NULL, class |-> w])
  /\ UNCHANGED <<life, held, table, used, mapping>>

\* The block: a class that has the PyTypePtr as @__pyptr__.
Make(t, w) ==
  /\ thread[t].pc = "make" /\ wrapper[w] = NoWrapper
  /\ LET a == thread[t].type IN
       wrapper' = [wrapper EXCEPT ![w] = [of |-> <<a, life[a]>>, ptr |-> a]]
  /\ Set(t, [pc |-> "store", type |-> thread[t].type, ptr |-> NULL, class |-> w])
  /\ UNCHANGED <<life, held, table, used, mapping>>

\* Mutant: the new class is returned but not remembered.
StoreNothing(t) ==
  /\ thread[t].pc = "store"
  /\ Set(t, [thread[t] EXCEPT !.pc = "got"])
  /\ UNCHANGED <<life, held, wrapper, table, used, mapping>>

\* @wrapper_object_table[key] = wrapper_object
Store(t) ==
  /\ thread[t].pc = "store"
  /\ table' = [table EXCEPT ![thread[t].type] = thread[t].class]
  /\ Set(t, [thread[t] EXCEPT !.pc = "got"])
  /\ UNCHANGED <<life, held, wrapper, used, mapping>>

\* The program has the class, and an unused PyTypePtr is collected.
Use(t) ==
  /\ thread[t].pc = "got"
  /\ used' = used \cup {thread[t].class}
  /\ Set(t, IdleThread)
  /\ UNCHANGED <<life, held, wrapper, table, mapping>>

Forget(w) ==
  /\ w \in used
  /\ used' = used \ {w}
  /\ UNCHANGED <<life, held, wrapper, table, mapping, thread>>

\* Mutant: the mapping holds its classes weakly.
StronglyHeldByProgram == used

\* The mapping holds its classes, and the TODO to make it weak is not done.
StronglyHeld == used \cup ToSet(mapping)

\* The class is collected with its PyTypePtr, and its entry of the WeakMap.
Collect(w) ==
  /\ wrapper[w] # NoWrapper /\ w \notin StronglyHeld
  /\ \A t \in Thread : thread[t].class # w
  /\ wrapper' = [wrapper EXCEPT ![w] = NoWrapper]
  /\ table' = [a \in Type |-> IF table[a] = w THEN NULL ELSE table[a]]
  /\ UNCHANGED <<life, held, used, mapping, thread>>

\* PyPtr.decref(cls.__pyptr__) releases the type while the class is cached.
\* For a registered class it would empty the key of the mapping: left out.
PtrDecref(w) ==
  /\ "decref" \in prog
  /\ w \in used \ ToSet(mapping) /\ wrapper[w].ptr # NULL
  /\ wrapper' = [wrapper EXCEPT ![w].ptr = NULL]
  /\ UNCHANGED <<life, held, table, used, mapping, thread>>

-----------------------------------------------------------------------------
(* PyCall::Conversion: the type mapping.                                   *)

Key(w) == wrapper[w].ptr

\* Mutant: the newest registration is looked at first.
RegisterFirst(w) ==
  /\ w \in used /\ Key(w) # NULL
  /\ \A i \in DOMAIN mapping : Key(mapping[i]) # Key(w)
  /\ mapping' = <<w>> \o mapping
  /\ UNCHANGED <<life, held, wrapper, table, used, thread>>

\* cls.register_python_type_mapping; a registered type is left as it is.
Register(w) ==
  /\ w \in used /\ Key(w) # NULL
  /\ \A i \in DOMAIN mapping : Key(mapping[i]) # Key(w)
  /\ mapping' = Append(mapping, w)
  /\ UNCHANGED <<life, held, wrapper, table, used, thread>>

Unregister(w) ==
  /\ \E i \in DOMAIN mapping : mapping[i] = w /\ mapping' = RemoveAt(mapping, i)
  /\ UNCHANGED <<life, held, wrapper, table, used, thread>>

\* The first entry of m whose type is in types, or NULL.
FirstOf(m, types) ==
  LET hits == {i \in DOMAIN m : Key(m[i]) \in types}
  IN IF hits = {} THEN NULL ELSE m[Min(hits)]

\* Mutant: an exact match is an ancestor like any other.
MappedClassInOrder(m, a) == FirstOf(m, {a} \cup Above[a])

\* The class for instances of type a: its own, or else the first registered
\* of an ancestor, in order of registration.
MappedClass(m, a) ==
  IF FirstOf(m, {a}) # NULL THEN FirstOf(m, {a}) ELSE FirstOf(m, Above[a])

-----------------------------------------------------------------------------
Step ==
  \/ \E a \in Type : DefineType(a) \/ DropType(a)
  \/ \E t \in Thread, a \in Type : WrapClass(t, a)
  \/ \E t \in Thread, w \in Wrapper : Make(t, w)
  \/ \E t \in Thread : Lookup(t) \/ Store(t) \/ Use(t)
  \/ \E w \in Wrapper : Forget(w) \/ Collect(w) \/ PtrDecref(w)
  \/ \E w \in Wrapper : Register(w) \/ Unregister(w)

Next == Step /\ UNCHANGED prog

Spec == Init /\ [][Next]_vars

-----------------------------------------------------------------------------
(* Properties.                                                             *)

\* The class that wrap_class returns was made for the type it was given, and
\* not for one that had the same address before, unless PyPtr.decref is used.
WrapperIsCurrent ==
  "decref" \notin prog =>
    \A t \in Thread : thread[t].pc = "got" =>
      wrapper[thread[t].class].of = <<thread[t].type, life[thread[t].type]>>

\* A type that a registered class stands for is the one it was made for, so
\* instances are never wrapped by the class of a type that is gone.
MappingIsCurrent ==
  "decref" \notin prog =>
    \A i \in DOMAIN mapping :
      LET a == Key(mapping[i])
      IN a # NULL /\ wrapper[mapping[i]].of = <<a, life[a]>>

\* Registering a class changes the class of instances of its own type, and of
\* those that had none, and of no other.
RegisterKeepsOthers ==
  [][\A a \in Type :
       (Len(mapping') > Len(mapping) /\ MappedClass(mapping, a) # NULL)
         => \/ MappedClass(mapping', a) = MappedClass(mapping, a)
            \/ Key(MappedClass(mapping', a)) = a]_vars

\* Instances of a registered type get its own class, whatever was registered
\* before it.
ExactClassWins ==
  \A i \in DOMAIN mapping : MappedClass(mapping, Key(mapping[i])) = mapping[i]

-----------------------------------------------------------------------------
(* The cache implements the identity map, for a program that uses neither  *)
(* several threads nor PyPtr.decref.                                       *)

Cached(o) ==
  LET w == table[o[1]] IN IF w # NULL /\ wrapper[w].of = o THEN w ELSE NULL

Identity == INSTANCE IdentityMap WITH
  wrapperOf <- [o \in Object |-> Cached(o)],
  asked     <- [t \in Thread |-> IF thread[t].type = NULL THEN NULL
                                 ELSE <<thread[t].type, life[thread[t].type]>>],
  answer    <- [t \in Thread |-> IF thread[t].pc = "got" THEN thread[t].class ELSE NULL]

\* Who asks for a type while its class is in use gets that class.
CacheIsIdentityMap ==
  Identity!Init /\ [][prog = {} => Identity!Next]_(Identity!idVars)

=============================================================================
