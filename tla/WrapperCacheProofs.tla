------------------------- MODULE WrapperCacheProofs -------------------------
(***************************************************************************)
(* Theorems about WrapperCache, for any types, wrapper classes, threads    *)
(* and programs, and any number of types at one address: a wrapper class   *)
(* is that of the type which is at its address, the type mapping is sound, *)
(* and the cache implements IdentityMap.                                   *)
(*                                                                         *)
(* The argument is that a PyTypePtr keeps its type alive, and an address   *)
(* is used again only when its type is dead (WrapperInv). So what a class  *)
(* was made for and what is at its address agree as long as it has its     *)
(* pointer.                                                                *)
(***************************************************************************)
EXTENDS WrapperCache, FiniteSetTheorems, SequenceTheorems, WellFoundedInduction, TLAPS

-----------------------------------------------------------------------------
(* The inductive invariant.                                                *)

Born(a) == a \in Type /\ life[a] \in 1..MaxLife

OfType(w, a) == wrapper[w].of \in Object /\ wrapper[w].of[1] = a

\* What Python refers to has been made, and the superclasses before it.
LifeInv ==
  /\ \A a \in held : Born(a)
  /\ \A b \in Type : Born(b) => \A a \in Above[b] : Born(a)

\* A class that has its pointer was made for the type that is there now; only
\* PyPtr.decref takes the pointer away.
WrapperInv ==
  \A w \in Wrapper :
    /\ wrapper[w].ptr # NULL =>
         /\ Born(wrapper[w].ptr)
         /\ wrapper[w].of = <<wrapper[w].ptr, life[wrapper[w].ptr]>>
    /\ wrapper[w].of = NULL => wrapper[w].ptr = NULL
    /\ wrapper[w].of # NULL /\ wrapper[w].ptr = NULL => "decref" \in prog

TableInv == \A a \in Type : table[a] # NULL => OfType(table[a], a)

\* How far a thread's call is.
ThreadInv ==
  \A t \in Thread :
    /\ thread[t].pc = "idle" => thread[t] = IdleThread
    /\ thread[t].pc # "idle" => Born(thread[t].type)
    /\ thread[t].ptr # NULL => thread[t].ptr = thread[t].type
    /\ thread[t].pc \in {"lookup", "make"} =>
         thread[t].ptr = thread[t].type /\ thread[t].class = NULL
    /\ thread[t].pc \in {"store", "got"} =>
         thread[t].class \in Wrapper /\ OfType(thread[t].class, thread[t].type)

\* Two registered classes stand for two types.
MappingInv ==
  /\ \A i \in DOMAIN mapping : Key(mapping[i]) # NULL
  /\ \A i, j \in DOMAIN mapping : Key(mapping[i]) = Key(mapping[j]) => i = j

\* Without threads, what a call has missed stays missing until it stores it.
AloneInv ==
  "threads" \notin prog =>
    /\ \A t, u \in Thread : thread[t].pc # "idle" /\ thread[u].pc # "idle" => t = u
    /\ \A t \in Thread : thread[t].pc \in {"make", "store"} => table[thread[t].type] = NULL
    /\ \A t \in Thread, a \in Type : thread[t].pc = "store" => table[a] # thread[t].class

IInv ==
  /\ TypeOK /\ LifeInv /\ WrapperInv /\ TableInv
  /\ ThreadInv /\ MappingInv /\ AloneInv

LEMMA NullIsNoData ==
  /\ NULL \notin Type /\ NULL \notin Wrapper /\ NULL \notin Object
  /\ \A a \in Type : Above[a] \subseteq Type
BY CacheAssumption DEF Object

LEMMA InitIInv == Init => IInv
<1> SUFFICES ASSUME Init PROVE IInv
  OBVIOUS
<1> USE NullIsNoData DEF Init, NoWrapper, IdleThread
<1>1. TypeOK
  BY CacheAssumption DEF TypeOK, ToSet, IsInjective
<1>2. LifeInv
  BY CacheAssumption DEF LifeInv, Born
<1>3. WrapperInv /\ TableInv
  BY DEF WrapperInv, TableInv
<1>4. ThreadInv /\ MappingInv /\ AloneInv
  BY DEF ThreadInv, MappingInv, AloneInv
<1> QED BY <1>1, <1>2, <1>3, <1>4 DEF IInv

\* What is alive has been made.
LEMMA AliveBorn ==
  ASSUME IInv, NEW a \in Type, Alive(a)
  PROVE  Born(a)
<1>1. PICK b \in Type : (b = a \/ a \in Above[b]) /\ Referred(b)
  BY DEF Alive
<1>2. Born(b)
  BY <1>1, NullIsNoData DEF Referred, IInv, LifeInv, WrapperInv, ThreadInv, IdleThread
<1> QED BY <1>1, <1>2 DEF IInv, LifeInv

\* A type with a pointer to it is alive.
LEMMA PtrAlive ==
  /\ \A w \in Wrapper : wrapper[w].ptr \in Type => Alive(wrapper[w].ptr)
  /\ \A t \in Thread : thread[t].ptr \in Type => Alive(thread[t].ptr)
  /\ held \subseteq Type => \A a \in held : Alive(a)
BY DEF Alive, Referred

-----------------------------------------------------------------------------
(* Python and the calls of wrap_class.                                     *)

LEMMA DefineTypeInv ==
  ASSUME IInv, NEW a \in Type, DefineType(a), UNCHANGED prog
  PROVE  IInv'
<1> USE NullIsNoData
<1>1. /\ ~Alive(a) /\ life[a] < MaxLife
      /\ \A b \in Above[a] : Alive(b)
      /\ life' = [life EXCEPT ![a] = @ + 1]
      /\ held' = held \cup {a}
      /\ UNCHANGED <<prog, wrapper, table, used, mapping, thread>>
  BY DEF DefineType
<1>2. life \in [Type -> 0..MaxLife] /\ held \subseteq Type
  BY DEF IInv, TypeOK
<1>3. life' \in [Type -> 0..MaxLife]
  BY <1>1, <1>2, CacheAssumption
<1>4. TypeOK'
  BY <1>1, <1>2, <1>3 DEF IInv, TypeOK
<1>5. ASSUME NEW b, Born(b) PROVE Born(b)'
  BY <1>1, <1>2, <1>3, <1>5, CacheAssumption DEF Born
<1>6. Born(a)'
  BY <1>1, <1>2, CacheAssumption DEF Born
<1>7. LifeInv'
  <2>1. ASSUME NEW b \in held' PROVE Born(b)'
    BY <1>1, <1>5, <1>6 DEF IInv, LifeInv
  <2>2. ASSUME NEW b \in Type, Born(b)', NEW x \in Above[b] PROVE Born(x)'
    <3>1. CASE b = a
      BY <3>1, <1>1, <1>5, AliveBorn
    <3>2. CASE b # a
      BY <3>2, <2>2, <1>1, <1>2, <1>5 DEF IInv, LifeInv, Born
    <3> QED BY <3>1, <3>2
  <2> QED BY <2>1, <2>2 DEF LifeInv
<1>8. ASSUME NEW w \in Wrapper, wrapper[w].ptr # NULL
      PROVE  wrapper[w].ptr # a /\ wrapper[w].ptr \in Type
  BY <1>1, <1>8, PtrAlive DEF IInv, WrapperInv, Born
<1>9. WrapperInv'
  BY <1>1, <1>2, <1>5, <1>8 DEF IInv, WrapperInv
<1>10. TableInv' /\ ThreadInv' /\ MappingInv' /\ AloneInv'
  <2>1. TableInv' /\ MappingInv' /\ AloneInv'
    BY <1>1 DEF IInv, TableInv, MappingInv, AloneInv, OfType, Key
  <2>2. ThreadInv'
    BY <1>1, <1>5 DEF IInv, ThreadInv, OfType
  <2> QED BY <2>1, <2>2
<1> QED BY <1>4, <1>7, <1>9, <1>10 DEF IInv

LEMMA DropTypeInv ==
  ASSUME IInv, NEW a \in Type, DropType(a), UNCHANGED prog
  PROVE  IInv'
<1>1. /\ held' = held \ {a}
      /\ UNCHANGED <<prog, life, wrapper, table, used, mapping, thread>>
  BY DEF DropType
<1>2. TypeOK'
  BY <1>1 DEF IInv, TypeOK
<1>3. LifeInv' /\ WrapperInv'
  BY <1>1 DEF IInv, LifeInv, WrapperInv, Born
<1>4. TableInv' /\ ThreadInv' /\ MappingInv' /\ AloneInv'
  BY <1>1 DEF IInv, TableInv, ThreadInv, MappingInv, AloneInv, OfType, Born, Key
<1> QED BY <1>2, <1>3, <1>4 DEF IInv

Calls == [Thread -> [pc : {"idle", "lookup", "make", "store", "got"},
                     type : Type \cup {NULL}, ptr : Type \cup {NULL},
                     class : Wrapper \cup {NULL}]]

\* A step of one thread's call, to state r.
LEMMA OneCall ==
  ASSUME IInv, NEW t \in Thread, NEW r, thread' = [thread EXCEPT ![t] = r],
         r \in [pc : {"idle", "lookup", "make", "store", "got"},
                type : Type \cup {NULL}, ptr : Type \cup {NULL},
                class : Wrapper \cup {NULL}]
  PROVE  /\ thread' \in Calls /\ thread'[t] = r
         /\ \A u \in Thread : u # t => thread'[u] = thread[u]
<1>1. thread \in Calls
  BY DEF IInv, TypeOK, Calls
<1> QED BY <1>1 DEF Calls

\* What a step of a call leaves alone.
LEMMA OnlyCall ==
  ASSUME IInv, UNCHANGED <<prog, life, held, wrapper, mapping>>
  PROVE  LifeInv' /\ WrapperInv' /\ MappingInv'
BY DEF IInv, LifeInv, WrapperInv, MappingInv, Born, Key

LEMMA WrapClassInv ==
  ASSUME IInv, NEW t \in Thread, NEW a \in Type, WrapClass(t, a), UNCHANGED prog
  PROVE  IInv'
<1> USE NullIsNoData
<1>1. /\ thread[t].pc = "idle" /\ Alive(a)
      /\ "threads" \notin prog => \A u \in Thread : thread[u].pc = "idle"
      /\ UNCHANGED <<prog, life, held, wrapper, table, used, mapping>>
  BY DEF WrapClass
<1> DEFINE r == [pc |-> "lookup", type |-> a, ptr |-> a, class |-> NULL]
<1>2. thread[t] = IdleThread
  BY <1>1 DEF IInv, ThreadInv
<1>3. thread' = [thread EXCEPT ![t] = r]
  BY DEF WrapClass, Set
<1>4. /\ thread' \in Calls /\ thread'[t] = r
      /\ \A u \in Thread : u # t => thread'[u] = thread[u]
  BY <1>3, OneCall
<1>5. TypeOK'
  BY <1>1, <1>4 DEF IInv, TypeOK, Calls
<1>6. LifeInv' /\ WrapperInv' /\ MappingInv'
  BY <1>1, OnlyCall
<1>7. TableInv'
  BY <1>1 DEF IInv, TableInv, OfType
<1>8. ThreadInv'
  <2>1. Born(a)
    BY <1>1, AliveBorn
  <2>2. ASSUME NEW u \in Thread
        PROVE  (u = t /\ thread'[u] = r) \/ thread'[u] = thread[u]
    BY <1>4
  <2> QED BY <1>1, <2>1, <2>2 DEF IInv, ThreadInv, OfType, Born
<1>9. AloneInv'
  BY <1>1, <1>4 DEF IInv, AloneInv
<1> QED BY <1>5, <1>6, <1>7, <1>8, <1>9 DEF IInv

LEMMA LookupInv ==
  ASSUME IInv, NEW t \in Thread, Lookup(t), UNCHANGED prog
  PROVE  IInv'
<1> USE NullIsNoData
<1> DEFINE class == table[thread[t].type]
<1>1. /\ thread[t].pc = "lookup"
      /\ UNCHANGED <<prog, life, held, wrapper, table, used, mapping>>
  BY DEF Lookup, Set
<1>2. /\ Born(thread[t].type) /\ thread[t].ptr = thread[t].type
      /\ thread[t].type \in Type
  BY <1>1 DEF IInv, ThreadInv, Born
<1>3. class \in Wrapper \cup {NULL}
  BY <1>2 DEF IInv, TypeOK
<1> DEFINE r == [pc |-> IF class = NULL THEN "make" ELSE "got",
                 type |-> thread[t].type, ptr |-> thread[t].ptr, class |-> class]
<1>4. thread' = [thread EXCEPT ![t] = r]
  BY DEF Lookup, Set
<1>5. /\ thread' \in Calls /\ thread'[t] = r
      /\ \A u \in Thread : u # t => thread'[u] = thread[u]
  <2>1. r.pc \in {"make", "got"} /\ r.class \in Wrapper \cup {NULL}
    BY <1>3
  <2>2. r.type \in Type /\ r.ptr \in Type
    BY <1>2
  <2>3. r \in [pc : {"idle", "lookup", "make", "store", "got"},
               type : Type \cup {NULL}, ptr : Type \cup {NULL},
               class : Wrapper \cup {NULL}]
    BY <2>1, <2>2
  <2> HIDE DEF r
  <2> QED BY <2>3, <1>4, OneCall
<1>6. TypeOK'
  BY <1>1, <1>5 DEF IInv, TypeOK, Calls
<1>7. LifeInv' /\ WrapperInv' /\ MappingInv'
  BY <1>1, OnlyCall
<1>8. TableInv'
  BY <1>1 DEF IInv, TableInv, OfType
<1>9. ThreadInv'
  <2>1. class # NULL => OfType(class, thread[t].type)
    BY <1>2 DEF IInv, TableInv
  <2>2. ASSUME NEW u \in Thread
        PROVE  (u = t /\ thread'[u] = r) \/ thread'[u] = thread[u]
    BY <1>5
  <2> QED BY <1>1, <1>2, <1>3, <2>1, <2>2 DEF IInv, ThreadInv, OfType, Born
<1>10. AloneInv'
  <2>1. ASSUME "threads" \notin prog, NEW u \in Thread, u # t
        PROVE  thread'[u].pc = "idle"
    BY <1>1, <1>5, <2>1 DEF IInv, AloneInv, ThreadInv, TypeOK
  <2> QED BY <1>1, <1>5, <2>1 DEF AloneInv
<1> QED BY <1>6, <1>7, <1>8, <1>9, <1>10 DEF IInv

LEMMA MakeInv ==
  ASSUME IInv, NEW t \in Thread, NEW w \in Wrapper, Make(t, w), UNCHANGED prog
  PROVE  IInv'
<1> USE NullIsNoData
<1> DEFINE a == thread[t].type
<1>1. /\ thread[t].pc = "make" /\ wrapper[w] = NoWrapper
      /\ wrapper' = [wrapper EXCEPT ![w] = [of |-> <<a, life[a]>>, ptr |-> a]]
      /\ UNCHANGED <<prog, life, held, table, used, mapping>>
  BY DEF Make, Set
<1>2. Born(a) /\ a \in Type /\ <<a, life[a]>> \in Object
  BY <1>1 DEF IInv, ThreadInv, Born, Object
<1>3. /\ wrapper'[w] = [of |-> <<a, life[a]>>, ptr |-> a]
      /\ \A v \in Wrapper \ {w} : wrapper'[v] = wrapper[v]
      /\ wrapper' \in [Wrapper -> [of : Object \cup {NULL}, ptr : Type \cup {NULL}]]
  BY <1>1, <1>2 DEF IInv, TypeOK
<1>4. /\ thread' \in Calls
      /\ thread'[t] = [pc |-> "store", type |-> a, ptr |-> NULL, class |-> w]
      /\ \A u \in Thread : u # t => thread'[u] = thread[u]
  <2> DEFINE r == [pc |-> "store", type |-> a, ptr |-> NULL, class |-> w]
  <2>1. thread' = [thread EXCEPT ![t] = r]
    BY DEF Make, Set
  <2> QED BY <1>2, <2>1, OneCall
<1>5. w \notin ToSet(mapping) /\ w \notin used
  BY <1>1 DEF IInv, TypeOK
<1>6. wrapper'[w] # NoWrapper
  BY <1>2, <1>3 DEF NoWrapper
<1>7. TypeOK'
  BY <1>1, <1>3, <1>4, <1>6 DEF IInv, TypeOK, Calls
<1>8. LifeInv'
  BY <1>1 DEF IInv, LifeInv, Born
<1>9. WrapperInv'
  BY <1>1, <1>2, <1>3 DEF IInv, WrapperInv, Born
<1>10. ASSUME NEW v, NEW b, OfType(v, b), v \in Wrapper
       PROVE  v # w /\ OfType(v, b)'
  BY <1>10, <1>1, <1>3 DEF OfType, NoWrapper
<1>11. TableInv'
  BY <1>1, <1>10 DEF IInv, TableInv, TypeOK
<1>12. ThreadInv'
  BY <1>1, <1>2, <1>3, <1>4, <1>10 DEF IInv, ThreadInv, OfType, Born
<1>13. MappingInv'
  <2>1. \A i \in DOMAIN mapping : mapping[i] \in Wrapper \ {w}
    BY <1>5 DEF IInv, TypeOK, ToSet
  <2> QED BY <2>1, <1>1, <1>3 DEF IInv, MappingInv, Key
<1>14. AloneInv'
  <2>1. ASSUME "threads" \notin prog, NEW u \in Thread, u # t
        PROVE  thread'[u].pc = "idle"
    BY <1>1, <1>4, <2>1 DEF IInv, AloneInv, TypeOK
  <2>2. \A b \in Type : table[b] # w
    BY <1>10 DEF IInv, TableInv, TypeOK
  <2>3. "threads" \notin prog => table[a] = NULL
    BY <1>1 DEF IInv, AloneInv
  <2> QED BY <1>1, <1>4, <2>1, <2>2, <2>3 DEF AloneInv
<1> QED BY <1>7, <1>8, <1>9, <1>11, <1>12, <1>13, <1>14 DEF IInv

LEMMA StoreInv ==
  ASSUME IInv, NEW t \in Thread, Store(t), UNCHANGED prog
  PROVE  IInv'
<1> USE NullIsNoData
<1> DEFINE a == thread[t].type
<1> DEFINE r == [thread[t] EXCEPT !.pc = "got"]
<1>1. /\ thread[t].pc = "store"
      /\ table' = [table EXCEPT ![a] = thread[t].class]
      /\ thread' = [thread EXCEPT ![t] = r]
      /\ UNCHANGED <<prog, life, held, wrapper, used, mapping>>
  BY DEF Store, Set
<1>2. Born(a) /\ a \in Type /\ thread[t].class \in Wrapper /\ OfType(thread[t].class, a)
  BY <1>1 DEF IInv, ThreadInv, Born
<1>3. /\ r \in [pc : {"idle", "lookup", "make", "store", "got"},
                type : Type \cup {NULL}, ptr : Type \cup {NULL},
                class : Wrapper \cup {NULL}]
      /\ r.pc = "got" /\ r.type = a /\ r.class = thread[t].class /\ r.ptr = thread[t].ptr
  BY DEF IInv, TypeOK
<1> HIDE DEF r
<1>4. /\ thread' \in Calls /\ thread'[t] = r
      /\ \A u \in Thread : u # t => thread'[u] = thread[u]
  BY <1>1, <1>3, OneCall
<1>5. /\ table' \in [Type -> Wrapper \cup {NULL}] /\ table'[a] = thread[t].class
      /\ \A b \in Type : b # a => table'[b] = table[b]
  BY <1>1, <1>2 DEF IInv, TypeOK
<1>6. TypeOK'
  BY <1>1, <1>4, <1>5 DEF IInv, TypeOK, Calls
<1>7. LifeInv' /\ WrapperInv' /\ MappingInv'
  BY <1>1, OnlyCall
<1>8. TableInv'
  BY <1>1, <1>2, <1>5 DEF IInv, TableInv, OfType
<1>9. ThreadInv'
  <2>1. ASSUME NEW u \in Thread
        PROVE  (u = t /\ thread'[u] = r) \/ thread'[u] = thread[u]
    BY <1>4
  <2> QED BY <1>1, <1>2, <1>3, <2>1 DEF IInv, ThreadInv, OfType, Born
<1>10. AloneInv'
  <2>1. ASSUME "threads" \notin prog, NEW u \in Thread, u # t
        PROVE  thread'[u].pc = "idle"
    BY <1>1, <1>4, <2>1 DEF IInv, AloneInv, TypeOK
  <2> QED BY <1>1, <1>3, <1>4, <2>1 DEF AloneInv
<1> QED BY <1>6, <1>7, <1>8, <1>9, <1>10 DEF IInv

LEMMA UseInv ==
  ASSUME IInv, NEW t \in Thread, Use(t), UNCHANGED prog
  PROVE  IInv'
<1> USE NullIsNoData
<1>1. /\ thread[t].pc = "got" /\ used' = used \cup {thread[t].class}
      /\ thread' = [thread EXCEPT ![t] = IdleThread]
      /\ UNCHANGED <<prog, life, held, wrapper, table, mapping>>
  BY DEF Use, Set
<1>2. thread[t].class \in Wrapper /\ wrapper[thread[t].class] # NoWrapper
  BY <1>1 DEF IInv, ThreadInv, OfType, NoWrapper
<1>3. IdleThread \in [pc : {"idle", "lookup", "make", "store", "got"},
                      type : Type \cup {NULL}, ptr : Type \cup {NULL},
                      class : Wrapper \cup {NULL}]
  BY DEF IdleThread
<1>4. /\ thread' \in Calls /\ thread'[t] = IdleThread
      /\ \A u \in Thread : u # t => thread'[u] = thread[u]
  BY <1>1, <1>3, OneCall
<1>5. TypeOK'
  BY <1>1, <1>2, <1>4 DEF IInv, TypeOK, Calls
<1>6. LifeInv' /\ WrapperInv' /\ MappingInv'
  BY <1>1, OnlyCall
<1>7. TableInv'
  BY <1>1 DEF IInv, TableInv, OfType
<1>8. ASSUME NEW u \in Thread
      PROVE  (thread'[u] = IdleThread) \/ thread'[u] = thread[u]
  BY <1>4
<1>9. ThreadInv'
  BY <1>1, <1>8 DEF IInv, ThreadInv, OfType, Born, IdleThread
<1>10. AloneInv'
  BY <1>1, <1>8 DEF IInv, AloneInv, IdleThread
<1> QED BY <1>5, <1>6, <1>7, <1>9, <1>10 DEF IInv

-----------------------------------------------------------------------------
(* The program and the collector.                                          *)

LEMMA ForgetInv ==
  ASSUME IInv, NEW w \in Wrapper, Forget(w), UNCHANGED prog
  PROVE  IInv'
<1>1. /\ used' = used \ {w}
      /\ UNCHANGED <<prog, life, held, wrapper, table, mapping, thread>>
  BY DEF Forget
<1>2. TypeOK'
  BY <1>1 DEF IInv, TypeOK
<1>3. LifeInv' /\ WrapperInv' /\ MappingInv'
  BY <1>1, OnlyCall
<1>4. TableInv' /\ ThreadInv' /\ AloneInv'
  BY <1>1 DEF IInv, TableInv, ThreadInv, AloneInv, OfType, Born
<1> QED BY <1>2, <1>3, <1>4 DEF IInv

LEMMA CollectInv ==
  ASSUME IInv, NEW w \in Wrapper, Collect(w), UNCHANGED prog
  PROVE  IInv'
<1> USE NullIsNoData
<1>1. /\ wrapper[w] # NoWrapper /\ w \notin used /\ w \notin ToSet(mapping)
      /\ \A t \in Thread : thread[t].class # w
      /\ wrapper' = [wrapper EXCEPT ![w] = NoWrapper]
      /\ table' = [a \in Type |-> IF table[a] = w THEN NULL ELSE table[a]]
      /\ UNCHANGED <<prog, life, held, used, mapping, thread>>
  BY DEF Collect, StronglyHeld
<1>2. /\ wrapper' \in [Wrapper -> [of : Object \cup {NULL}, ptr : Type \cup {NULL}]]
      /\ wrapper'[w] = NoWrapper
      /\ \A v \in Wrapper : v # w => wrapper'[v] = wrapper[v]
  BY <1>1 DEF IInv, TypeOK, NoWrapper
<1>3. /\ table' \in [Type -> Wrapper \cup {NULL}]
      /\ \A a \in Type : table'[a] \in {NULL, table[a]} /\ table'[a] # w
  BY <1>1 DEF IInv, TypeOK
<1>4. \A i \in DOMAIN mapping : mapping[i] \in Wrapper /\ mapping[i] # w
  BY <1>1 DEF IInv, TypeOK, ToSet
<1>5. \A v \in ToSet(mapping) : v \in Wrapper /\ v # w
  BY <1>4 DEF ToSet
<1>6. TypeOK'
  BY <1>1, <1>2, <1>3, <1>5 DEF IInv, TypeOK
<1>7. LifeInv'
  BY <1>1 DEF IInv, LifeInv, Born
<1>8. WrapperInv'
  BY <1>1, <1>2 DEF IInv, WrapperInv, Born, NoWrapper
<1>9. TableInv'
  BY <1>1, <1>2, <1>3 DEF IInv, TableInv, OfType
<1>10. ThreadInv'
  BY <1>1, <1>2 DEF IInv, ThreadInv, OfType, Born
<1>11. MappingInv'
  BY <1>1, <1>2, <1>4 DEF IInv, MappingInv, Key
<1>12. AloneInv'
  <2>1. ASSUME NEW t \in Thread, thread[t].pc # "idle" PROVE thread[t].type \in Type
    BY <2>1 DEF IInv, ThreadInv, Born
  <2>2. ASSUME "threads" \notin prog, NEW t \in Thread, NEW a \in Type,
               thread[t].pc = "store"
        PROVE  table'[a] # thread[t].class
    BY <2>2, <1>3 DEF IInv, AloneInv, ThreadInv
  <2> QED BY <1>1, <1>3, <2>1, <2>2 DEF IInv, AloneInv
<1> QED BY <1>6, <1>7, <1>8, <1>9, <1>10, <1>11, <1>12 DEF IInv

LEMMA PtrDecrefInv ==
  ASSUME IInv, NEW w \in Wrapper, PtrDecref(w), UNCHANGED prog
  PROVE  IInv'
<1> USE NullIsNoData
<1> DEFINE r == [of |-> wrapper[w].of, ptr |-> NULL]
<1>1. /\ "decref" \in prog /\ w \in used /\ w \notin ToSet(mapping)
      /\ wrapper[w].ptr # NULL
      /\ wrapper' = [wrapper EXCEPT ![w] = [wrapper[w] EXCEPT !.ptr = NULL]]
      /\ UNCHANGED <<prog, life, held, table, used, mapping, thread>>
  BY DEF PtrDecref
<1>2. /\ wrapper' \in [Wrapper -> [of : Object \cup {NULL}, ptr : Type \cup {NULL}]]
      /\ wrapper'[w].ptr = NULL
      /\ \A v \in Wrapper : wrapper'[v].of = wrapper[v].of
      /\ \A v \in Wrapper : v # w => wrapper'[v] = wrapper[v]
  <2>1. wrapper \in [Wrapper -> [of : Object \cup {NULL}, ptr : Type \cup {NULL}]]
    BY DEF IInv, TypeOK
  <2>2. [wrapper[w] EXCEPT !.ptr = NULL] = r
    BY <2>1
  <2>3. r \in [of : Object \cup {NULL}, ptr : Type \cup {NULL}]
    BY <2>1
  <2>4. /\ wrapper'[w] = r /\ r.of = wrapper[w].of /\ r.ptr = NULL
        /\ \A v \in Wrapper : v # w => wrapper'[v] = wrapper[v]
    BY <1>1, <2>1, <2>2
  <2> HIDE DEF r
  <2> QED BY <1>1, <2>1, <2>2, <2>3, <2>4
<1>3. wrapper[w].of # NULL
  BY <1>1 DEF IInv, WrapperInv
<1>4. \A i \in DOMAIN mapping : mapping[i] \in Wrapper /\ mapping[i] # w
  BY <1>1 DEF IInv, TypeOK, ToSet
<1>5. \A v \in ToSet(mapping) : v \in Wrapper /\ v # w
  BY <1>4 DEF ToSet
<1>6. wrapper'[w] # NoWrapper
  BY <1>2, <1>3 DEF NoWrapper
<1>7. TypeOK'
  BY <1>1, <1>2, <1>5, <1>6 DEF IInv, TypeOK
<1>8. LifeInv'
  BY <1>1 DEF IInv, LifeInv, Born
<1>9. WrapperInv'
  BY <1>1, <1>2 DEF IInv, WrapperInv, Born
<1>10. TableInv'
  BY <1>1, <1>2 DEF IInv, TableInv, OfType, TypeOK
<1>11. ThreadInv'
  BY <1>1, <1>2 DEF IInv, ThreadInv, OfType, Born
<1>12. MappingInv'
  BY <1>1, <1>2, <1>4 DEF IInv, MappingInv, Key
<1>13. AloneInv'
  BY <1>1 DEF IInv, AloneInv
<1> QED BY <1>7, <1>8, <1>9, <1>10, <1>11, <1>12, <1>13 DEF IInv

-----------------------------------------------------------------------------
(* The type mapping.                                                       *)

\* What remains when an entry of a sequence is removed.
LEMMA RemoveAtKeeps ==
  ASSUME NEW S, NEW s \in Seq(S), NEW i \in DOMAIN s
  PROVE  /\ RemoveAt(s, i) \in Seq(S)
         /\ Len(RemoveAt(s, i)) = Len(s) - 1
         /\ \A k \in DOMAIN RemoveAt(s, i) :
              /\ k \in DOMAIN s /\ k + 1 \in DOMAIN s
              /\ RemoveAt(s, i)[k] = s[IF k < i THEN k ELSE k + 1]
<1> DEFINE l == SubSeq(s, 1, i - 1)
           r == SubSeq(s, i + 1, Len(s))
<1>1. i \in 1..Len(s) /\ Len(s) \in Nat /\ DOMAIN s = 1..Len(s)
  OBVIOUS
<1>2. /\ l \in Seq(S) /\ Len(l) = i - 1
      /\ \A k \in 1..(i - 1) : l[k] = s[k]
  BY <1>1
<1>3. /\ r \in Seq(S) /\ Len(r) = Len(s) - i
      /\ \A k \in 1..(Len(s) - i) : r[k] = s[i + k]
  BY <1>1
<1> HIDE DEF l, r
<1>4. /\ l \o r \in Seq(S) /\ Len(l \o r) = Len(s) - 1
      /\ \A k \in 1..(Len(s) - 1) :
           (l \o r)[k] = IF k <= i - 1 THEN l[k] ELSE r[k - (i - 1)]
  <2>1. /\ l \o r \in Seq(S) /\ Len(l \o r) = Len(l) + Len(r)
        /\ \A k \in 1..(Len(l) + Len(r)) :
             (l \o r)[k] = IF k <= Len(l) THEN l[k] ELSE r[k - Len(l)]
    BY <1>2, <1>3, ConcatProperties
  <2>2. Len(l) + Len(r) = Len(s) - 1
    BY <1>1, <1>2, <1>3
  <2> QED BY <1>2, <2>1, <2>2
<1>5. ASSUME NEW k \in 1..(Len(s) - 1)
      PROVE  (l \o r)[k] = s[IF k < i THEN k ELSE k + 1]
  <2>1. CASE k < i
    BY <2>1, <1>1, <1>2, <1>4
  <2>2. CASE ~(k < i)
    <3>1. k - (i - 1) \in 1..(Len(s) - i) /\ i + (k - (i - 1)) = k + 1
      BY <2>2, <1>1
    <3>2. (l \o r)[k] = r[k - (i - 1)]
      BY <2>2, <1>1, <1>4
    <3>3. r[k - (i - 1)] = s[i + (k - (i - 1))]
      BY <1>3, <3>1
    <3> QED BY <2>2, <1>1, <3>1, <3>2, <3>3
  <2> QED BY <2>1, <2>2
<1>6. RemoveAt(s, i) = l \o r
  BY DEF RemoveAt, l, r
<1>7. DOMAIN (l \o r) = 1..(Len(s) - 1)
  BY <1>4
<1>8. \A k \in 1..(Len(s) - 1) : k \in DOMAIN s /\ k + 1 \in DOMAIN s
  BY <1>1
<1> HIDE DEF l, r
<1> QED BY <1>4, <1>5, <1>6, <1>7, <1>8

\* What a step of the mapping leaves alone.
LEMMA OnlyMapping ==
  ASSUME IInv, UNCHANGED <<prog, life, held, wrapper, table, used, thread>>
  PROVE  LifeInv' /\ WrapperInv' /\ TableInv' /\ ThreadInv' /\ AloneInv'
BY DEF IInv, LifeInv, WrapperInv, TableInv, ThreadInv, AloneInv, Born, OfType

LEMMA RegisterInv ==
  ASSUME IInv, NEW w \in Wrapper, Register(w), UNCHANGED prog
  PROVE  IInv'
<1>1. /\ w \in used /\ Key(w) # NULL
      /\ \A i \in DOMAIN mapping : Key(mapping[i]) # Key(w)
      /\ mapping' = Append(mapping, w)
      /\ UNCHANGED <<prog, life, held, wrapper, table, used, thread>>
  BY DEF Register
<1>2. mapping \in Seq(Wrapper) /\ wrapper[w] # NoWrapper
  BY <1>1 DEF IInv, TypeOK
<1>3. /\ mapping' \in Seq(Wrapper) /\ DOMAIN mapping' = 1..(Len(mapping) + 1)
      /\ mapping'[Len(mapping) + 1] = w
      /\ \A i \in DOMAIN mapping : mapping'[i] = mapping[i]
      /\ DOMAIN mapping = 1..Len(mapping) /\ Len(mapping) \in Nat
  BY <1>1, <1>2
<1>4. ASSUME NEW i \in DOMAIN mapping'
      PROVE  \/ i \in DOMAIN mapping /\ mapping'[i] = mapping[i]
             \/ i = Len(mapping) + 1 /\ mapping'[i] = w
  BY <1>3
<1>5. MappingInv'
  BY <1>1, <1>4 DEF IInv, MappingInv, Key
<1>6. IsInjective(mapping')
  BY <1>1, <1>4 DEF IInv, MappingInv, IsInjective
<1>7. \A v \in ToSet(mapping') : wrapper'[v] # NoWrapper
  BY <1>1, <1>2, <1>4 DEF IInv, TypeOK, ToSet
<1>8. TypeOK'
  BY <1>1, <1>3, <1>6, <1>7 DEF IInv, TypeOK
<1> QED BY <1>1, <1>5, <1>8, OnlyMapping DEF IInv

LEMMA UnregisterInv ==
  ASSUME IInv, NEW w \in Wrapper, Unregister(w), UNCHANGED prog
  PROVE  IInv'
<1>1. PICK i \in DOMAIN mapping : mapping[i] = w /\ mapping' = RemoveAt(mapping, i)
  BY DEF Unregister
<1>2. UNCHANGED <<prog, life, held, wrapper, table, used, thread>>
  BY DEF Unregister
<1>3. mapping \in Seq(Wrapper) /\ i \in Nat
  BY DEF IInv, TypeOK
<1> DEFINE at(k) == IF k < i THEN k ELSE k + 1
<1>4. /\ mapping' \in Seq(Wrapper)
      /\ \A k \in DOMAIN mapping' : at(k) \in DOMAIN mapping /\ mapping'[k] = mapping[at(k)]
  BY <1>1, <1>3, RemoveAtKeeps
<1>5. \A k, m \in DOMAIN mapping' : at(k) = at(m) => k = m
  BY <1>3, <1>4
<1> HIDE DEF at
<1>6. MappingInv'
  BY <1>2, <1>4, <1>5 DEF IInv, MappingInv, Key
<1>7. IsInjective(mapping')
  BY <1>4, <1>5 DEF IInv, TypeOK, IsInjective
<1>8. \A v \in ToSet(mapping') : wrapper'[v] # NoWrapper
  BY <1>2, <1>4 DEF IInv, TypeOK, ToSet
<1>9. TypeOK'
  BY <1>2, <1>4, <1>7, <1>8 DEF IInv, TypeOK
<1> QED BY <1>2, <1>6, <1>9, OnlyMapping DEF IInv

-----------------------------------------------------------------------------
LEMMA NextIInv == IInv /\ [Next]_vars => IInv'
<1> SUFFICES ASSUME IInv, [Next]_vars PROVE IInv'
  OBVIOUS
<1>1. CASE Next
  <2>1. UNCHANGED prog
    BY <1>1 DEF Next
  <2>2. ASSUME NEW a \in Type, DefineType(a) \/ DropType(a) PROVE IInv'
    BY <2>1, <2>2, DefineTypeInv, DropTypeInv
  <2>3. ASSUME NEW t \in Thread, NEW a \in Type, WrapClass(t, a) PROVE IInv'
    BY <2>1, <2>3, WrapClassInv
  <2>4. ASSUME NEW t \in Thread, NEW w \in Wrapper, Make(t, w) PROVE IInv'
    BY <2>1, <2>4, MakeInv
  <2>5. ASSUME NEW t \in Thread, Lookup(t) \/ Store(t) \/ Use(t) PROVE IInv'
    BY <2>1, <2>5, LookupInv, StoreInv, UseInv
  <2>6. ASSUME NEW w \in Wrapper, Forget(w) \/ Collect(w) \/ PtrDecref(w) PROVE IInv'
    BY <2>1, <2>6, ForgetInv, CollectInv, PtrDecrefInv
  <2>7. ASSUME NEW w \in Wrapper, Register(w) \/ Unregister(w) PROVE IInv'
    BY <2>1, <2>7, RegisterInv, UnregisterInv
  <2> QED BY <1>1, <2>2, <2>3, <2>4, <2>5, <2>6, <2>7 DEF Next, Step
<1>2. CASE UNCHANGED vars
  BY <1>2 DEF vars, IInv, TypeOK, LifeInv, WrapperInv, TableInv, ThreadInv, MappingInv,
              AloneInv, Born, OfType, Key
<1> QED BY <1>1, <1>2

\* The cache's invariant, whatever the threads, Python and the collector do.
THEOREM CacheInvariance == Spec => []IInv
<1> QED BY InitIInv, NextIInv, PTL DEF Spec

\* Types, and that the program and the mapping only have classes that exist.
THEOREM CacheTyped == Spec => []TypeOK
<1>1. IInv => TypeOK
  BY DEF IInv
<1> QED BY <1>1, CacheInvariance, PTL

\* wrap_class answers with the class of the type that is at the address now.
THEOREM AnswersAreCurrent == Spec => []WrapperIsCurrent
<1>1. ASSUME IInv, "decref" \notin prog, NEW t \in Thread, thread[t].pc = "got"
      PROVE  wrapper[thread[t].class].of = <<thread[t].type, life[thread[t].type]>>
  <2> DEFINE w == thread[t].class
  <2>1. w \in Wrapper /\ wrapper[w].of # NULL /\ wrapper[w].of[1] = thread[t].type
    BY <1>1, NullIsNoData DEF IInv, ThreadInv, OfType
  <2>2. wrapper[w].of = <<wrapper[w].ptr, life[wrapper[w].ptr]>>
    BY <1>1, <2>1 DEF IInv, WrapperInv
  <2> QED BY <2>1, <2>2
<1>2. IInv => WrapperIsCurrent
  BY <1>1 DEF WrapperIsCurrent
<1> QED BY <1>2, CacheInvariance, PTL

\* A registered class stands for the type it was made for, as long as it is
\* registered.
THEOREM MappingStaysCurrent == Spec => []MappingIsCurrent
<1>1. ASSUME IInv, NEW i \in DOMAIN mapping
      PROVE  /\ Key(mapping[i]) # NULL
             /\ wrapper[mapping[i]].of = <<Key(mapping[i]), life[Key(mapping[i])]>>
  <2>1. mapping[i] \in Wrapper /\ wrapper[mapping[i]].ptr # NULL
    BY <1>1 DEF IInv, TypeOK, MappingInv, Key
  <2> QED BY <1>1, <2>1 DEF IInv, WrapperInv, Key
<1>2. IInv => MappingIsCurrent
  BY <1>1 DEF MappingIsCurrent
<1> QED BY <1>2, CacheInvariance, PTL

-----------------------------------------------------------------------------
(* Which class instances get.                                              *)

\* Among positions there is a first.
LEMMA FirstIsLeast ==
  ASSUME NEW H, H \subseteq Nat, H # {}
  PROVE  Min(H) \in H /\ \A k \in H : Min(H) <= k
<1> DEFINE upto(k) == H \cap (0..k)
           T == {upto(k) : k \in H}
<1>1. T \subseteq FiniteSubsetsOf(Nat) /\ T # {}
  <2>1. ASSUME NEW k \in H PROVE upto(k) \in FiniteSubsetsOf(Nat)
    <3>1. k \in Int /\ IsFiniteSet(0..k)
      BY <2>1, FS_Interval
    <3>2. upto(k) \in SUBSET (0..k)
      OBVIOUS
    <3>3. IsFiniteSet(upto(k))
      BY <3>1, <3>2, FS_Subset
    <3> QED BY <3>3 DEF FiniteSubsetsOf
  <2> QED BY <2>1
<1>2. PICK A \in T : \A B \in T : ~(<<B, A>> \in StrictSubsetOrdering(Nat))
  BY <1>1, FS_StrictSubsetOrderingWellFounded, WFMin
<1>3. PICK x \in H : A = upto(x)
  OBVIOUS
<1>4. ASSUME NEW y \in H, y < x PROVE FALSE
  <2>1. upto(y) \subseteq upto(x) /\ x \in upto(x) /\ x \notin upto(y)
    BY <1>4
  <2>2. upto(y) \in T /\ upto(y) \in SUBSET Nat /\ upto(x) \in SUBSET Nat
    OBVIOUS
  <2> HIDE DEF upto, T
  <2>3. <<upto(y), upto(x)>> \in StrictSubsetOrdering(Nat)
    BY <2>1, <2>2 DEF StrictSubsetOrdering
  <2> QED BY <1>2, <1>3, <2>2, <2>3
<1>5. \A y \in H : x <= y
  BY <1>4
<1> QED BY <1>5 DEF Min

LEMMA FirstOfIs ==
  ASSUME NEW m \in Seq(Wrapper), NEW types
  PROVE  \/ /\ FirstOf(m, types) = NULL
            /\ \A i \in DOMAIN m : Key(m[i]) \notin types
         \/ \E i \in DOMAIN m :
              /\ FirstOf(m, types) = m[i] /\ Key(m[i]) \in types
              /\ \A j \in DOMAIN m : Key(m[j]) \in types => i <= j
<1> DEFINE hits == {i \in DOMAIN m : Key(m[i]) \in types}
<1>1. CASE hits = {}
  BY <1>1 DEF FirstOf
<1>2. CASE hits # {}
  <2>1. hits \subseteq Nat
    OBVIOUS
  <2>2. Min(hits) \in hits /\ \A k \in hits : Min(hits) <= k
    BY <1>2, <2>1, FirstIsLeast
  <2>3. FirstOf(m, types) = m[Min(hits)]
    BY <1>2 DEF FirstOf
  <2> QED BY <2>2, <2>3
<1> QED BY <1>1, <1>2

\* One more entry, at the end, is found only by those who found none.
LEMMA FirstOfAppend ==
  ASSUME NEW m \in Seq(Wrapper), NEW w \in Wrapper, NEW types
  PROVE  /\ FirstOf(m, types) # NULL =>
              FirstOf(Append(m, w), types) = FirstOf(m, types)
         /\ FirstOf(m, types) = NULL /\ FirstOf(Append(m, w), types) # NULL =>
              FirstOf(Append(m, w), types) = w /\ Key(w) \in types
<1> DEFINE n == Append(m, w)
<1>1. /\ n \in Seq(Wrapper) /\ DOMAIN n = 1..(Len(m) + 1)
      /\ DOMAIN m = 1..Len(m) /\ Len(m) \in Nat
      /\ n[Len(m) + 1] = w
      /\ \A i \in DOMAIN m : n[i] = m[i]
  OBVIOUS
<1> HIDE DEF n
<1>2. ASSUME FirstOf(m, types) # NULL PROVE FirstOf(n, types) = FirstOf(m, types)
  <2>1. PICK i \in DOMAIN m :
          /\ FirstOf(m, types) = m[i] /\ Key(m[i]) \in types
          /\ \A j \in DOMAIN m : Key(m[j]) \in types => i <= j
    BY <1>2, FirstOfIs
  <2>2. i \in DOMAIN n /\ Key(n[i]) \in types
    BY <1>1, <2>1
  <2>3. PICK k \in DOMAIN n :
          /\ FirstOf(n, types) = n[k] /\ Key(n[k]) \in types
          /\ \A j \in DOMAIN n : Key(n[j]) \in types => k <= j
    BY <1>1, <2>2, FirstOfIs
  <2>4. k <= i
    BY <2>2, <2>3
  <2>5. k \in DOMAIN m /\ i <= k
    BY <1>1, <2>1, <2>3, <2>4
  <2>6. k = i
    BY <1>1, <2>4, <2>5
  <2> QED BY <1>1, <2>1, <2>3, <2>6
<1>3. ASSUME FirstOf(m, types) = NULL, FirstOf(n, types) # NULL
      PROVE  FirstOf(n, types) = w /\ Key(w) \in types
  <2>1. \A i \in DOMAIN m : Key(m[i]) \notin types
    <3>1. \A i \in DOMAIN m : m[i] # NULL
      BY NullIsNoData
    <3> QED BY <1>3, <3>1, FirstOfIs
  <2>2. PICK k \in DOMAIN n : FirstOf(n, types) = n[k] /\ Key(n[k]) \in types
    BY <1>1, <1>3, FirstOfIs
  <2>3. k = Len(m) + 1
    BY <1>1, <2>1, <2>2
  <2> QED BY <1>1, <2>2, <2>3
<1> QED BY <1>2, <1>3 DEF n

\* An instance of a registered type gets that type's class.
THEOREM ExactClassFound == Spec => []ExactClassWins
<1>1. ASSUME IInv, NEW i \in DOMAIN mapping
      PROVE  MappedClass(mapping, Key(mapping[i])) = mapping[i]
  <2>1. mapping \in Seq(Wrapper) /\ mapping[i] # NULL
    BY <1>1, NullIsNoData DEF IInv, TypeOK
  <2>2. FirstOf(mapping, {Key(mapping[i])}) = mapping[i]
    <3>1. PICK k \in DOMAIN mapping :
            /\ FirstOf(mapping, {Key(mapping[i])}) = mapping[k]
            /\ Key(mapping[k]) \in {Key(mapping[i])}
      BY <2>1, FirstOfIs
    <3> QED BY <1>1, <3>1 DEF IInv, MappingInv
  <2> QED BY <2>1, <2>2 DEF MappedClass
<1>2. IInv => ExactClassWins
  BY <1>1 DEF ExactClassWins
<1> QED BY <1>2, CacheInvariance, PTL

\* A registration changes the class of no instance that had another one.
THEOREM RegistrationsAreLocal == Spec => RegisterKeepsOthers
<1> DEFINE Kept(a) ==
      Len(mapping') > Len(mapping) /\ MappedClass(mapping, a) # NULL =>
        \/ MappedClass(mapping', a) = MappedClass(mapping, a)
        \/ Key(MappedClass(mapping', a)) = a
<1>1. ASSUME NEW w \in Wrapper, Register(w), IInv, NEW a \in Type PROVE Kept(a)
  <2>1. mapping \in Seq(Wrapper) /\ mapping' = Append(mapping, w)
    BY <1>1 DEF Register, IInv, TypeOK
  <2>2. ASSUME NEW types
        PROVE  /\ FirstOf(mapping, types) # NULL =>
                    FirstOf(mapping', types) = FirstOf(mapping, types)
               /\ FirstOf(mapping, types) = NULL /\ FirstOf(mapping', types) # NULL =>
                    FirstOf(mapping', types) = w /\ Key(w) \in types
    BY <2>1, FirstOfAppend
  <2>3. CASE FirstOf(mapping, {a}) # NULL
    BY <2>2, <2>3 DEF MappedClass
  <2>4. CASE FirstOf(mapping, {a}) = NULL /\ FirstOf(mapping', {a}) # NULL
    BY <2>2, <2>4 DEF MappedClass
  <2>5. CASE FirstOf(mapping, {a}) = NULL /\ FirstOf(mapping', {a}) = NULL
    BY <2>2, <2>5 DEF MappedClass
  <2> QED BY <2>3, <2>4, <2>5
<1>2. ASSUME IInv, Next, Len(mapping') > Len(mapping)
      PROVE  \E w \in Wrapper : Register(w)
  <2>1. mapping' # mapping
    BY <1>2 DEF IInv, TypeOK
  <2>2. ASSUME NEW w \in Wrapper, Unregister(w) PROVE FALSE
    <3>1. PICK i \in DOMAIN mapping : mapping' = RemoveAt(mapping, i)
      BY <2>2 DEF Unregister
    <3>2. mapping \in Seq(Wrapper) /\ Len(mapping) \in Nat
      BY <1>2 DEF IInv, TypeOK
    <3>3. Len(mapping') = Len(mapping) - 1
      BY <3>1, <3>2, RemoveAtKeeps
    <3> QED BY <1>2, <3>2, <3>3
  <2> QED BY <1>2, <2>1, <2>2 DEF Next, Step, DefineType, DropType, WrapClass, Make,
                Lookup, Store, Use, Forget, Collect, PtrDecref
<1>3. IInv /\ [Next]_vars => [\A a \in Type : Kept(a)]_vars
  BY <1>1, <1>2
<1> QED BY <1>3, CacheInvariance, PTL DEF Spec, RegisterKeepsOthers

-----------------------------------------------------------------------------
(* The cache implements IdentityMap. Each variable of IdentityMap before a  *)
(* step and after it:                                                      *)

Asked(t)  == IF thread[t].type = NULL THEN NULL
             ELSE <<thread[t].type, life[thread[t].type]>>
Answer(t) == IF thread[t].pc = "got" THEN thread[t].class ELSE NULL

CachedNext(o) ==
  LET w == table'[o[1]] IN IF w # NULL /\ wrapper'[w].of = o THEN w ELSE NULL
AskedNext(t)  == IF thread'[t].type = NULL THEN NULL
                 ELSE <<thread'[t].type, life'[thread'[t].type]>>
AnswerNext(t) == IF thread'[t].pc = "got" THEN thread'[t].class ELSE NULL

SameCached == \A o \in Object : CachedNext(o) = Cached(o)
SameAsked  == \A t \in Thread : AskedNext(t) = Asked(t)
SameAnswer == \A t \in Thread : AnswerNext(t) = Answer(t)

LEMMA Stutter ==
  ASSUME SameCached, SameAsked, SameAnswer
  PROVE  UNCHANGED Identity!idVars
<1>1. [o \in Object |-> Cached(o)]' = [o \in Object |-> Cached(o)]
  BY DEF SameCached, CachedNext, Cached
<1>2. [t \in Thread |-> IF thread[t].type = NULL THEN NULL
                        ELSE <<thread[t].type, life[thread[t].type]>>]'
      = [t \in Thread |-> IF thread[t].type = NULL THEN NULL
                          ELSE <<thread[t].type, life[thread[t].type]>>]
  BY DEF SameAsked, AskedNext, Asked
<1>3. [t \in Thread |-> IF thread[t].pc = "got" THEN thread[t].class ELSE NULL]'
      = [t \in Thread |-> IF thread[t].pc = "got" THEN thread[t].class ELSE NULL]
  BY DEF SameAnswer, AnswerNext, Answer
<1> QED BY <1>1, <1>2, <1>3 DEF Identity!idVars

LEMMA InitImplements == Init => Identity!Init
<1> SUFFICES ASSUME Init PROVE Identity!Init
  OBVIOUS
<1>1. \A o \in Object : Cached(o) = NULL
  BY DEF Init, Cached, Object
<1>2. \A t \in Thread : thread[t].type = NULL /\ thread[t].pc # "got"
  BY DEF Init, IdleThread
<1> QED BY <1>1, <1>2 DEF Identity!Init

\* What the state functions say of the actions of IdentityMap.
LEMMA IsAsk ==
  ASSUME NEW t \in Thread, NEW o \in Object, Asked(t) = NULL, AskedNext(t) = o,
         \A u \in Thread : u # t => AskedNext(u) = Asked(u),
         SameCached, SameAnswer
  PROVE  Identity!Ask(t, o)
<1>1. [x \in Object |-> Cached(x)]' = [x \in Object |-> Cached(x)]
  BY DEF SameCached, CachedNext, Cached
<1>2. [u \in Thread |-> IF thread[u].pc = "got" THEN thread[u].class ELSE NULL]'
      = [u \in Thread |-> IF thread[u].pc = "got" THEN thread[u].class ELSE NULL]
  BY DEF SameAnswer, AnswerNext, Answer
<1>3. [u \in Thread |-> AskedNext(u)] = [[u \in Thread |-> Asked(u)] EXCEPT ![t] = o]
  OBVIOUS
<1>4. [u \in Thread |-> Asked(u)][t] = NULL
  OBVIOUS
<1> QED BY <1>1, <1>2, <1>3, <1>4 DEF Identity!Ask, Asked, AskedNext

LEMMA IsAnswerKnown ==
  ASSUME NEW t \in Thread, Asked(t) \in Object, Answer(t) = NULL,
         Cached(Asked(t)) # NULL, AnswerNext(t) = Cached(Asked(t)),
         \A u \in Thread : u # t => AnswerNext(u) = Answer(u),
         SameCached, SameAsked
  PROVE  Identity!AnswerKnown(t)
<1> USE NullIsNoData
<1>1. [x \in Object |-> Cached(x)]' = [x \in Object |-> Cached(x)]
  BY DEF SameCached, CachedNext, Cached
<1>2. [u \in Thread |-> AskedNext(u)] = [u \in Thread |-> Asked(u)]
  BY DEF SameAsked
<1>3. [u \in Thread |-> AnswerNext(u)]
      = [[u \in Thread |-> Answer(u)] EXCEPT ![t] = [x \in Object |-> Cached(x)][Asked(t)]]
  OBVIOUS
<1>4. /\ [u \in Thread |-> Asked(u)][t] # NULL /\ [u \in Thread |-> Answer(u)][t] = NULL
      /\ [x \in Object |-> Cached(x)][Asked(t)] # NULL
      /\ [u \in Thread |-> Asked(u)][t] = Asked(t)
  OBVIOUS
<1> QED BY <1>1, <1>2, <1>3, <1>4
        DEF Identity!AnswerKnown, Asked, AskedNext, Answer, AnswerNext

LEMMA IsAnswerNew ==
  ASSUME NEW t \in Thread, NEW w, Asked(t) \in Object, Answer(t) = NULL,
         Cached(Asked(t)) = NULL, \A o \in Object : Cached(o) # w,
         AnswerNext(t) = w, CachedNext(Asked(t)) = w,
         \A u \in Thread : u # t => AnswerNext(u) = Answer(u),
         \A o \in Object : o # Asked(t) => CachedNext(o) = Cached(o),
         SameAsked
  PROVE  Identity!AnswerNew(t, w)
<1> USE NullIsNoData
<1>1. [u \in Thread |-> AskedNext(u)] = [u \in Thread |-> Asked(u)]
  BY DEF SameAsked
<1>2. [u \in Thread |-> AnswerNext(u)] = [[u \in Thread |-> Answer(u)] EXCEPT ![t] = w]
  OBVIOUS
<1>3. [x \in Object |-> CachedNext(x)]
      = [[x \in Object |-> Cached(x)] EXCEPT ![Asked(t)] = w]
  OBVIOUS
<1>4. /\ [u \in Thread |-> Asked(u)][t] # NULL /\ [u \in Thread |-> Answer(u)][t] = NULL
      /\ [x \in Object |-> Cached(x)][Asked(t)] = NULL
      /\ \A o \in Object : [x \in Object |-> Cached(x)][o] # w
      /\ [u \in Thread |-> Asked(u)][t] = Asked(t)
  OBVIOUS
<1>5. [x \in Object |-> Cached(x)]' = [x \in Object |-> CachedNext(x)]
  BY DEF CachedNext, Cached
<1> QED BY <1>1, <1>2, <1>3, <1>4, <1>5
        DEF Identity!AnswerNew, Asked, AskedNext, Answer, AnswerNext

LEMMA IsTake ==
  ASSUME NEW t \in Thread, Answer(t) # NULL, AskedNext(t) = NULL, AnswerNext(t) = NULL,
         \A u \in Thread : u # t => AskedNext(u) = Asked(u) /\ AnswerNext(u) = Answer(u),
         SameCached
  PROVE  Identity!Take(t)
<1>1. [x \in Object |-> Cached(x)]' = [x \in Object |-> Cached(x)]
  BY DEF SameCached, CachedNext, Cached
<1>2. [u \in Thread |-> AskedNext(u)] = [[u \in Thread |-> Asked(u)] EXCEPT ![t] = NULL]
  OBVIOUS
<1>3. [u \in Thread |-> AnswerNext(u)] = [[u \in Thread |-> Answer(u)] EXCEPT ![t] = NULL]
  OBVIOUS
<1>4. [u \in Thread |-> Answer(u)][t] # NULL
  OBVIOUS
<1> QED BY <1>1, <1>2, <1>3, <1>4
        DEF Identity!Take, Asked, AskedNext, Answer, AnswerNext

LEMMA IsForget ==
  ASSUME NEW o \in Object, Cached(o) # NULL, \A t \in Thread : Answer(t) # Cached(o),
         CachedNext(o) = NULL, \A x \in Object : x # o => CachedNext(x) = Cached(x),
         SameAsked, SameAnswer
  PROVE  Identity!Forget(o)
<1>1. [u \in Thread |-> AskedNext(u)] = [u \in Thread |-> Asked(u)]
  BY DEF SameAsked
<1>2. [u \in Thread |-> AnswerNext(u)] = [u \in Thread |-> Answer(u)]
  BY DEF SameAnswer
<1>3. [x \in Object |-> CachedNext(x)] = [[x \in Object |-> Cached(x)] EXCEPT ![o] = NULL]
  OBVIOUS
<1>4. /\ [x \in Object |-> Cached(x)][o] # NULL
      /\ \A t \in Thread : [u \in Thread |-> Answer(u)][t] # [x \in Object |-> Cached(x)][o]
  OBVIOUS
<1>5. [x \in Object |-> Cached(x)]' = [x \in Object |-> CachedNext(x)]
  BY DEF CachedNext, Cached
<1> QED BY <1>1, <1>2, <1>3, <1>4, <1>5
        DEF Identity!Forget, Asked, AskedNext, Answer, AnswerNext

\* The type that a thread asks for stays alive until it has the answer.
LEMMA AskedAlive ==
  ASSUME IInv, "decref" \notin prog, NEW t \in Thread, thread[t].pc # "idle"
  PROVE  /\ thread[t].type \in Type /\ Alive(thread[t].type)
         /\ Asked(t) = <<thread[t].type, life[thread[t].type]>> /\ Asked(t) \in Object
<1> USE NullIsNoData
<1>1. Born(thread[t].type)
  BY DEF IInv, ThreadInv
<1>2. CASE thread[t].pc \in {"lookup", "make"}
  <2>1. thread[t].ptr = thread[t].type
    BY <1>2 DEF IInv, ThreadInv
  <2>2. Alive(thread[t].type)
    BY <1>1, <2>1, PtrAlive DEF Born
  <2> QED BY <1>1, <2>2 DEF Born, Asked, Object
<1>3. CASE thread[t].pc \in {"store", "got"}
  <2> DEFINE w == thread[t].class
  <2>1. w \in Wrapper /\ wrapper[w].of # NULL /\ wrapper[w].of[1] = thread[t].type
    BY <1>3 DEF IInv, ThreadInv, OfType
  <2>2. wrapper[w].of = <<wrapper[w].ptr, life[wrapper[w].ptr]>>
    BY <2>1 DEF IInv, WrapperInv
  <2>3. wrapper[w].ptr = thread[t].type
    BY <2>1, <2>2
  <2>4. Alive(thread[t].type)
    BY <1>1, <2>1, <2>3, PtrAlive DEF Born
  <2> QED BY <1>1, <2>4 DEF Born, Asked, Object
<1> QED BY <1>2, <1>3 DEF IInv, TypeOK

\* Who does not ask has no question and no answer.
LEMMA IdleAsksNothing ==
  ASSUME IInv, NEW t \in Thread, thread[t].pc = "idle"
  PROVE  Asked(t) = NULL /\ Answer(t) = NULL
BY DEF IInv, ThreadInv, IdleThread, Asked, Answer

\* Without PyPtr.decref, the class in the table is that of the present type.
LEMMA TableIsCached ==
  ASSUME IInv, "decref" \notin prog, NEW a \in Type, table[a] # NULL
  PROVE  /\ Born(a) /\ table[a] \in Wrapper
         /\ wrapper[table[a]].of = <<a, life[a]>>
         /\ Cached(<<a, life[a]>>) = table[a]
<1> USE NullIsNoData
<1> DEFINE w == table[a]
<1>1. w \in Wrapper /\ wrapper[w].of # NULL /\ wrapper[w].of[1] = a
  BY DEF IInv, TypeOK, TableInv, OfType
<1>2. /\ Born(wrapper[w].ptr)
      /\ wrapper[w].of = <<wrapper[w].ptr, life[wrapper[w].ptr]>>
  BY <1>1 DEF IInv, WrapperInv
<1>3. wrapper[w].ptr = a
  BY <1>1, <1>2
<1> QED BY <1>1, <1>2, <1>3 DEF Cached

LEMMA NextImplements ==
  ASSUME IInv, Next, prog = {}
  PROVE  Identity!Next \/ UNCHANGED Identity!idVars
<1> USE NullIsNoData
<1>1. "decref" \notin prog /\ "threads" \notin prog /\ UNCHANGED prog
  BY DEF Next
<1>2. ASSUME NEW a \in Type, DefineType(a) PROVE UNCHANGED Identity!idVars
  <2>1. /\ ~Alive(a) /\ life' = [life EXCEPT ![a] = @ + 1]
        /\ UNCHANGED <<wrapper, table, thread>>
    BY <1>2 DEF DefineType
  <2>2. ASSUME NEW t \in Thread PROVE AskedNext(t) = Asked(t)
    <3>1. CASE thread[t].pc = "idle"
      <4>1. thread[t].type = NULL
        BY <3>1 DEF IInv, ThreadInv, IdleThread
      <4> QED BY <4>1, <2>1 DEF AskedNext, Asked
    <3>2. CASE thread[t].pc # "idle"
      <4>1. thread[t].type \in Type /\ thread[t].type # a
        BY <3>2, <1>1, <2>1, AskedAlive
      <4> QED BY <4>1, <2>1 DEF AskedNext, Asked, IInv, TypeOK
    <3> QED BY <3>1, <3>2
  <2>3. SameCached /\ SameAnswer
    BY <2>1 DEF SameCached, CachedNext, Cached, SameAnswer, AnswerNext, Answer
  <2> QED BY <2>2, <2>3, Stutter DEF SameAsked
<1>3. ASSUME UNCHANGED <<life, wrapper, table, thread>>
      PROVE  UNCHANGED Identity!idVars
  BY <1>3, Stutter DEF SameCached, CachedNext, Cached, SameAnswer, AnswerNext, Answer,
     SameAsked, AskedNext, Asked
<1>4. ASSUME NEW t \in Thread, NEW a \in Type, WrapClass(t, a)
      PROVE  Identity!Next
  <2>0. PICK o : o = <<a, life[a]>>
    OBVIOUS
  <2>1. /\ thread[t].pc = "idle" /\ Alive(a)
        /\ thread' = [thread EXCEPT ![t] = [pc |-> "lookup", type |-> a, ptr |-> a,
                                            class |-> NULL]]
        /\ UNCHANGED <<life, wrapper, table>>
    BY <1>4 DEF WrapClass, Set
  <2>2. o \in Object
    BY <2>0, <2>1, AliveBorn DEF Born, Object
  <2>3. Asked(t) = NULL /\ Answer(t) = NULL
    BY <2>1, IdleAsksNothing
  <2>4. /\ thread'[t].type = a /\ thread'[t].pc = "lookup"
        /\ \A u \in Thread : u # t => thread'[u] = thread[u]
    BY <2>1 DEF IInv, TypeOK
  <2>5. AskedNext(t) = o /\ AnswerNext(t) = NULL
    BY <2>0, <2>1, <2>4 DEF AskedNext, AnswerNext
  <2>6. \A u \in Thread : u # t => AskedNext(u) = Asked(u) /\ AnswerNext(u) = Answer(u)
    BY <2>1, <2>4 DEF AskedNext, Asked, AnswerNext, Answer
  <2>7. SameCached
    BY <2>1 DEF SameCached, CachedNext, Cached
  <2>8. SameAnswer
    BY <2>3, <2>5, <2>6 DEF SameAnswer
  <2>9. Identity!Ask(t, o)
    BY <2>2, <2>3, <2>5, <2>6, <2>7, <2>8, IsAsk
  <2> QED BY <2>2, <2>9 DEF Identity!Next
<1>5. ASSUME NEW t \in Thread, Lookup(t)
      PROVE  Identity!Next \/ UNCHANGED Identity!idVars
  <2> DEFINE a == thread[t].type
  <2>1. /\ thread[t].pc = "lookup"
        /\ thread' = [thread EXCEPT ![t] = [pc |-> IF table[a] = NULL THEN "make" ELSE "got",
                        type |-> a, ptr |-> thread[t].ptr, class |-> table[a]]]
        /\ UNCHANGED <<life, wrapper, table>>
    BY <1>5 DEF Lookup, Set
  <2>2. /\ thread'[t].type = a /\ thread'[t].class = table[a]
        /\ thread'[t].pc = IF table[a] = NULL THEN "make" ELSE "got"
        /\ \A u \in Thread : u # t => thread'[u] = thread[u]
    BY <2>1 DEF IInv, TypeOK
  <2>3. /\ a \in Type /\ Asked(t) = <<a, life[a]>> /\ Asked(t) \in Object
    BY <1>1, <2>1, AskedAlive
  <2>4. SameAsked /\ SameCached
    BY <2>1, <2>2 DEF SameAsked, AskedNext, Asked, SameCached, CachedNext, Cached
  <2>5. Answer(t) = NULL /\ \A u \in Thread : u # t => AnswerNext(u) = Answer(u)
    BY <2>1, <2>2 DEF AnswerNext, Answer
  <2>6. CASE table[a] = NULL
    <3>1. AnswerNext(t) = Answer(t)
      BY <2>2, <2>5, <2>6 DEF AnswerNext
    <3>2. SameAnswer
      BY <3>1, <2>5 DEF SameAnswer
    <3> QED BY <2>4, <3>2, Stutter
  <2>7. CASE table[a] # NULL
    <3>1. Cached(Asked(t)) = table[a]
      BY <1>1, <2>3, <2>7, TableIsCached
    <3>2. AnswerNext(t) = table[a]
      BY <2>2, <2>7 DEF AnswerNext
    <3>3. Identity!AnswerKnown(t)
      BY <2>3, <2>4, <2>5, <2>7, <3>1, <3>2, IsAnswerKnown
    <3> QED BY <3>3 DEF Identity!Next
  <2> QED BY <2>6, <2>7
<1>6. ASSUME NEW t \in Thread, NEW w \in Wrapper, Make(t, w)
      PROVE  UNCHANGED Identity!idVars
  <2> DEFINE a == thread[t].type
  <2>1. /\ thread[t].pc = "make" /\ wrapper[w] = NoWrapper
        /\ wrapper' = [wrapper EXCEPT ![w] = [of |-> <<a, life[a]>>, ptr |-> a]]
        /\ thread' = [thread EXCEPT ![t] = [pc |-> "store", type |-> a, ptr |-> NULL,
                                            class |-> w]]
        /\ UNCHANGED <<life, table>>
    BY <1>6 DEF Make, Set
  <2>2. /\ thread'[t].type = a /\ thread'[t].pc = "store"
        /\ \A u \in Thread : u # t => thread'[u] = thread[u]
    BY <2>1 DEF IInv, TypeOK
  <2>3. \A v \in Wrapper : v # w => wrapper'[v] = wrapper[v]
    BY <2>1 DEF IInv, TypeOK
  <2>4. \A b \in Type : table[b] # w
    BY <2>1 DEF IInv, TableInv, OfType, NoWrapper
  <2>5. SameCached
    <3>1. ASSUME NEW o \in Object, table[o[1]] # NULL
          PROVE  wrapper'[table[o[1]]] = wrapper[table[o[1]]]
      <4>1. o[1] \in Type /\ table[o[1]] \in Wrapper
        BY <3>1 DEF Object, IInv, TypeOK
      <4> QED BY <4>1, <2>3, <2>4
    <3> QED BY <2>1, <3>1 DEF SameCached, CachedNext, Cached
  <2>6. SameAsked /\ SameAnswer
    BY <2>1, <2>2 DEF SameAsked, AskedNext, Asked, SameAnswer, AnswerNext, Answer
  <2> QED BY <2>5, <2>6, Stutter
<1>7. ASSUME NEW t \in Thread, Store(t)
      PROVE  Identity!Next
  <2>0. PICK a, w : a = thread[t].type /\ w = thread[t].class
    OBVIOUS
  <2>1. /\ thread[t].pc = "store"
        /\ table' = [table EXCEPT ![a] = w]
        /\ thread' = [thread EXCEPT ![t] = [thread[t] EXCEPT !.pc = "got"]]
        /\ UNCHANGED <<life, wrapper>>
    BY <1>7, <2>0 DEF Store, Set
  <2>2. /\ a \in Type /\ Asked(t) = <<a, life[a]>> /\ Asked(t) \in Object
    BY <1>1, <2>0, <2>1, AskedAlive
  <2>3. w \in Wrapper /\ wrapper[w].of = <<a, life[a]>>
    <3>1. w \in Wrapper /\ wrapper[w].of # NULL /\ wrapper[w].of[1] = a
      BY <2>0, <2>1 DEF IInv, ThreadInv, OfType
    <3>2. wrapper[w].of = <<wrapper[w].ptr, life[wrapper[w].ptr]>>
      BY <1>1, <3>1 DEF IInv, WrapperInv
    <3> QED BY <3>1, <3>2
  <2>4. /\ thread'[t].type = a /\ thread'[t].class = w /\ thread'[t].pc = "got"
        /\ \A u \in Thread : u # t => thread'[u] = thread[u]
    BY <2>0, <2>1 DEF IInv, TypeOK
  <2>5. table[a] = NULL /\ \A b \in Type : table[b] # w
    BY <1>1, <2>0, <2>1 DEF IInv, AloneInv
  <2>6. table'[a] = w /\ \A b \in Type : b # a => table'[b] = table[b]
    BY <2>1, <2>2 DEF IInv, TypeOK
  <2>7. SameAsked /\ Answer(t) = NULL /\ AnswerNext(t) = w
    BY <2>0, <2>1, <2>4 DEF SameAsked, AskedNext, Asked, Answer, AnswerNext
  <2>8. \A u \in Thread : u # t => AnswerNext(u) = Answer(u)
    BY <2>4 DEF Answer, AnswerNext
  <2>9. Cached(Asked(t)) = NULL /\ CachedNext(Asked(t)) = w
    BY <2>1, <2>2, <2>3, <2>5, <2>6 DEF Cached, CachedNext
  <2>10. ASSUME NEW o \in Object
         PROVE  Cached(o) # w /\ (o # Asked(t) => CachedNext(o) = Cached(o))
    <3>1. o[1] \in Type
      BY DEF Object
    <3>2. Cached(o) # w
      BY <2>3, <2>5, <3>1 DEF Cached
    <3>3. CASE o[1] = a /\ o # Asked(t)
      BY <2>1, <2>2, <2>3, <2>5, <2>6, <3>3 DEF Cached, CachedNext
    <3>4. CASE o[1] # a
      <4>1. table'[o[1]] = table[o[1]]
        BY <2>6, <3>1, <3>4
      <4> QED BY <2>1, <3>2, <4>1 DEF Cached, CachedNext
    <3> QED BY <3>2, <3>3, <3>4
  <2>11. Identity!AnswerNew(t, w)
    BY <2>2, <2>7, <2>8, <2>9, <2>10, IsAnswerNew
  <2> QED BY <2>3, <2>11 DEF Identity!Next
<1>8. ASSUME NEW t \in Thread, Use(t)
      PROVE  Identity!Next
  <2>1. /\ thread[t].pc = "got"
        /\ thread' = [thread EXCEPT ![t] = IdleThread]
        /\ UNCHANGED <<life, wrapper, table>>
    BY <1>8 DEF Use, Set
  <2>2. Answer(t) # NULL
    BY <2>1 DEF Answer, IInv, ThreadInv
  <2>3. /\ thread'[t] = IdleThread
        /\ \A u \in Thread : u # t => thread'[u] = thread[u]
    BY <2>1 DEF IInv, TypeOK
  <2>4. AskedNext(t) = NULL /\ AnswerNext(t) = NULL
    BY <2>3 DEF AskedNext, AnswerNext, IdleThread
  <2>5. \A u \in Thread : u # t => AskedNext(u) = Asked(u) /\ AnswerNext(u) = Answer(u)
    BY <2>1, <2>3 DEF AskedNext, Asked, AnswerNext, Answer
  <2>6. SameCached
    BY <2>1 DEF SameCached, CachedNext, Cached
  <2>7. Identity!Take(t)
    BY <2>2, <2>4, <2>5, <2>6, IsTake
  <2> QED BY <2>7 DEF Identity!Next
<1>9. ASSUME NEW w \in Wrapper, Collect(w)
      PROVE  Identity!Next \/ UNCHANGED Identity!idVars
  <2>1. /\ \A t \in Thread : thread[t].class # w
        /\ wrapper' = [wrapper EXCEPT ![w] = NoWrapper]
        /\ table' = [a \in Type |-> IF table[a] = w THEN NULL ELSE table[a]]
        /\ UNCHANGED <<life, thread>>
    BY <1>9 DEF Collect
  <2>2. SameAsked /\ SameAnswer
    BY <2>1 DEF SameAsked, AskedNext, Asked, SameAnswer, AnswerNext, Answer
  <2>3. \A v \in Wrapper : v # w => wrapper'[v] = wrapper[v]
    BY <2>1 DEF IInv, TypeOK
  <2>4. ASSUME NEW o \in Object, table[o[1]] # w PROVE CachedNext(o) = Cached(o)
    <3>1. o[1] \in Type /\ table[o[1]] \in Wrapper \cup {NULL}
      BY DEF Object, IInv, TypeOK
    <3>2. table'[o[1]] = table[o[1]]
      BY <2>1, <2>4, <3>1
    <3> QED BY <2>3, <2>4, <3>1, <3>2 DEF CachedNext, Cached
  <2>5. CASE \A a \in Type : table[a] # w
    <3>1. SameCached
      BY <2>4, <2>5 DEF SameCached, Object
    <3> QED BY <2>2, <3>1, Stutter
  <2>6. ASSUME NEW a \in Type, table[a] = w PROVE Identity!Next
    <3> DEFINE o == <<a, life[a]>>
    <3>1. Born(a) /\ wrapper[w].of = o /\ Cached(o) = w
      BY <1>1, <2>6, TableIsCached
    <3>2. o \in Object
      BY <3>1 DEF Born, Object
    <3>3. \A t \in Thread : Answer(t) # w
      BY <2>1 DEF Answer
    <3>4. ASSUME NEW x \in Object, x # o PROVE CachedNext(x) = Cached(x)
      <4>1. CASE table[x[1]] # w
        BY <4>1, <2>4
      <4>2. CASE table[x[1]] = w
        <5>1. x[1] \in Type /\ table'[x[1]] = NULL
          BY <4>2, <2>1 DEF Object
        <5>2. Cached(x) = NULL
          BY <4>2, <3>1, <3>4 DEF Cached
        <5> QED BY <5>1, <5>2 DEF CachedNext
      <4> QED BY <4>1, <4>2
    <3>5. CachedNext(o) = NULL
      BY <2>1, <2>6 DEF CachedNext
    <3> HIDE DEF o
    <3>6. Identity!Forget(o)
      BY <2>2, <3>1, <3>2, <3>3, <3>4, <3>5, IsForget
    <3> QED BY <3>2, <3>6 DEF Identity!Next
  <2> QED BY <2>5, <2>6
<1>10. ASSUME NEW w \in Wrapper, PtrDecref(w) PROVE FALSE
  BY <1>1, <1>10 DEF PtrDecref
<1> QED BY <1>2, <1>3, <1>4, <1>5, <1>6, <1>7, <1>8, <1>9, <1>10
        DEF Next, Step, DropType, Forget, Register, Unregister

\* In a program that uses neither threads nor PyPtr.decref, an object has one
\* wrapper at a time and everyone who asks is given that one: each step of the
\* cache is a step of the identity map, or none.
THEOREM CacheImplementsIdentityMap == Spec => CacheIsIdentityMap
<1>1. Init => Identity!Init
  BY InitImplements
<1>2. IInv /\ [Next]_vars => [prog = {} => Identity!Next]_(Identity!idVars)
  <2>1. ASSUME UNCHANGED vars PROVE UNCHANGED Identity!idVars
    BY <2>1, Stutter DEF vars, SameCached, CachedNext, Cached, SameAnswer, AnswerNext,
       Answer, SameAsked, AskedNext, Asked
  <2> QED BY <2>1, NextImplements
<1> QED BY <1>1, <1>2, CacheInvariance, PTL DEF Spec, CacheIsIdentityMap

=============================================================================
