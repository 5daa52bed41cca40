---------------------------- MODULE PyRefsProofs ----------------------------
(***************************************************************************)
(* Reference counts, for any number of objects, PyPtrs, cells and nested   *)
(* functions, and whatever entry points the program uses, the leaky ones,  *)
(* exceptions and finalizers included: every owner is counted, no leaked   *)
(* reference is ever released, the only freed memory ever used is that of  *)
(* a value that dict_each borrowed, and a program that uses no leaky entry *)
(* point leaks nothing.                                                    *)
(*                                                                         *)
(* The argument follows the C locals: which of them a function uses is     *)
(* known from its kind and from where it is (Uses); the others point at    *)
(* nothing, so what is stored in them overwrites no reference, and a       *)
(* function that ends has none left.                                       *)
(***************************************************************************)
EXTENDS PyRefs, PyHeapProofs

\* The locals that hold what a function of kind k was called with ...
ArgsOf(k) ==
  {x \in SlotName :
     \/ x = "first"  /\ k \in {"setattr", "wrapper_set", "getitem", "delitem", "contains",
                               "import_level", "setitem", "kwargs", "call"}
     \/ x = "second" /\ k \in {"setitem", "kwargs", "call"}
     \/ x = "callee" /\ k = "call"
     \/ x = "iter"   /\ k = "each"}

\* ... and what it got from Python.
GotOf(fr) ==
  {x \in SlotName :
     \/ x = "result" /\ fr.pc = "returned" /\ fr.kind \notin StatusOnly
     \/ x = "result" /\ fr.pc = "ruby" /\ fr.kind = "each"
     \/ x = "error"  /\ fr.pc = "raised" /\ "python_error" \in Ops}

\* An exception of a program that is to leak nothing finds no callee.
Absent(fr) ==
  IF fr.pc = "raised" /\ "python_error" \notin Ops THEN {"callee"} ELSE {}

Uses(fr) == (ArgsOf(fr.kind) \ Absent(fr)) \cup GotOf(fr)

Unused == {p \in Local : p[1] > depth \/ p[2] \notin Uses(frame[p[1]])}

\* A program that leaks nothing, and the leaks it starts with.
Counted == Ops \cap Leaky = {}
NoLeaks == [o \in Obj |-> 0]

\* A dict_each that has a value lent.
Lends(fr) == fr.pc \in {"key", "value"}

\* Without a race, it is on top of the stack, and the dict still holds it.
LendingOK ==
  ~DictRace => \A d \in 0..MaxDepth :
                 Lends(frame[d]) => d = depth /\ frame[d].loan \in Lent(heap)

\* What runs, leaks or raises was asked for by the program.
Asked(k, at) ==
  /\ k \in Leaky => k \in Ops
  /\ k = "dict" => "dict_each" \in Ops
  /\ k = "convert" => "key_code" \in Ops
  /\ k = "kwargs" => at = "raised" /\ "python_error" \in Ops
  /\ at = "raised" => "python_error" \in Ops \/ "error" \in Ops

\* What a frame is when it lends.
Lender(fr) == Lends(fr) => fr.kind = "dict" /\ fr.loan \in Obj

UsedOps == \A d \in 0..MaxDepth : Asked(frame[d].kind, frame[d].pc) /\ Lender(frame[d])

StackOK ==
  /\ depth \in 0..MaxDepth
  /\ frame \in [0..MaxDepth -> Frame]
  /\ frame[0] = MainFrame
  /\ UsedOps

\* The invariant, for at least s leaks, or exactly s, and the faults F.
Ready(s, F, exact) ==
  /\ GoodHeap(heap, Unused, s, F, exact)
  /\ StackOK /\ LendingOK
  /\ exact => Counted

IInv == Ready(NoLeaks, heap.fault, Counted) /\ (~DictRace => heap.fault = {})

-----------------------------------------------------------------------------
(* The locals of the function on top of the stack, and of the next one.    *)

LEMMA LocalPlace ==
  ASSUME NEW d \in 1..MaxDepth, NEW x \in SlotName
  PROVE  <<d, x>> \in Local /\ <<d, x>> \in Place
BY DEF Place, Local

LEMMA UnusedAt ==
  ASSUME NEW d \in 1..MaxDepth, NEW x \in SlotName
  PROVE  <<d, x>> \in Unused <=> d > depth \/ x \notin Uses(frame[d])
BY LocalPlace DEF Unused

LEMMA HeldAtLocal ==
  ASSUME NEW h, NEW N, NEW s, NEW F, NEW exact, GoodHeap(h, N, s, F, exact), NEW p \in Place
  PROVE  h.ref[p] \in Obj => h.cnt[h.ref[p]] > 0
BY HeldIsCounted, HeapAssumption

LEMMA TopIsFunction ==
  ASSUME StackOK, Top.kind # "main" \/ Top.pc # "ruby"
  PROVE  /\ depth \in 1..MaxDepth
         /\ \A x \in SlotName : /\ Slot(x) \in Local /\ Slot(x) \in Place
                                /\ x \notin Uses(Top) => Slot(x) \in Unused
<1>1. depth # 0
  BY DEF StackOK, Top, MainFrame
<1>2. depth \in 1..MaxDepth
  BY <1>1, HeapAssumption DEF StackOK
<1> QED BY <1>2, LocalPlace, UnusedAt DEF Slot, Top

LEMMA NextLocal ==
  ASSUME StackOK, depth < MaxDepth
  PROVE  /\ depth + 1 \in 1..MaxDepth
         /\ \A x \in SlotName : /\ NextSlot(x) \in Local /\ NextSlot(x) \in Place
                                /\ NextSlot(x) \in Unused
<1>1. depth + 1 \in 1..MaxDepth /\ depth + 1 > depth
  BY HeapAssumption DEF StackOK
<1> QED BY <1>1, LocalPlace, UnusedAt DEF NextSlot

\* An unused local points at nothing.
LEMMA UnusedNull ==
  ASSUME NEW h, NEW N, NEW s, NEW F, NEW exact, GoodHeap(h, N, s, F, exact), NEW p \in N
  PROVE  h.ref[p] = NULL
BY DEF GoodHeap, Nulls

\* A leaky function leaks; a function that has raised leaks its exception,
\* unless that is outside Obj.
LEMMA RaisedLeaks ==
  ASSUME NEW s, NEW F, NEW exact, Ready(s, F, exact)
  PROVE  /\ Top.pc = "raised" /\ exact => Slot("error") \in Unused /\ Slot("callee") \in Unused
         /\ Top.kind \in Leaky => ~exact
         /\ \A op \in Leaky : op \in Ops => ~exact
<1>1. depth \in 0..MaxDepth /\ StackOK
  BY DEF Ready, StackOK
<1>2. \A op \in Leaky : op \in Ops => ~exact
  BY DEF Ready, Counted
<1>3. Top.kind \in Leaky => ~exact
  BY <1>1, <1>2 DEF StackOK, UsedOps, Asked, Top
<1>4. ASSUME Top.pc = "raised", exact
      PROVE  Slot("error") \in Unused /\ Slot("callee") \in Unused
  <2>1. "python_error" \notin Ops
    BY <1>2, <1>4 DEF Leaky
  <2>2. "error" \notin Uses(Top) /\ "callee" \notin Uses(Top)
    BY <1>4, <2>1 DEF Uses, ArgsOf, GotOf, Absent
  <2> QED BY <1>1, <1>4, <2>2, TopIsFunction DEF SlotName
<1> QED BY <1>2, <1>3, <1>4

-----------------------------------------------------------------------------
(* What is unused after each kind of stack change.                         *)

LEMMA PushUnused ==
  ASSUME NEW s, NEW F, NEW exact, StackOK, NEW k, NEW at, Push(k, at),
         NEW M, GoodHeap(heap', M, s, F, exact),
         Unused \ {NextSlot(x) : x \in SlotName} \subseteq M,
         \A x \in SlotName : x \notin Uses([kind |-> k, pc |-> at, loan |-> NULL])
                               => NextSlot(x) \in M
  PROVE  GoodHeap(heap', Unused', s, F, exact)
<1>1. /\ depth \in Int /\ MaxDepth \in Int /\ depth >= 0 /\ depth < MaxDepth
      /\ depth' = depth + 1 /\ depth + 1 \in 0..MaxDepth
      /\ frame' = [frame EXCEPT ![depth + 1] = [kind |-> k, pc |-> at, loan |-> NULL]]
      /\ frame \in [0..MaxDepth -> Frame]
  BY HeapAssumption DEF StackOK, Push
<1>2. ASSUME NEW p \in Unused'
      PROVE  p \in M
  <2>1. PICK d \in 1..MaxDepth, x \in SlotName : p = <<d, x>>
    BY <1>2 DEF Unused, Local
  <2>2. d > depth + 1 \/ x \notin Uses(frame'[d])
    BY <1>1, <1>2, <2>1 DEF Unused, Uses
  <2>3. CASE d = depth + 1
    <3>1. frame'[d] = [kind |-> k, pc |-> at, loan |-> NULL] /\ p = NextSlot(x)
      BY <1>1, <2>1, <2>3 DEF NextSlot
    <3> QED BY <1>1, <2>2, <2>3, <3>1
  <2>4. CASE d # depth + 1
    <3>1. frame'[d] = frame[d] /\ d \in 0..MaxDepth
      BY <1>1, <2>4
    <3>2. p \in Unused
      BY <1>1, <2>1, <2>2, <3>1, UnusedAt
    <3>3. \A y \in SlotName : p # NextSlot(y)
      BY <2>1, <2>4 DEF NextSlot
    <3> QED BY <3>2, <3>3
  <2> QED BY <2>3, <2>4
<1> QED BY <1>2, FewerNulls

LEMMA PopUnused ==
  ASSUME NEW s, NEW F, NEW exact, StackOK, depth \in 1..MaxDepth, Pop,
         NEW M, GoodHeap(heap', M, s, F, exact), Unused \subseteq M,
         \A x \in SlotName : Slot(x) \in M
  PROVE  GoodHeap(heap', Unused', s, F, exact)
<1>1. /\ depth \in Int /\ MaxDepth \in Int /\ depth >= 1 /\ depth' = depth - 1
      /\ frame' = [frame EXCEPT ![depth] = IdleFrame] /\ frame \in [0..MaxDepth -> Frame]
  BY HeapAssumption DEF StackOK, Pop
<1>2. ASSUME NEW p \in Unused'
      PROVE  p \in M
  <2>1. PICK d \in 1..MaxDepth, x \in SlotName : p = <<d, x>>
    BY <1>2 DEF Unused, Local
  <2>2. d > depth - 1 \/ x \notin Uses(frame'[d])
    BY <1>1, <1>2, <2>1 DEF Unused, Uses
  <2>3. CASE d = depth
    BY <2>1, <2>3 DEF Slot
  <2>4. CASE d # depth
    <3>1. frame'[d] = frame[d] /\ d \in 0..MaxDepth
      BY <1>1, <2>4
    <3>2. p \in Unused
      BY <1>1, <2>1, <2>2, <2>4, <3>1, UnusedAt
    <3> QED BY <3>2
  <2> QED BY <2>3, <2>4
<1> QED BY <1>2, FewerNulls

LEMMA TopUnused ==
  ASSUME NEW s, NEW F, NEW exact, StackOK, depth \in 1..MaxDepth, depth' = depth,
         NEW f, frame' = [frame EXCEPT ![depth] = f],
         NEW M, GoodHeap(heap', M, s, F, exact),
         Unused \ {Slot(x) : x \in SlotName} \subseteq M,
         \A x \in SlotName : x \notin Uses(f) => Slot(x) \in M
  PROVE  GoodHeap(heap', Unused', s, F, exact)
<1>1. depth \in Int /\ MaxDepth \in Int /\ frame \in [0..MaxDepth -> Frame]
  BY HeapAssumption DEF StackOK
<1>2. ASSUME NEW p \in Unused'
      PROVE  p \in M
  <2>1. PICK d \in 1..MaxDepth, x \in SlotName : p = <<d, x>>
    BY <1>2 DEF Unused, Local
  <2>2. d > depth \/ x \notin Uses(frame'[d])
    BY <1>1, <1>2, <2>1 DEF Unused, Uses
  <2>3. CASE d = depth
    <3>1. frame'[d] = f /\ p = Slot(x)
      BY <1>1, <2>1, <2>3 DEF Slot
    <3> QED BY <1>1, <2>2, <2>3, <3>1
  <2>4. CASE d # depth
    <3>1. frame'[d] = frame[d] /\ d \in 0..MaxDepth
      BY <1>1, <2>4
    <3>2. p \in Unused
      BY <1>1, <2>1, <2>2, <3>1, UnusedAt
    <3>3. \A y \in SlotName : p # Slot(y)
      BY <2>1, <2>4 DEF Slot
    <3> QED BY <3>2, <3>3
  <2> QED BY <2>3, <2>4
<1> QED BY <1>2, FewerNulls

LEMMA SameUnused ==
  ASSUME NEW s, NEW F, NEW exact, UNCHANGED <<depth, frame>>,
         NEW M, GoodHeap(heap', M, s, F, exact), Unused \subseteq M
  PROVE  GoodHeap(heap', Unused', s, F, exact)
<1>1. Unused' = Unused
  BY DEF Unused, Uses
<1> QED BY <1>1, FewerNulls

-----------------------------------------------------------------------------
(* What the functions do with a result or an exception.                    *)

LEMMA FetchErrorGood ==
  ASSUME NEW h, NEW N, NEW s, NEW F, NEW exact, GoodHeap(h, N, s, F, exact),
         depth \in 1..MaxDepth, exact => Slot("error") \in N, NEW h2 \in FetchError(h)
  PROVE  GoodHeap(h2, N \cup {Slot("error")}, s, F, exact)
<1>1. PICK h1 \in ToRuby(h, h.ref[Slot("error")]) : h2 = Forget(h1, Slot("error"))
  BY DEF FetchError
<1>2. Slot("error") \in Place /\ Slot("error") \in Local
  BY LocalPlace DEF Slot, SlotName
<1>3. GoodHeap(h1, N, s, F, exact)
  BY <1>2, HeldAtLocal, ToRubyGood
<1>4. exact => h1.ref[Slot("error")] = NULL
  BY <1>3, UnusedNull
<1> QED BY <1>1, <1>2, <1>3, <1>4, ForgetGood

LEMMA ConvertAndReleaseGood ==
  ASSUME NEW h, NEW N, NEW s, NEW F, NEW exact, GoodHeap(h, N, s, F, exact),
         depth \in 1..MaxDepth, NEW h2 \in ConvertAndRelease(h)
  PROVE  GoodHeap(h2, N \cup {Slot("result")}, s, F, exact)
<1>1. PICK h1 \in ToRuby(h, h.ref[Slot("result")]) : h2 = Drop(h1, Slot("result"))
  BY DEF ConvertAndRelease
<1>2. Slot("result") \in Place /\ Slot("result") \in Local
  BY LocalPlace DEF Slot, SlotName
<1>3. GoodHeap(h1, N, s, F, exact)
  BY <1>2, HeldAtLocal, ToRubyGood
<1> QED BY <1>1, <1>2, <1>3, DropGood

LEMMA ConvertAndForgetGood ==
  ASSUME NEW h, NEW N, NEW s, NEW F, NEW exact, GoodHeap(h, N, s, F, exact),
         depth \in 1..MaxDepth, ~exact, NEW h2 \in ConvertAndForget(h)
  PROVE  GoodHeap(h2, N \cup {Slot("result")}, s, F, exact)
<1>1. PICK h1 \in ToRuby(h, h.ref[Slot("result")]) : h2 = Forget(h1, Slot("result"))
  BY DEF ConvertAndForget
<1>2. Slot("result") \in Place /\ Slot("result") \in Local
  BY LocalPlace DEF Slot, SlotName
<1>3. GoodHeap(h1, N, s, F, exact)
  BY <1>2, HeldAtLocal, ToRubyGood
<1> QED BY <1>1, <1>2, <1>3, ForgetGood

\* A function returns: its arguments are gone, then its result or exception.
LEMMA ReturnGood ==
  ASSUME NEW s, NEW F, NEW exact, Ready(s, F, exact), Top.pc \in {"returned", "raised"}, Pop,
         NEW h, NEW N, GoodHeap(h, N, s, F, exact), Unused \subseteq N,
         \A x \in ArgsOf(Top.kind) : Slot(x) \in N,
         NEW S, Top.pc = "returned" =>
                  \A g \in S : GoodHeap(g, N \cup {Slot("result")}, s, F, exact),
         heap' \in Outcome(h, S)
  PROVE  GoodHeap(heap', Unused', s, F, exact)
<1>1. /\ StackOK /\ depth \in 1..MaxDepth
      /\ \A x \in SlotName : x \notin Uses(Top) => Slot(x) \in Unused
  BY TopIsFunction DEF Ready
<1>2. CASE Top.pc = "raised"
  <2>1. GoodHeap(heap', N \cup {Slot("error")}, s, F, exact)
    <3>1. exact => Slot("error") \in N
      BY <1>2, RaisedLeaks
    <3> QED BY <1>1, <1>2, <3>1, FetchErrorGood DEF Outcome
  <2>2. \A x \in SlotName : Slot(x) \in N \cup {Slot("error")}
    BY <1>1, <1>2 DEF Uses, GotOf
  <2> QED BY <1>1, <2>1, <2>2, PopUnused
<1>3. CASE Top.pc = "returned"
  <2>1. GoodHeap(heap', N \cup {Slot("result")}, s, F, exact)
    BY <1>3 DEF Outcome
  <2>2. \A x \in SlotName : Slot(x) \in N \cup {Slot("result")}
    BY <1>1, <1>3 DEF Uses, GotOf
  <2> QED BY <1>1, <2>1, <2>2, PopUnused
<1> QED BY <1>2, <1>3

\* The arguments of a call, converted to locals that are unused.
LEMMA CallArgumentsGood ==
  ASSUME NEW h, NEW N, NEW s, NEW F, NEW exact, GoodHeap(h, N, s, F, exact),
         NEW d \in 1..MaxDepth, <<d, "first">> \in N, <<d, "second">> \in N,
         NEW h2 \in CallArguments(h, d)
  PROVE  GoodHeap(h2, N \ {<<d, "first">>, <<d, "second">>}, s, F, exact)
<1> DEFINE M == N \ {<<d, "first">>, <<d, "second">>}
<1>1. /\ <<d, "first">> \in Place /\ <<d, "second">> \in Place
      /\ <<d, "first">> \notin Ptr /\ <<d, "second">> \notin Ptr
      /\ <<d, "first">> # <<d, "second">>
  BY LocalPlace, HeapAssumption DEF SlotName
<1>2. \A h1 \in FromRuby(h, <<d, "first">>) \cup {h} :
        GoodHeap(h1, N \ {<<d, "first">>}, s, F, exact)
  BY <1>1, UnusedNull, FromRubyGood, FewerNulls
<1>3. ASSUME NEW h1 \in FromRuby(h, <<d, "first">>) \cup {h},
             NEW g \in FromRuby(h1, <<d, "second">>)
      PROVE  GoodHeap(g, M, s, F, exact)
  <2>1. GoodHeap(h1, N \ {<<d, "first">>}, s, F, exact) /\ h1.ref[<<d, "second">>] = NULL
    BY <1>1, <1>2, UnusedNull
  <2>2. GoodHeap(g, (N \ {<<d, "first">>}) \ {<<d, "second">>}, s, F, exact)
    BY <1>1, <2>1, FromRubyGood
  <2>3. (N \ {<<d, "first">>}) \ {<<d, "second">>} = M
    OBVIOUS
  <2> QED BY <2>2, <2>3
<1>4. \A h1 \in FromRuby(h, <<d, "first">>) \cup {h} : GoodHeap(h1, M, s, F, exact)
  BY <1>2, FewerNulls
<1> QED BY <1>3, <1>4 DEF CallArguments

LEMMA TupleItemGood ==
  ASSUME NEW h, NEW N, NEW s, NEW F, NEW exact, GoodHeap(h, N, s, F, exact),
         NEW tmp \in Local, tmp \in N, NEW o \in Held(h),
         NEW h2 \in TupleItemToRuby(h, tmp, o)
  PROVE  GoodHeap(h2, N, s, F, exact)
<1>1. PICK p \in Place : o = h.ref[p] /\ o # NULL
  BY DEF Held
<1>2. o \in Obj /\ h.cnt[o] > 0 /\ tmp \in Place /\ tmp \notin Ptr /\ h.ref[tmp] = NULL
  BY <1>1, HeldIsCounted, UnusedNull, HeapAssumption DEF Place
<1>3. /\ GoodHeap(Take(h, tmp, o), N \ {tmp}, s, F, exact)
      /\ o \in Obj => Take(h, tmp, o).cnt[o] > 0
  <2>1. Take(h, tmp, o).cnt[o] >= h.cnt[o] /\ GoodHeap(Take(h, tmp, o), N \ {tmp}, s, F, exact)
    BY <1>2, TakeGood
  <2>2. Take(h, tmp, o).cnt[o] \in Int /\ h.cnt[o] \in Int
    BY <1>2, <2>1 DEF GoodHeap, Accounted
  <2> QED BY <1>2, <2>1, <2>2
<1>4. PICK h1 \in ToRuby(Take(h, tmp, o), o) : h2 = Drop(h1, tmp)
  BY DEF TupleItemToRuby
<1>5. GoodHeap(h1, N \ {tmp}, s, F, exact)
  BY <1>3, ToRubyGood
<1>6. GoodHeap(h2, (N \ {tmp}) \cup {tmp}, s, F, exact)
  BY <1>2, <1>4, <1>5, DropGood
<1>7. (N \ {tmp}) \cup {tmp} = N
  OBVIOUS
<1> QED BY <1>6, <1>7

-----------------------------------------------------------------------------
(* Each group of actions keeps a good heap good.                           *)

\* PyCall::Conversion.from_ruby and Tuple.new make the PyPtr last.
LEMMA ConvFromRubyHeap ==
  ASSUME NEW s, NEW F, NEW exact, Ready(s, F, exact), NEW p \in Ptr, ConvFromRuby(p)
  PROVE  GoodHeap(heap', Unused', s, F, exact)
<1>1. PICK h \in FromRuby(heap, p) : heap' = Wrap(h, p)
  BY DEF ConvFromRuby
<1>2. /\ GoodHeap(heap, Unused, s, F, exact) /\ heap \in Heap /\ p \in Place
      /\ heap.ref[p] = NULL
  BY DEF Ready, GoodHeap, Nulls, Place, ConvFromRuby
<1>3. heap' \in FromRuby(Wrap(heap, p), p)
  BY <1>1, <1>2, WrapFirst
<1>4. GoodHeap(heap', Unused \ {p}, s, F, exact)
  BY <1>2, <1>3, WrapGood, FromRubyGood
<1>5. Unused \subseteq Unused \ {p}
  BY HeapAssumption DEF Unused
<1> QED BY <1>4, <1>5, SameUnused DEF ConvFromRuby

LEMMA TupleNewHeap ==
  ASSUME NEW s, NEW F, NEW exact, Ready(s, F, exact),
         NEW p \in Ptr, NEW o \in Obj, NEW c \in Cell, TupleNew(p, o, c)
  PROVE  GoodHeap(heap', Unused', s, F, exact)
<1> DEFINE w == Wrap(heap, p)
           n == New(w, p, o)
<1>1. PICK h \in FromRuby(New(heap, p, o), c) : heap' = Wrap(h, p)
  BY DEF TupleNew
<1>2. /\ GoodHeap(heap, Unused, s, F, exact) /\ heap \in Heap
      /\ p \in Place /\ c \in Place /\ p # c
      /\ heap.ref[p] = NULL /\ heap.ref[c] = NULL /\ o \in Free(heap)
  BY HeapAssumption DEF Ready, GoodHeap, Nulls, Place, TupleNew
<1>3. New(heap, p, o) \in Heap /\ Wrap(New(heap, p, o), p) = n
  BY <1>2, NewHeap, WrapNew
<1>4. heap' \in FromRuby(n, c)
  BY <1>1, <1>2, <1>3, WrapFirst
<1>5. /\ GoodHeap(w, Unused, s, F, exact) /\ w.ref = heap.ref /\ w.cnt = heap.cnt
      /\ p \in w.live
  BY <1>2, WrapGood
<1>6. o \in Free(w) /\ w.ref[p] = NULL /\ w.ref[c] = NULL
  BY <1>2, <1>5 DEF Free
<1>7. GoodHeap(n, Unused \ {p}, s, F, exact) /\ Repoints(w, n, p, o)
  BY <1>2, <1>5, <1>6, NewGood
<1>8. n.ref[c] = NULL
  BY <1>2, <1>5, <1>6, <1>7, HeapRecord DEF Repoints
<1>9. GoodHeap(heap', (Unused \ {p}) \ {c}, s, F, exact)
  BY <1>2, <1>4, <1>7, <1>8, HeapAssumption, FromRubyGood
<1>10. Unused \subseteq (Unused \ {p}) \ {c}
  BY HeapAssumption DEF Unused
<1> QED BY <1>9, <1>10, SameUnused DEF TupleNew

\* Two entry points leave a reference with no owner: they are leaky.
LEMMA LeakedBump ==
  ASSUME NEW h, NEW N, NEW s, NEW F, NEW exact, GoodHeap(h, N, s, F, exact), ~exact,
         NEW o \in Obj, h.cnt[o] > 0
  PROVE  GoodHeap(Bump(h, o), N, s, F, exact)
<1>1. \A g : GoodHeap(g, N, s, F, exact) <=> GoodHeap(g, N, s, F, FALSE)
  BY DEF GoodHeap, Accounted
<1> QED BY <1>1, BumpGood

LEMMA RubyStepHeap ==
  ASSUME NEW s, NEW F, NEW exact, Ready(s, F, exact), RubyStep
  PROVE  GoodHeap(heap', Unused', s, F, exact)
<1>0. GoodHeap(heap, Unused, s, F, exact) /\ heap \in Heap
  BY DEF Ready, GoodHeap
<1>1. ASSUME UNCHANGED <<depth, frame>>, GoodHeap(heap', Unused, s, F, exact)
      PROVE  GoodHeap(heap', Unused', s, F, exact)
  BY <1>1, SameUnused
<1>2. ASSUME NEW p \in Ptr, Unroot(p)
      PROVE  GoodHeap(heap', Unused', s, F, exact)
  BY <1>0, <1>1, <1>2, UnrootGood DEF Unroot
<1>3. ASSUME NEW p \in Ptr, Collect(p)
      PROVE  GoodHeap(heap', Unused', s, F, exact)
  BY <1>0, <1>1, <1>3, PtrFreeGood DEF Collect
<1>4. ASSUME NEW p \in Ptr, PtrDecref(p)
      PROVE  GoodHeap(heap', Unused', s, F, exact)
  BY <1>0, <1>1, <1>4, DropGood DEF PtrDecref, Place
<1>5. ASSUME NEW p \in Ptr, PtrIncref(p)
      PROVE  GoodHeap(heap', Unused', s, F, exact)
  <2>1. ~exact
    BY <1>5, RaisedLeaks DEF PtrIncref, CanCall, Leaky
  <2>2. heap.ref[p] \in Obj /\ heap.cnt[heap.ref[p]] > 0
    BY <1>0, <1>5, HeldIsCounted DEF PtrIncref, Place
  <2> QED BY <1>0, <1>1, <1>5, <2>1, <2>2, LeakedBump DEF PtrIncref
<1>6. ASSUME NEW p \in Ptr, NEW c \in Cell, CollectRunsFinalizer(p, c)
      PROVE  GoodHeap(heap', Unused', s, F, exact)
  BY <1>0, <1>1, <1>6, PtrFreeGood, DropGood DEF CollectRunsFinalizer, Place
<1>7. ASSUME NEW p \in Ptr, NEW c \in Cell, BuiltinsModulePtr(p, c)
      PROVE  GoodHeap(heap', Unused', s, F, exact)
  <2>1. /\ heap.ref[c] \in Obj /\ heap.cnt[heap.ref[c]] > 0
        /\ heap.ref[p] = NULL /\ p \in Place
    BY <1>0, <1>7, HeldIsCounted DEF BuiltinsModulePtr, Place, GoodHeap, Nulls
  <2> DEFINE w == Wrap(heap, p)
  <2>2. GoodHeap(heap', Unused \ {p}, s, F, exact)
    <3>1. /\ GoodHeap(w, Unused, s, F, exact) /\ w.ref = heap.ref
          /\ w.cnt = heap.cnt /\ p \in w.live
      BY <1>0, WrapGood
    <3>2. heap' = Take(w, p, heap.ref[c])
      BY <1>7 DEF BuiltinsModulePtr
    <3> HIDE DEF w
    <3> QED BY <2>1, <3>1, <3>2, TakeGood
  <2>3. Unused \ {p} = Unused
    BY HeapAssumption DEF Unused
  <2> QED BY <1>1, <1>7, <2>2, <2>3 DEF BuiltinsModulePtr
<1>8. ASSUME NEW p \in Ptr, ConvToRuby(p)
      PROVE  GoodHeap(heap', Unused', s, F, exact)
  <2>1. PICK h \in ToRuby(heap, heap.ref[p]) :
          heap' = IF heap.ref[p] \in ByValue THEN h ELSE Bump(h, heap.ref[p])
    BY <1>8 DEF ConvToRuby
  <2>2. heap.ref[p] \in Obj /\ heap.cnt[heap.ref[p]] > 0 /\ ~exact
    BY <1>0, <1>8, HeldIsCounted, RaisedLeaks DEF ConvToRuby, Place, CanCall, Leaky
  <2>3. GoodHeap(h, Unused, s, F, exact) /\ h.cnt[heap.ref[p]] >= heap.cnt[heap.ref[p]]
    BY <1>0, <2>2, ToRubyGood
  <2>4. h.cnt[heap.ref[p]] > 0
    BY <1>0, <2>2, <2>3 DEF GoodHeap, Accounted
  <2> QED BY <1>1, <1>8, <2>1, <2>2, <2>3, <2>4, LeakedBump DEF ConvToRuby
<1>9. ASSUME NEW c \in Cell, TupleToA(c)
      PROVE  GoodHeap(heap', Unused', s, F, exact)
  <2>1. heap.ref[c] \in Held(heap) /\ depth < MaxDepth
    BY <1>9 DEF TupleToA, CanEnter, Held, Place
  <2>2. NextSlot("result") \in Local /\ NextSlot("result") \in Unused
    BY <2>1, NextLocal DEF Ready, SlotName
  <2>3. GoodHeap(heap', Unused, s, F, exact)
    BY <1>0, <1>9, <2>1, <2>2, TupleItemGood DEF TupleToA
  <2> QED BY <1>1, <1>9, <2>3 DEF TupleToA
<1> QED BY <1>2, <1>3, <1>4, <1>5, <1>6, <1>7, <1>8, <1>9, ConvFromRubyHeap,
           TupleNewHeap DEF RubyStep

\* A function starts with references in the locals of W.
LEMMA EnterHeap ==
  ASSUME NEW s, NEW F, NEW exact, Ready(s, F, exact), NEW k, NEW at, Push(k, at),
         NEW W \in SUBSET Uses([kind |-> k, pc |-> at, loan |-> NULL]),
         GoodHeap(heap', Unused \ {NextSlot(x) : x \in W}, s, F, exact)
  PROVE  GoodHeap(heap', Unused', s, F, exact)
<1> DEFINE M == Unused \ {NextSlot(x) : x \in W}
<1>1. StackOK /\ \A x \in SlotName : NextSlot(x) \in Unused
  BY NextLocal DEF Ready, Push
<1>2. \A x, y : NextSlot(x) = NextSlot(y) => x = y
  BY DEF NextSlot
<1>3. W \subseteq SlotName
  BY DEF Uses, ArgsOf, GotOf
<1>4. Unused \ {NextSlot(x) : x \in SlotName} \subseteq M
  BY <1>3
<1>5. \A x \in SlotName : x \notin Uses([kind |-> k, pc |-> at, loan |-> NULL])
                            => NextSlot(x) \in M
  BY <1>1, <1>2
<1> HIDE DEF M
<1>6. GoodHeap(heap', M, s, F, exact)
  BY DEF M
<1> QED BY <1>1, <1>4, <1>5, <1>6, PushUnused

LEMMA Enter0Heap ==
  ASSUME NEW s, NEW F, NEW exact, Ready(s, F, exact), NEW k, NEW at, Push(k, at),
         GoodHeap(heap', Unused, s, F, exact)
  PROVE  GoodHeap(heap', Unused', s, F, exact)
<1>1. GoodHeap(heap', Unused \ {NextSlot(x) : x \in {}}, s, F, exact)
  BY FewerNulls
<1> QED BY <1>1, EnterHeap

LEMMA Enter1Heap ==
  ASSUME NEW s, NEW F, NEW exact, Ready(s, F, exact), NEW k, Enter1(k), "first" \in ArgsOf(k)
  PROVE  GoodHeap(heap', Unused', s, F, exact)
<1>1. PICK h \in FromRuby(heap, NextSlot("first")) : Enter(k, h)
  BY DEF Enter1
<1>2. /\ GoodHeap(heap, Unused, s, F, exact) /\ Push(k, "python") /\ heap' = h
      /\ NextSlot("first") \in Unused /\ NextSlot("first") \in Local
  BY <1>1, NextLocal DEF Ready, Enter, Push, SlotName
<1>3. heap.ref[NextSlot("first")] = NULL
  BY <1>2, UnusedNull
<1>4. GoodHeap(heap', Unused \ {NextSlot("first")}, s, F, exact)
  BY <1>1, <1>2, <1>3, FromRubyGood, HeapAssumption DEF Place
<1>5. {NextSlot(x) : x \in {"first"}} = {NextSlot("first")}
  OBVIOUS
<1>6. {"first"} \subseteq Uses([kind |-> k, pc |-> "python", loan |-> NULL])
  BY DEF Uses, Absent
<1>7. GoodHeap(heap', Unused \ {NextSlot(x) : x \in {"first"}}, s, F, exact)
  BY <1>4, <1>5
<1> QED BY <1>2, <1>6, <1>7, EnterHeap

LEMMA SetitemEnterHeap ==
  ASSUME NEW s, NEW F, NEW exact, Ready(s, F, exact), SetitemEnter
  PROVE  GoodHeap(heap', Unused', s, F, exact)
<1> DEFINE a == NextSlot("first")
           b == NextSlot("second")
<1>0. PICK h1 \in FromRuby(heap, a) : \E h \in FromRuby(h1, b) : Enter("setitem", h)
  BY DEF SetitemEnter
<1>1. PICK h2 \in FromRuby(h1, b) : Enter("setitem", h2)
  BY <1>0
<1>2. /\ GoodHeap(heap, Unused, s, F, exact) /\ Push("setitem", "python") /\ heap' = h2
      /\ a \in Unused /\ a \in Place /\ a \notin Ptr
      /\ b \in Unused /\ b \in Place /\ b \notin Ptr /\ a # b
  BY <1>1, NextLocal, HeapAssumption DEF Ready, Enter, Push, NextSlot, SlotName
<1>3. heap.ref[a] = NULL
  BY <1>2, UnusedNull
<1>4. GoodHeap(h1, Unused \ {a}, s, F, exact)
  BY <1>1, <1>2, <1>3, FromRubyGood
<1>5. h1.ref[b] = NULL
  BY <1>2, <1>4, UnusedNull
<1>6. GoodHeap(heap', (Unused \ {a}) \ {b}, s, F, exact)
  BY <1>1, <1>2, <1>4, <1>5, FromRubyGood
<1>7. (Unused \ {a}) \ {b} = Unused \ {NextSlot(x) : x \in {"first", "second"}}
  OBVIOUS
<1>8. {"first", "second"} \subseteq
        Uses([kind |-> "setitem", pc |-> "python", loan |-> NULL])
  BY DEF Uses, Absent, ArgsOf, SlotName
<1>9. GoodHeap(heap', Unused \ {NextSlot(x) : x \in {"first", "second"}}, s, F, exact)
  BY <1>6, <1>7
<1> QED BY <1>2, <1>8, <1>9, EnterHeap

LEMMA CallEnterHeap ==
  ASSUME NEW s, NEW F, NEW exact, Ready(s, F, exact), CallEnter \/ CallKwargsEnter
  PROVE  GoodHeap(heap', Unused', s, F, exact)
<1> DEFINE a == NextSlot("first")
           b == NextSlot("second")
           e == NextSlot("error")
<1>1. /\ GoodHeap(heap, Unused, s, F, exact) /\ depth + 1 \in 1..MaxDepth
      /\ a = <<depth + 1, "first">> /\ b = <<depth + 1, "second">>
      /\ a \in Unused /\ b \in Unused /\ e \in Unused /\ e # a /\ e # b
      /\ e \in Place /\ e \notin Ptr
  BY NextLocal, HeapAssumption
     DEF Ready, CallEnter, CallKwargsEnter, CanEnter, NextSlot, SlotName
<1>2. \A h \in CallArguments(heap, depth + 1) : GoodHeap(h, Unused \ {a, b}, s, F, exact)
  BY <1>1, CallArgumentsGood
<1>3. CASE CallEnter
  <2>1. Push("call", "python") /\ GoodHeap(heap', Unused \ {a, b}, s, F, exact)
    BY <1>2, <1>3 DEF CallEnter, Enter
  <2>2. Unused \ {a, b} = Unused \ {NextSlot(x) : x \in {"first", "second"}}
    OBVIOUS
  <2>3. {"first", "second"} \subseteq Uses([kind |-> "call", pc |-> "python", loan |-> NULL])
    BY DEF Uses, Absent, ArgsOf, SlotName
  <2>4. GoodHeap(heap', Unused \ {NextSlot(x) : x \in {"first", "second"}}, s, F, exact)
    BY <2>1, <2>2
  <2> QED BY <2>1, <2>3, <2>4, EnterHeap
<1>4. CASE CallKwargsEnter
  <2>1. PICK h \in CallArguments(heap, depth + 1) :
          heap' \in PyGive(h, NextSlot("error"), {}) \cup {h}
    BY <1>4 DEF CallKwargsEnter
  <2> DEFINE M == Unused \ {a, b}
  <2>2. GoodHeap(h, M, s, F, exact) /\ h.ref[e] = NULL
    <3>1. GoodHeap(h, M, s, F, exact) /\ e \in M
      BY <1>1, <1>2, <2>1
    <3> HIDE DEF M
    <3> QED BY <3>1, UnusedNull
  <2>3. GoodHeap(heap', (Unused \ {a, b}) \ {e}, s, F, exact)
    BY <1>1, <2>1, <2>2, PyGiveGood, FewerNulls
  <2>4. (Unused \ {a, b}) \ {e} = Unused \ {NextSlot(x) : x \in {"first", "second", "error"}}
    OBVIOUS
  <2>5. {"first", "second", "error"} \subseteq
          Uses([kind |-> "kwargs", pc |-> "raised", loan |-> NULL])
    BY <1>4 DEF Uses, ArgsOf, GotOf, Absent, SlotName, CallKwargsEnter
  <2>6. GoodHeap(heap', Unused \ {NextSlot(x) : x \in {"first", "second", "error"}}, s, F, exact)
    BY <2>3, <2>4
  <2> QED BY <1>4, <2>5, <2>6, EnterHeap DEF CallKwargsEnter
<1> QED BY <1>3, <1>4

LEMMA HelperEnterHeap ==
  ASSUME NEW s, NEW F, NEW exact, Ready(s, F, exact), HelperEnter
  PROVE  GoodHeap(heap', Unused', s, F, exact)
<1>1. CASE CallConversionRaises
  <2> DEFINE a == NextSlot("first")
  <2>1. PICK h \in FromRuby(heap, a) : heap' = Forget(h, a)
    BY <1>1 DEF CallConversionRaises
  <2>2. /\ GoodHeap(heap, Unused, s, F, exact) /\ ~exact
        /\ a \in Unused /\ a \in Local /\ a \in Place /\ a \notin Ptr
    BY <1>1, NextLocal, RaisedLeaks, HeapAssumption
       DEF CallConversionRaises, Ready, CanEnter, Leaky, SlotName
  <2>3. heap.ref[a] = NULL
    BY <2>2, UnusedNull
  <2>4. GoodHeap(h, Unused \ {a}, s, F, exact)
    BY <2>1, <2>2, <2>3, FromRubyGood
  <2>5. GoodHeap(heap', (Unused \ {a}) \cup {a}, s, F, exact)
    BY <2>1, <2>2, <2>4, ForgetGood
  <2> QED BY <1>1, <2>5, SameUnused DEF CallConversionRaises
<1>2. ASSUME NEW k, Enter(k, heap)
      PROVE  GoodHeap(heap', Unused', s, F, exact)
  BY <1>2, Enter0Heap DEF Enter, Ready
<1>3. CASE WrapperMethodEnter \/ EachEnter \/ DictEnter
  BY <1>3, Enter0Heap DEF WrapperMethodEnter, EachEnter, DictEnter, Ready
<1>4. CASE SetattrEnter \/ GetitemEnter \/ DelitemEnter \/ ContainsEnter
           \/ ImportModuleLevelEnter \/ WrapperSetEnter
  <2>1. \A k \in {"setattr", "wrapper_set", "getitem", "delitem", "contains",
                  "import_level"} : "first" \in ArgsOf(k)
    BY DEF ArgsOf, SlotName
  <2> QED BY <1>4, <2>1, Enter1Heap
          DEF SetattrEnter, GetitemEnter, DelitemEnter, ContainsEnter,
              ImportModuleLevelEnter, WrapperSetEnter
<1> QED BY <1>1, <1>2, <1>3, <1>4, SetitemEnterHeap, CallEnterHeap
        DEF HelperEnter, GetattrEnter, DelattrEnter, DefineMethodEnter, CompareEnter,
            StrEnter, DirEnter, ImportModuleEnter

\* Python gave control back to a function of kind k, which ends.
LEMMA AtReturn ==
  ASSUME NEW s, NEW F, NEW exact, Ready(s, F, exact), NEW k, Back(k)
  PROVE  /\ GoodHeap(heap, Unused, s, F, exact) /\ StackOK
         /\ depth \in 1..MaxDepth /\ Top.kind = k /\ Top.pc \in {"returned", "raised"}
         /\ \A x \in SlotName : /\ Slot(x) \in Local /\ Slot(x) \in Place
                                /\ x \notin Uses(Top) => Slot(x) \in Unused
<1>1. Top.pc # "ruby"
  BY DEF Back
<1> QED BY <1>1, TopIsFunction DEF Ready, Back

\* It has released its argument, or has none, and answers a status.
LEMMA StatusReturnHeap ==
  ASSUME NEW s, NEW F, NEW exact, Ready(s, F, exact), NEW k \in StatusOnly, Back(k), Pop,
         NEW h, NEW N, GoodHeap(h, N, s, F, exact), Unused \subseteq N,
         \A x \in ArgsOf(k) : Slot(x) \in N, heap' \in Outcome(h, {h})
  PROVE  GoodHeap(heap', Unused', s, F, exact)
<1>1. /\ Top.kind = k /\ Top.pc \in {"returned", "raised"}
      /\ \A x \in SlotName : x \notin Uses(Top) => Slot(x) \in Unused
  BY AtReturn
<1>2. Top.pc = "returned" => N = N \cup {Slot("result")}
  BY <1>1 DEF Uses, ArgsOf, GotOf, SlotName
<1>3. Top.pc = "returned" => \A g \in {h} : GoodHeap(g, N \cup {Slot("result")}, s, F, exact)
  BY <1>2
<1> QED BY <1>1, <1>3, ReturnGood

LEMMA StatusReturnsHeap ==
  ASSUME NEW s, NEW F, NEW exact, Ready(s, F, exact),
         \/ SetattrReturn \/ DelattrReturn \/ SetitemReturn \/ DelitemReturn
         \/ ContainsReturn \/ WrapperSetReturn
  PROVE  GoodHeap(heap', Unused', s, F, exact)
<1> DEFINE a == Slot("first")
           b == Slot("second")
<1>1. ASSUME NEW k \in {"delitem", "contains", "wrapper_set"}, Back(k), Pop,
             heap' \in Outcome(Drop(heap, a), {Drop(heap, a)})
      PROVE  GoodHeap(heap', Unused', s, F, exact)
  <2>1. GoodHeap(heap, Unused, s, F, exact) /\ a \in Local /\ a \in Place
    BY <1>1, AtReturn DEF SlotName
  <2>2. GoodHeap(Drop(heap, a), Unused \cup {a}, s, F, exact)
    BY <2>1, DropGood
  <2>3. \A x \in ArgsOf(k) : Slot(x) \in Unused \cup {a}
    BY <1>1 DEF ArgsOf
  <2>4. k \in StatusOnly
    BY <1>1 DEF StatusOnly
  <2> QED BY <1>1, <2>2, <2>3, <2>4, StatusReturnHeap
<1>2. CASE SetattrReturn
  <2>1. /\ GoodHeap(heap, Unused, s, F, exact) /\ a \in Local /\ ~exact
        /\ Back("setattr") /\ Pop /\ heap' \in Outcome(Forget(heap, a), {Forget(heap, a)})
    BY <1>2, AtReturn, RaisedLeaks DEF SetattrReturn, SlotName, Leaky
  <2>2. GoodHeap(Forget(heap, a), Unused \cup {a}, s, F, exact)
    BY <2>1, ForgetGood
  <2>3. \A x \in ArgsOf("setattr") : Slot(x) \in Unused \cup {a}
    BY DEF ArgsOf
  <2> QED BY <2>1, <2>2, <2>3, StatusReturnHeap DEF StatusOnly
<1>3. CASE DelattrReturn
  <2>1. /\ GoodHeap(heap, Unused, s, F, exact)
        /\ Back("delattr") /\ Pop /\ heap' \in Outcome(heap, {heap})
    BY <1>3 DEF DelattrReturn, Ready
  <2>2. ArgsOf("delattr") = {}
    BY DEF ArgsOf
  <2> QED BY <2>1, <2>2, StatusReturnHeap DEF StatusOnly
<1>4. CASE SetitemReturn
  <2> DEFINE h == Drop(Drop(heap, a), b)
  <2>1. /\ GoodHeap(heap, Unused, s, F, exact)
        /\ a \in Local /\ a \in Place /\ b \in Local /\ b \in Place
        /\ Back("setitem") /\ Pop /\ heap' \in Outcome(h, {h})
    BY <1>4, AtReturn DEF SetitemReturn, SlotName
  <2>2. GoodHeap(h, (Unused \cup {a}) \cup {b}, s, F, exact)
    BY <2>1, DropGood
  <2>3. \A x \in ArgsOf("setitem") : Slot(x) \in (Unused \cup {a}) \cup {b}
    BY DEF ArgsOf
  <2> HIDE DEF h
  <2> QED BY <2>1, <2>2, <2>3, StatusReturnHeap DEF StatusOnly
<1> QED BY <1>1, <1>2, <1>3, <1>4 DEF DelitemReturn, ContainsReturn, WrapperSetReturn

\* It answers an object, which is converted and released or forgotten.
LEMMA ValueReturnsHeap ==
  ASSUME NEW s, NEW F, NEW exact, Ready(s, F, exact),
         \/ GetitemReturn \/ CompareReturn \/ StrReturn \/ DefineMethodReturn
         \/ GetattrReturn \/ ImportModuleReturn \/ ImportModuleLevelReturn
         \/ WrapperMethodGet
  PROVE  GoodHeap(heap', Unused', s, F, exact)
<1> DEFINE a == Slot("first")
           r == Slot("result")
           e == Slot("error")
<1>1. ASSUME NEW k \in {"compare", "str", "define_method", "getattr", "import", "method"},
             Back(k)
      PROVE  ArgsOf(Top.kind) = {} /\ GoodHeap(heap, Unused, s, F, exact)
  BY <1>1 DEF Ready, Back, ArgsOf
<1>2. CASE GetitemReturn
  <2>1. /\ GoodHeap(heap, Unused, s, F, exact) /\ a \in Local /\ a \in Place
        /\ depth \in 1..MaxDepth /\ Top.kind = "getitem" /\ Top.pc \in {"returned", "raised"}
    BY <1>2, AtReturn DEF GetitemReturn, SlotName
  <2>2. GoodHeap(Drop(heap, a), Unused \cup {a}, s, F, exact)
    BY <2>1, DropGood
  <2>3. \A x \in ArgsOf(Top.kind) : Slot(x) \in Unused \cup {a}
    BY <2>1 DEF ArgsOf
  <2>4. \A g \in ConvertAndRelease(Drop(heap, a)) :
          GoodHeap(g, (Unused \cup {a}) \cup {r}, s, F, exact)
    BY <2>1, <2>2, ConvertAndReleaseGood
  <2> QED BY <1>2, <2>1, <2>2, <2>3, <2>4, ReturnGood DEF GetitemReturn
<1>3. CASE CompareReturn \/ StrReturn
  <2>1. PICK k \in {"compare", "str"} : Back(k)
    BY <1>3 DEF CompareReturn, StrReturn
  <2>2. /\ GoodHeap(heap, Unused, s, F, exact) /\ ArgsOf(Top.kind) = {}
        /\ depth \in 1..MaxDepth /\ Top.pc \in {"returned", "raised"}
    BY <1>1, <2>1, AtReturn
  <2>3. \A g \in ConvertAndRelease(heap) : GoodHeap(g, Unused \cup {r}, s, F, exact)
    BY <2>2, ConvertAndReleaseGood
  <2> QED BY <1>3, <2>2, <2>3, ReturnGood DEF CompareReturn, StrReturn
<1>4. CASE DefineMethodReturn
  <2>1. /\ GoodHeap(heap, Unused, s, F, exact) /\ ArgsOf(Top.kind) = {}
        /\ Top.pc \in {"returned", "raised"} /\ r \in Local /\ r \in Place
    BY <1>1, <1>4, AtReturn DEF DefineMethodReturn, SlotName
  <2>2. \A g \in {Drop(heap, r)} : GoodHeap(g, Unused \cup {r}, s, F, exact)
    BY <2>1, DropGood
  <2> QED BY <1>4, <2>1, <2>2, ReturnGood DEF DefineMethodReturn
<1>5. ASSUME NEW k \in {"getattr", "import", "method"}, Back(k), Pop,
             Top.pc = "returned" => ~exact, heap' \in Outcome(heap, ConvertAndForget(heap))
      PROVE  GoodHeap(heap', Unused', s, F, exact)
  <2>1. /\ GoodHeap(heap, Unused, s, F, exact) /\ ArgsOf(Top.kind) = {}
        /\ depth \in 1..MaxDepth /\ Top.pc \in {"returned", "raised"}
    BY <1>1, <1>5, AtReturn
  <2>2. Top.pc = "returned" =>
          \A g \in ConvertAndForget(heap) : GoodHeap(g, Unused \cup {r}, s, F, exact)
    BY <1>5, <2>1, ConvertAndForgetGood
  <2> QED BY <1>5, <2>1, <2>2, ReturnGood
<1>6. CASE GetattrReturn /\ heap' \in Outcome(heap, ConvertAndForget(heap))
  BY <1>5, <1>6, RaisedLeaks DEF GetattrReturn, Back, Leaky
<1>7. CASE GetattrReturn /\ Top.pc = "raised" /\ heap' = Drop(heap, e)
  <2>1. /\ GoodHeap(heap, Unused, s, F, exact) /\ StackOK /\ depth \in 1..MaxDepth
        /\ Top.kind = "getattr" /\ e \in Local /\ e \in Place /\ Pop
        /\ \A x \in SlotName : x \notin Uses(Top) => Slot(x) \in Unused
    BY <1>7, AtReturn DEF GetattrReturn, SlotName
  <2>2. GoodHeap(heap', Unused \cup {e}, s, F, exact)
    BY <1>7, <2>1, DropGood
  <2>3. \A x \in SlotName : Slot(x) \in Unused \cup {e}
    BY <1>7, <2>1 DEF Uses, ArgsOf, GotOf
  <2> QED BY <2>1, <2>2, <2>3, PopUnused
<1>8. CASE ImportModuleReturn
  BY <1>5, <1>8, RaisedLeaks DEF ImportModuleReturn, Back, Leaky
<1>9. CASE ImportModuleLevelReturn
  <2>1. /\ GoodHeap(heap, Unused, s, F, exact) /\ a \in Local /\ ~exact
        /\ depth \in 1..MaxDepth /\ Top.kind = "import_level" /\ Top.pc \in {"returned", "raised"}
    BY <1>9, AtReturn, RaisedLeaks DEF ImportModuleLevelReturn, SlotName, Leaky
  <2>2. GoodHeap(Forget(heap, a), Unused \cup {a}, s, F, exact)
    BY <2>1, ForgetGood
  <2>3. \A x \in ArgsOf(Top.kind) : Slot(x) \in Unused \cup {a}
    BY <2>1 DEF ArgsOf
  <2>4. \A g \in ConvertAndForget(Forget(heap, a)) :
          GoodHeap(g, (Unused \cup {a}) \cup {r}, s, F, exact)
    BY <2>1, <2>2, ConvertAndForgetGood
  <2> QED BY <1>9, <2>1, <2>2, <2>3, <2>4, ReturnGood DEF ImportModuleLevelReturn
<1>10. CASE WrapperMethodGet
  <2>1. Top.pc = "returned" => ~exact
    BY <1>10, RaisedLeaks DEF WrapperMethodGet, Leaky
  <2> QED BY <1>5, <1>10, <2>1 DEF WrapperMethodGet
<1> QED BY <1>2, <1>3, <1>4, <1>6, <1>7, <1>8, <1>9, <1>10 DEF GetattrReturn

\* The reference that dir got becomes the PyPtr's.
LEMMA DirReturnHeap ==
  ASSUME NEW s, NEW F, NEW exact, Ready(s, F, exact), DirReturn
  PROVE  GoodHeap(heap', Unused', s, F, exact)
<1> DEFINE r == Slot("result")
           S == IF heap.ref[r] = NULL THEN {heap}
                ELSE {Move(Wrap(heap, p), r, p) : p \in Ptr \ heap.live}
<1>1. /\ GoodHeap(heap, Unused, s, F, exact) /\ Top.pc \in {"returned", "raised"}
      /\ ArgsOf(Top.kind) = {} /\ r \in Local /\ r \in Place
      /\ Pop /\ heap' \in Outcome(heap, S)
  BY AtReturn DEF DirReturn, SlotName, ArgsOf
<1>2. ASSUME NEW g \in S
      PROVE  GoodHeap(g, Unused \cup {r}, s, F, exact)
  <2>1. CASE heap.ref[r] = NULL /\ g = heap
    BY <1>1, <2>1 DEF GoodHeap, Nulls
  <2>2. CASE heap.ref[r] # NULL /\ g \in {Move(Wrap(heap, p), r, p) : p \in Ptr \ heap.live}
    <3>1. PICK p \in Ptr \ heap.live : g = Move(Wrap(heap, p), r, p)
      BY <2>2
    <3>2. /\ GoodHeap(Wrap(heap, p), Unused, s, F, exact)
          /\ Wrap(heap, p).ref[p] = NULL /\ p \in Wrap(heap, p).live
          /\ p \in Place /\ p \notin Local
      <4>1. heap.ref[p] = NULL
        BY <1>1, <3>1 DEF GoodHeap, Nulls
      <4> QED BY <1>1, <3>1, <4>1, WrapGood, HeapAssumption DEF Place
    <3>3. GoodHeap(g, (Unused \cup {r}) \ {p}, s, F, exact)
      BY <1>1, <3>1, <3>2, MoveGood
    <3>4. (Unused \cup {r}) \ {p} = Unused \cup {r}
      BY <1>1, <3>2 DEF Unused
    <3> QED BY <3>3, <3>4
  <2> QED BY <2>1, <2>2
<1> HIDE DEF S
<1>3. \A g \in S : GoodHeap(g, Unused \cup {r}, s, F, exact)
  BY <1>2
<1> QED BY <1>1, <1>3, ReturnGood

LEMMA CallReturnHeap ==
  ASSUME NEW s, NEW F, NEW exact, Ready(s, F, exact), CallReturn
  PROVE  GoodHeap(heap', Unused', s, F, exact)
<1> DEFINE a == Slot("first")
           b == Slot("second")
           c == Slot("callee")
           h == Drop(Drop(heap, a), b)
           N == (Unused \cup {a}) \cup {b}
<1>1. /\ GoodHeap(heap, Unused, s, F, exact) /\ StackOK
      /\ depth \in 1..MaxDepth /\ Top.kind = "call" /\ Top.pc \in {"returned", "raised"}
      /\ a \in Local /\ a \in Place /\ b \in Local /\ b \in Place /\ c \in Local /\ c \in Place
      /\ \A x \in SlotName : x \notin Uses(Top) => Slot(x) \in Unused
  BY AtReturn DEF CallReturn, SlotName
<1>2. GoodHeap(h, N, s, F, exact)
  BY <1>1, DropGood
<1>3. Pop /\ heap' \in IF Top.pc = "raised"
                       THEN {Forget(h1, c) : h1 \in FetchError(h)}
                       ELSE {Drop(h1, c) : h1 \in ConvertAndRelease(h)}
  BY DEF CallReturn
<1> HIDE DEF h
<1>4. CASE Top.pc = "raised"
  <2>1. PICK h1 \in FetchError(h) : heap' = Forget(h1, c)
    BY <1>3, <1>4
  <2>2. exact => Slot("error") \in N /\ c \in N
    BY <1>4, RaisedLeaks
  <2>3. GoodHeap(h1, N \cup {Slot("error")}, s, F, exact)
    BY <1>1, <1>2, <2>1, <2>2, FetchErrorGood
  <2>4. exact => h1.ref[c] = NULL
    BY <2>2, <2>3, UnusedNull
  <2>5. GoodHeap(heap', (N \cup {Slot("error")}) \cup {c}, s, F, exact)
    BY <1>1, <2>1, <2>3, <2>4, ForgetGood
  <2>6. \A x \in SlotName : Slot(x) \in (N \cup {Slot("error")}) \cup {c}
    BY <1>1, <1>4 DEF Uses, ArgsOf, GotOf
  <2> QED BY <1>1, <1>3, <2>5, <2>6, PopUnused
<1>5. CASE Top.pc = "returned"
  <2>1. PICK h1 \in ConvertAndRelease(h) : heap' = Drop(h1, c)
    BY <1>3, <1>5
  <2>2. GoodHeap(h1, N \cup {Slot("result")}, s, F, exact)
    BY <1>1, <1>2, <2>1, ConvertAndReleaseGood
  <2>3. GoodHeap(heap', (N \cup {Slot("result")}) \cup {c}, s, F, exact)
    BY <1>1, <2>1, <2>2, DropGood
  <2>4. \A x \in SlotName : Slot(x) \in (N \cup {Slot("result")}) \cup {c}
    BY <1>1, <1>5 DEF Uses, ArgsOf, GotOf
  <2> QED BY <1>1, <1>3, <2>3, <2>4, PopUnused
<1> QED BY <1>1, <1>4, <1>5

LEMMA CallKwargsRaiseHeap ==
  ASSUME NEW s, NEW F, NEW exact, Ready(s, F, exact), CallKwargsRaise
  PROVE  GoodHeap(heap', Unused', s, F, exact)
<1> DEFINE a == Slot("first")
           b == Slot("second")
           h == Forget(Drop(heap, a), b)
           N == (Unused \cup {a}) \cup {b}
<1>1. /\ GoodHeap(heap, Unused, s, F, exact) /\ StackOK /\ Pop /\ heap' \in FetchError(h)
      /\ depth \in 1..MaxDepth /\ depth \in 0..MaxDepth /\ Top.kind = "kwargs"
      /\ a \in Local /\ a \in Place /\ b \in Local /\ b \in Place
      /\ \A x \in SlotName : x \notin Uses(Top) => Slot(x) \in Unused
  BY AtReturn DEF CallKwargsRaise, SlotName
<1>2. Top.pc = "raised" /\ "python_error" \in Ops
  BY <1>1 DEF StackOK, UsedOps, Asked, Top
<1>3. ~exact
  BY <1>2, RaisedLeaks DEF Leaky
<1>4. GoodHeap(h, N, s, F, exact)
  BY <1>1, <1>3, DropGood, ForgetGood
<1> HIDE DEF h
<1>5. GoodHeap(heap', N \cup {Slot("error")}, s, F, exact)
  BY <1>1, <1>3, <1>4, FetchErrorGood
<1>6. \A x \in SlotName : Slot(x) \in N \cup {Slot("error")}
  BY <1>1, <1>2 DEF Uses, ArgsOf, GotOf
<1> QED BY <1>1, <1>5, <1>6, PopUnused

\* The attribute becomes the callee, and the call its own activation.
LEMMA WrapperMethodCallHeap ==
  ASSUME NEW s, NEW F, NEW exact, Ready(s, F, exact), WrapperMethodCall
  PROVE  GoodHeap(heap', Unused', s, F, exact)
<1> DEFINE a == <<depth, "first">>
           b == <<depth, "second">>
           c == Slot("callee")
           r == Slot("result")
           f == [kind |-> "call", pc |-> "python", loan |-> NULL]
           h == Move(heap, r, c)
           N == (Unused \cup {r}) \ {c}
           M == N \ {a, b}
<1>1. /\ GoodHeap(heap, Unused, s, F, exact) /\ StackOK
      /\ depth \in 1..MaxDepth /\ Top.kind = "method" /\ Top.pc = "returned"
      /\ r \in Local /\ c \in Place /\ c \notin Ptr /\ r # c
      /\ a = Slot("first") /\ b = Slot("second")
      /\ \A x \in SlotName : x \notin Uses(Top) => Slot(x) \in Unused
      /\ depth' = depth /\ frame' = [frame EXCEPT ![depth] = f]
      /\ heap' \in CallArguments(h, depth)
  BY AtReturn, HeapAssumption DEF WrapperMethodCall, Become, SlotName, Slot
<1>2. \A x \in {"first", "second", "callee", "iter", "error"} :
        x \in SlotName /\ Slot(x) \in Unused
  BY <1>1 DEF Uses, ArgsOf, GotOf, SlotName
<1>3. heap.ref[c] = NULL
  BY <1>1, <1>2, UnusedNull
<1>4. GoodHeap(h, N, s, F, exact)
  BY <1>1, <1>3, MoveGood
<1>5. a \in N /\ b \in N
  BY <1>1, <1>2 DEF Slot
<1> HIDE DEF h, N
<1>6. GoodHeap(heap', M, s, F, exact)
  BY <1>1, <1>4, <1>5, CallArgumentsGood
<1>7. Unused \ {Slot(x) : x \in SlotName} \subseteq M
  BY <1>1 DEF N, SlotName
<1>8. \A x \in SlotName : x \notin Uses(f) => Slot(x) \in M
  <2>1. \A x \in SlotName : x \notin Uses(f) => x \in {"iter", "error", "result"}
    BY DEF Uses, Absent, ArgsOf, SlotName
  <2>2. \A x \in {"iter", "error", "result"} : Slot(x) \in M
    BY <1>1, <1>2 DEF N, Slot
  <2> QED BY <2>1, <2>2
<1> HIDE DEF f, M
<1> QED BY <1>1, <1>6, <1>7, <1>8, TopUnused

LEMMA HelperReturnHeap ==
  ASSUME NEW s, NEW F, NEW exact, Ready(s, F, exact), HelperReturn
  PROVE  GoodHeap(heap', Unused', s, F, exact)
BY StatusReturnsHeap, ValueReturnsHeap, DirReturnHeap, CallReturnHeap,
   CallKwargsRaiseHeap, WrapperMethodCallHeap DEF HelperReturn

LEMMA EachHeap ==
  ASSUME NEW s, NEW F, NEW exact, Ready(s, F, exact),
         EachIter \/ EachYield \/ EachNext \/ EachEnd \/ EachBreak
  PROVE  GoodHeap(heap', Unused', s, F, exact)
<1> DEFINE i == Slot("iter")
           r == Slot("result")
           Py == [kind |-> "each", pc |-> "python", loan |-> NULL]
           Rb == [kind |-> "each", pc |-> "ruby", loan |-> NULL]
<1>1. Top.kind # "main"
  BY DEF EachIter, EachYield, EachNext, EachEnd, EachBreak, Back
<1>2. /\ GoodHeap(heap, Unused, s, F, exact) /\ StackOK /\ depth \in 1..MaxDepth
      /\ i \in Local /\ i \in Place /\ i \notin Ptr /\ r \in Local /\ r \in Place /\ i # r
      /\ \A x \in SlotName : x \notin Uses(Top) => Slot(x) \in Unused
      /\ \A x, y : Slot(x) = Slot(y) => x = y
  BY <1>1, TopIsFunction, HeapAssumption DEF Ready, SlotName, Slot
<1>3. Uses(Py) = {"iter"} /\ Uses(Rb) = {"iter", "result"}
  BY DEF Uses, Absent, ArgsOf, GotOf, SlotName
<1>4. CASE EachIter
  <2>1. Uses(Top) = GotOf(Top) /\ Back("iter")
    BY <1>4 DEF EachIter, Back, Uses, ArgsOf
  <2>2. CASE Top.pc = "raised"
    <3>1. heap' \in Outcome(heap, {}) /\ Pop
      BY <1>4, <2>2 DEF EachIter, Outcome
    <3> QED BY <1>2, <2>1, <2>2, <3>1, ReturnGood DEF Uses, GotOf, ArgsOf, Back
  <2>3. CASE Top.pc = "returned"
    <3> DEFINE M == (Unused \cup {r}) \ {i}
    <3>1. /\ heap' = Move(heap, r, i)
          /\ depth' = depth /\ frame' = [frame EXCEPT ![depth] = Py]
      BY <1>4, <2>3 DEF EachIter, Become
    <3>2. \A x \in SlotName : x # "result" => Slot(x) \in Unused
      BY <1>2, <2>1, <2>3 DEF GotOf
    <3>3. i \in Unused
      BY <3>2 DEF SlotName
    <3>4. heap.ref[i] = NULL
      BY <1>2, <3>3, UnusedNull
    <3>5. GoodHeap(heap', M, s, F, exact)
      BY <1>2, <3>1, <3>4, MoveGood
    <3>6. \A x \in SlotName : x \notin Uses(Py) => Slot(x) \in M
      BY <1>2, <1>3, <3>2
    <3>7. Unused \ {Slot(x) : x \in SlotName} \subseteq M
      BY <1>2 DEF SlotName
    <3> HIDE DEF M, Py
    <3> QED BY <1>2, <1>3, <3>1, <3>5, <3>6, <3>7, TopUnused
  <2> QED BY <2>1, <2>2, <2>3 DEF Back
<1>5. CASE EachYield
  <2>1. /\ heap' \in ToRuby(heap, heap.ref[r]) /\ Top.kind = "each" /\ Top.pc = "returned"
        /\ depth' = depth /\ frame' = [frame EXCEPT ![depth] = Rb]
    BY <1>5 DEF EachYield, Back, Become
  <2>2. GoodHeap(heap', Unused, s, F, exact)
    BY <1>2, <2>1, HeldAtLocal, ToRubyGood
  <2>3. \A x \in SlotName : x \notin Uses(Rb) => Slot(x) \in Unused
    <3>1. Uses(Top) = {"iter", "result"}
      BY <2>1 DEF Uses, Absent, ArgsOf, GotOf, SlotName, StatusOnly
    <3> QED BY <1>2, <1>3, <3>1
  <2> HIDE DEF Rb
  <2>4. Unused \ {Slot(x) : x \in SlotName} \subseteq Unused
    OBVIOUS
  <2> QED BY <1>2, <2>1, <2>2, <2>3, <2>4, TopUnused
<1>6. CASE EachNext
  <2> DEFINE M == Unused \cup {r}
  <2>1. /\ heap' = Drop(heap, r) /\ Top.kind = "each" /\ Top.pc = "ruby"
        /\ depth' = depth /\ frame' = [frame EXCEPT ![depth] = Py]
    BY <1>6 DEF EachNext, InRuby, Become
  <2>2. GoodHeap(heap', M, s, F, exact)
    BY <1>2, <2>1, DropGood
  <2>3. \A x \in SlotName : x \notin Uses(Py) => Slot(x) \in M
    <3>1. Uses(Top) = {"iter", "result"}
      BY <2>1 DEF Uses, Absent, ArgsOf, GotOf, SlotName
    <3> QED BY <1>2, <1>3, <3>1
  <2>4. Unused \ {Slot(x) : x \in SlotName} \subseteq M
    OBVIOUS
  <2> HIDE DEF Py, M
  <2> QED BY <1>2, <2>1, <2>2, <2>3, <2>4, TopUnused
<1>7. CASE EachEnd
  <2> DEFINE h == Drop(heap, i)
             N == Unused \cup {i}
  <2>1. Back("each") /\ Pop
    BY <1>7 DEF EachEnd
  <2>2. GoodHeap(h, N, s, F, exact) /\ Repoints(heap, h, i, NULL)
    BY <1>2, DropGood
  <2>3. \A x \in ArgsOf(Top.kind) : Slot(x) \in N
    BY <2>1 DEF ArgsOf, Back
  <2>4. CASE Top.pc = "raised" /\ heap' \in FetchError(h)
    <3> HIDE DEF h
    <3>1. heap' \in Outcome(h, {})
      BY <2>4 DEF Outcome
    <3> QED BY <2>1, <2>2, <2>3, <2>4, <3>1, ReturnGood
  <2>5. CASE Top.pc = "returned" /\ heap.ref[r] = NULL /\ heap' = h
    <3>1. h.ref[r] = NULL
      BY <1>2, <2>2, <2>5, HeapRecord DEF Repoints, GoodHeap
    <3> HIDE DEF h
    <3>2. \A g \in {h} : GoodHeap(g, N \cup {r}, s, F, exact)
      BY <1>2, <2>2, <3>1 DEF GoodHeap, Nulls
    <3>3. heap' \in Outcome(h, {h})
      BY <2>5 DEF Outcome
    <3> QED BY <2>1, <2>2, <2>3, <2>5, <3>2, <3>3, ReturnGood
  <2> QED BY <1>7, <2>4, <2>5 DEF EachEnd
<1>8. CASE EachBreak
  <2>1. /\ heap' = Forget(Forget(heap, r), i) /\ Pop
        /\ Top.kind = "each" /\ Top.pc = "ruby" /\ ~exact
    BY <1>8, RaisedLeaks DEF EachBreak, InRuby, Leaky
  <2>2. GoodHeap(heap', (Unused \cup {r}) \cup {i}, s, F, exact)
    BY <1>2, <2>1, ForgetGood
  <2>3. \A x \in SlotName : Slot(x) \in (Unused \cup {r}) \cup {i}
    BY <1>2, <2>1 DEF Uses, ArgsOf, GotOf
  <2> QED BY <1>2, <2>1, <2>2, <2>3, PopUnused
<1> QED BY <1>4, <1>5, <1>6, <1>7, <1>8

\* dict_each at a pc other than "python": it has no local in use.
LEMMA AtDict ==
  ASSUME NEW s, NEW F, NEW exact, Ready(s, F, exact), Top.kind = "dict"
  PROVE  /\ GoodHeap(heap, Unused, s, F, exact) /\ heap \in Heap /\ StackOK
         /\ depth \in 1..MaxDepth /\ depth \in 0..MaxDepth
         /\ Top.pc \in {"next", "key", "value", "ruby"} =>
              \A x \in SlotName : Slot(x) \in Unused
BY TopIsFunction DEF Ready, GoodHeap, Uses, ArgsOf, GotOf

LEMMA DictHeap ==
  ASSUME NEW s, NEW F, NEW exact, Ready(s, F, exact),
         \/ \E key \in Lent(heap) \cup {NULL}, value \in Lent(heap) : DictNext(key, value)
         \/ \E at \in {"python", "ruby"} : KeyConversionEnter(at)
         \/ KeyConversionReturn \/ DictEnd
  PROVE  GoodHeap(heap', Unused', s, F, exact)
<1>1. ASSUME NEW key \in Lent(heap) \cup {NULL}, NEW value \in Lent(heap),
             DictNext(key, value)
      PROVE  GoodHeap(heap', Unused', s, F, exact)
  <2> DEFINE at == IF key \in ByValue THEN "value" ELSE "key"
             f == [kind |-> "dict", pc |-> at, loan |-> value]
  <2>1. /\ GoodHeap(heap, Unused, s, F, exact) /\ StackOK /\ depth \in 1..MaxDepth
        /\ depth \in 0..MaxDepth /\ \A x \in SlotName : Slot(x) \in Unused
    BY <1>1, AtDict DEF DictNext, AtDictNext
  <2>2. depth' = depth /\ frame' = [frame EXCEPT ![depth] = f]
    BY <1>1, <2>1 DEF DictNext, StackOK, Frame
  <2>3. key \in Obj => heap.cnt[key] > 0
    <3>1. CASE key \in Lent(heap)
      BY <2>1, <3>1, HeldIsCounted DEF Lent, Place
    <3>2. CASE key = NULL
      BY <3>2, HeapAssumption
    <3> QED BY <3>1, <3>2
  <2>4. GoodHeap(heap', Unused, s, F, exact)
    BY <1>1, <2>1, <2>3, ToRubyGood DEF DictNext
  <2>5. Unused \ {Slot(x) : x \in SlotName} \subseteq Unused
    OBVIOUS
  <2> HIDE DEF f
  <2> QED BY <2>1, <2>2, <2>4, <2>5, TopUnused
<1>2. ASSUME NEW at \in {"python", "ruby"}, KeyConversionEnter(at)
      PROVE  GoodHeap(heap', Unused', s, F, exact)
  BY <1>2, Enter0Heap DEF KeyConversionEnter, Ready
<1>3. CASE KeyConversionReturn
  <2>1. /\ Top.kind = "convert" /\ Top.pc \in {"ruby", "returned"}
        /\ Pop /\ heap' = heap
    BY <1>3 DEF KeyConversionReturn
  <2>2. /\ GoodHeap(heap', Unused, s, F, exact) /\ StackOK
        /\ depth \in 1..MaxDepth /\ \A x \in SlotName : Slot(x) \in Unused
    BY <2>1, TopIsFunction DEF Ready, Uses, ArgsOf, GotOf, StatusOnly
  <2> QED BY <2>1, <2>2, PopUnused
<1>4. CASE DictEnd
  BY <1>4, AtDict, PopUnused DEF DictEnd
<1> QED BY <1>1, <1>2, <1>3, <1>4

\* The value is converted, whether it was freed or not.
LEMMA DictYieldHeap ==
  ASSUME NEW s, NEW F, NEW exact, Ready(s, F, exact), DictYield
  PROVE  Top.loan \in Obj /\ GoodHeap(heap', Unused', s, F \cup Stale(heap, Top.loan), exact)
<1> DEFINE o == Top.loan
           f == [kind |-> "dict", pc |-> "ruby", loan |-> NULL]
           G == F \cup Stale(heap, o)
<1>1. /\ GoodHeap(heap, Unused, s, F, exact) /\ heap \in Heap /\ StackOK
      /\ depth \in 1..MaxDepth /\ depth \in 0..MaxDepth
      /\ \A x \in SlotName : Slot(x) \in Unused
  BY AtDict DEF DictYield
<1>2. o \in Obj
  BY <1>1 DEF StackOK, UsedOps, Lender, Lends, DictYield, Top
<1>3. PICK h \in ToRuby(heap, o) :
        heap' = IF heap.cnt[o] > 0 THEN h ELSE [h EXCEPT !.fault = @ \cup {o}]
  BY DEF DictYield
<1>4. GoodHeap(h, Unused, s, F \cup StaleOf(heap, o), exact)
  BY <1>1, ToRubyAnyGood
<1>5. GoodHeap(heap', Unused, s, G, exact)
  <2>1. CASE heap.cnt[o] > 0
    <3>1. G = F \cup StaleOf(heap, o)
      BY <2>1 DEF Stale, StaleOf
    <3> QED BY <1>3, <1>4, <2>1, <3>1
  <2>2. CASE ~(heap.cnt[o] > 0)
    <3>1. h \in Heap /\ h.fault = F \cup StaleOf(heap, o)
      BY <1>4 DEF GoodHeap
    <3>2. heap' = [h EXCEPT !.fault = @ \cup {o}]
      BY <1>3, <2>2
    <3>3. /\ heap' \in Heap /\ heap'.ref = h.ref /\ heap'.cnt = h.cnt
          /\ heap'.live = h.live /\ heap'.root = h.root /\ heap'.fault = h.fault \cup {o}
      BY <1>2, <3>1, <3>2 DEF Heap
    <3>4. heap'.fault = G
      BY <2>2, <3>1, <3>3 DEF Stale, StaleOf
    <3>5. \A x : Holders(heap', x) = Holders(h, x)
      BY <3>3 DEF Holders
    <3>6. Accounted(heap', s, exact)
      BY <1>4, <3>3, <3>5 DEF GoodHeap, Accounted
    <3>7. Nulls(heap', Unused)
      BY <1>4, <3>3 DEF GoodHeap, Nulls
    <3>8. heap'.root \subseteq heap'.live
      BY <1>4, <3>3 DEF GoodHeap
    <3> HIDE DEF G
    <3> QED BY <3>3, <3>4, <3>6, <3>7, <3>8 DEF GoodHeap
  <2> QED BY <2>1, <2>2
<1>6. depth' = depth /\ frame' = [frame EXCEPT ![depth] = f]
  BY DEF DictYield, Become
<1>7. Unused \ {Slot(x) : x \in SlotName} \subseteq Unused
  OBVIOUS
<1> HIDE DEF f, G
<1>8. GoodHeap(heap', Unused', s, G, exact)
  BY <1>1, <1>5, <1>6, <1>7, TopUnused
<1> QED BY <1>2, <1>8 DEF G

LEMMA IterationStepHeap ==
  ASSUME NEW s, NEW F, NEW exact, Ready(s, F, exact), IterationStep
  PROVE  GoodHeap(heap', Unused', s, F, exact) \/ DictYield
BY EachHeap, DictHeap DEF IterationStep

LEMMA ReachHeld ==
  ASSUME StackOK, InPython
  PROVE  Reach(heap) \in SUBSET Held(heap)
BY TopIsFunction DEF InPython, Reach, Held, SlotName, Place

\* Python returns an object, a status, or an exception.
LEMMA ResumeHeap ==
  ASSUME NEW s, NEW F, NEW exact, Ready(s, F, exact), PyReturn \/ PyDone \/ PyRaise
  PROVE  GoodHeap(heap', Unused', s, F, exact)
<1>1. /\ GoodHeap(heap, Unused, s, F, exact) /\ StackOK /\ InPython
      /\ depth \in 1..MaxDepth /\ depth \in 0..MaxDepth
      /\ \A x \in SlotName : /\ Slot(x) \in Place /\ Slot(x) \notin Ptr
                             /\ x \notin Uses(Top) => Slot(x) \in Unused
      /\ \A x, y : Slot(x) = Slot(y) => x = y
  BY TopIsFunction, HeapAssumption
     DEF Ready, PyReturn, PyDone, PyRaise, InPython, Slot
<1>2. Uses(Top) = ArgsOf(Top.kind)
  BY <1>1 DEF Uses, GotOf, Absent, InPython
<1>3. ASSUME NEW at, Resume(at), at = "raised" => "python_error" \in Ops,
             NEW x \in SlotName,
             x \in Uses([Top EXCEPT !.pc = at]) \ ArgsOf(Top.kind),
             heap' \in PyGive(heap, Slot(x), Reach(heap))
      PROVE  GoodHeap(heap', Unused', s, F, exact)
  <2> DEFINE f == [Top EXCEPT !.pc = at]
             M == Unused \ {Slot(x)}
  <2>1. Slot(x) \in Unused
    BY <1>1, <1>2, <1>3
  <2>2. heap.ref[Slot(x)] = NULL
    BY <1>1, <2>1, UnusedNull
  <2>3. Reach(heap) \in SUBSET Held(heap)
    BY <1>1, ReachHeld
  <2>4. GoodHeap(heap', M, s, F, exact)
    BY <1>1, <1>3, <2>2, <2>3, PyGiveGood
  <2>5. depth' = depth /\ frame' = [frame EXCEPT ![depth] = f]
    BY <1>1, <1>3 DEF Resume, Top, StackOK
  <2>6. \A y \in SlotName : y \notin Uses(f) => Slot(y) \in M
    <3>1. ArgsOf(Top.kind) \subseteq Uses(f)
      BY <1>1, <1>3 DEF Uses, Absent, Top, StackOK, Frame
    <3> QED BY <1>1, <1>2, <1>3, <3>1
  <2>7. Unused \ {Slot(y) : y \in SlotName} \subseteq M
    OBVIOUS
  <2> HIDE DEF f, M
  <2> QED BY <1>1, <2>4, <2>5, <2>6, <2>7, TopUnused
<1>4. CASE PyReturn
  <2>1. "result" \in Uses([Top EXCEPT !.pc = "returned"]) \ ArgsOf(Top.kind)
    BY <1>1, <1>4 DEF PyReturn, Uses, GotOf, ArgsOf, SlotName, Top, StackOK, Frame
  <2> QED BY <1>3, <1>4, <2>1 DEF PyReturn, SlotName
<1>5. ASSUME "python_error" \in Ops, Resume("raised"),
             heap' \in PyGive(heap, Slot("error"), Reach(heap))
      PROVE  GoodHeap(heap', Unused', s, F, exact)
  <2>1. "error" \in Uses([Top EXCEPT !.pc = "raised"]) \ ArgsOf(Top.kind)
    BY <1>1, <1>5 DEF Uses, GotOf, ArgsOf, SlotName, Top, StackOK, Frame
  <2> QED BY <1>3, <1>5, <2>1 DEF SlotName
<1>7. ASSUME heap.ref[Slot("callee")] = NULL, Resume("raised"), heap' = heap
      PROVE  GoodHeap(heap', Unused', s, F, exact)
  <2> DEFINE f == [Top EXCEPT !.pc = "raised"]
             M == Unused \cup {Slot("callee")}
  <2>1. Slot("callee") \in Local
    BY <1>1, LocalPlace DEF Slot, SlotName
  <2>2. GoodHeap(heap', M, s, F, exact)
    BY <1>1, <1>7, <2>1 DEF GoodHeap, Nulls
  <2>3. depth' = depth /\ frame' = [frame EXCEPT ![depth] = f]
    BY <1>1, <1>7 DEF Resume, Top, StackOK
  <2>4. \A y \in SlotName : y \notin Uses(f) => Slot(y) \in M
    <3>1. ArgsOf(Top.kind) \subseteq Uses(f) \cup {"callee"}
      BY <1>1 DEF Uses, Absent, Top, StackOK, Frame
    <3> QED BY <1>1, <1>2, <3>1
  <2>5. Unused \ {Slot(y) : y \in SlotName} \subseteq M
    OBVIOUS
  <2> HIDE DEF f, M
  <2> QED BY <1>1, <2>2, <2>3, <2>4, <2>5, TopUnused
<1>6. CASE PyDone
  <2> DEFINE f == [Top EXCEPT !.pc = "returned"]
  <2>1. GoodHeap(heap', Unused, s, F, exact)
    BY <1>1, <1>6 DEF PyDone
  <2>2. depth' = depth /\ frame' = [frame EXCEPT ![depth] = f]
    BY <1>1, <1>6 DEF PyDone, Resume, Top, StackOK
  <2>3. \A y \in SlotName : y \notin Uses(f) => Slot(y) \in Unused
    <3>1. ArgsOf(Top.kind) \subseteq Uses(f)
      BY <1>1 DEF Uses, Absent, Top, StackOK, Frame
    <3> QED BY <1>1, <1>2, <3>1
  <2>4. Unused \ {Slot(y) : y \in SlotName} \subseteq Unused
    OBVIOUS
  <2> HIDE DEF f
  <2> QED BY <1>1, <2>1, <2>2, <2>3, <2>4, TopUnused
<1> QED BY <1>4, <1>5, <1>6, <1>7 DEF PyRaise

LEMMA PythonStepHeap ==
  ASSUME NEW s, NEW F, NEW exact, Ready(s, F, exact), PythonStep
  PROVE  GoodHeap(heap', Unused', s, F, exact)
<1>0. GoodHeap(heap, Unused, s, F, exact) /\ StackOK
  BY DEF Ready
<1>1. CASE CallbackEnter
  <2>1. PICK o \in Reach(heap) : heap' \in TupleItemToRuby(heap, NextSlot("result"), o)
    BY <1>1 DEF CallbackEnter
  <2>2. /\ o \in Held(heap)
        /\ NextSlot("result") \in Local /\ NextSlot("result") \in Unused
    BY <1>0, <1>1, <2>1, ReachHeld, NextLocal DEF CallbackEnter, Push, SlotName
  <2>3. GoodHeap(heap', Unused, s, F, exact)
    BY <1>0, <2>1, <2>2, TupleItemGood
  <2> QED BY <1>1, <2>3, Enter0Heap DEF CallbackEnter
<1>2. ASSUME InRuby, Top.kind = "callback", Pop, GoodHeap(heap', Unused, s, F, exact)
      PROVE  GoodHeap(heap', Unused', s, F, exact)
  <2>1. depth \in 1..MaxDepth /\ \A x \in SlotName : Slot(x) \in Unused
    BY <1>0, <1>2, TopIsFunction DEF Uses, ArgsOf, GotOf, InRuby
  <2> QED BY <1>0, <1>2, <2>1, PopUnused
<1>3. ASSUME NEW c \in Cell
      PROVE  c \in Place /\ c \notin Ptr /\ Unused \subseteq Unused \ {c}
  BY HeapAssumption DEF Place, Unused
<1>4. ASSUME NEW c \in Cell, CallbackReturn(c)
      PROVE  GoodHeap(heap', Unused', s, F, exact)
  <2>1. GoodHeap(heap', Unused \ {c}, s, F, exact)
    BY <1>0, <1>3, <1>4, FromRubyGood DEF CallbackReturn
  <2>2. GoodHeap(heap', Unused, s, F, exact)
    BY <1>3, <2>1, FewerNulls
  <2> QED BY <1>2, <1>4, <2>2 DEF CallbackReturn
<1>5. CASE CallbackSwallow
  BY <1>0, <1>2, <1>5 DEF CallbackSwallow
<1>6. ASSUME NEW c \in Cell, PyStore(c)
      PROVE  GoodHeap(heap', Unused', s, F, exact)
  <2>1. Reach(heap) \in SUBSET Held(heap)
    BY <1>0, <1>6, ReachHeld DEF PyStore
  <2>2. GoodHeap(heap', Unused \ {c}, s, F, exact)
    BY <1>0, <1>3, <1>6, <2>1, PyGiveGood DEF PyStore
  <2> QED BY <1>3, <1>6, <2>2, SameUnused DEF PyStore
<1>7. ASSUME NEW c \in Cell, PyClear(c)
      PROVE  GoodHeap(heap', Unused', s, F, exact)
  <2>1. GoodHeap(heap', Unused, s, F, exact)
    BY <1>0, <1>3, <1>7, DropGood DEF PyClear
  <2> QED BY <1>7, <2>1, SameUnused DEF PyClear
<1> QED BY <1>1, <1>4, <1>5, <1>6, <1>7, ResumeHeap DEF PythonStep

\* Whatever step is taken, the references stay accounted for; only a dict_each
\* that converts the value it borrowed may use freed memory.
LEMMA NextHeap ==
  ASSUME NEW s, NEW F, NEW exact, Ready(s, F, exact), Next
  PROVE  \/ GoodHeap(heap', Unused', s, F, exact)
         \/ /\ DictYield /\ Top.loan \in Obj
            /\ GoodHeap(heap', Unused', s, F \cup Stale(heap, Top.loan), exact)
BY RubyStepHeap, HelperEnterHeap, HelperReturnHeap, IterationStepHeap, DictYieldHeap,
   PythonStepHeap DEF Next

-----------------------------------------------------------------------------
(* Each shape of stack change keeps the stack in order and a lent value    *)
(* where it was lent.                                                      *)

LEMMA PushOK ==
  ASSUME StackOK, LendingOK, Lends(Top) => DictRace,
         NEW k \in Kind, NEW at \in Pc \ {"key", "value"}, Asked(k, at), Push(k, at)
  PROVE  (StackOK /\ LendingOK)'
<1> DEFINE f == [kind |-> k, pc |-> at, loan |-> NULL]
<1>1. /\ depth \in Int /\ depth < MaxDepth /\ depth >= 0 /\ MaxDepth \in Int
      /\ depth' = depth + 1 /\ frame' = [frame EXCEPT ![depth + 1] = f]
      /\ frame \in [0..MaxDepth -> Frame] /\ frame[0] = MainFrame
  BY HeapAssumption DEF StackOK, Push
<1>2. f \in Frame /\ f.kind = k /\ f.pc = at /\ ~Lends(f)
  BY DEF Frame, Lends
<1> HIDE DEF f
<1>3. UsedOps'
  BY <1>1, <1>2 DEF StackOK, UsedOps, Asked, Lender
<1>4. StackOK'
  BY <1>1, <1>2, <1>3 DEF StackOK
<1>5. ~DictRace => \A d \in 0..MaxDepth : ~Lends(frame[d])
  BY <1>1 DEF LendingOK, Top
<1>6. LendingOK'
  BY <1>1, <1>2, <1>5 DEF LendingOK
<1> QED BY <1>4, <1>6

\* The function on top of the stack goes on as f; Pop makes it idle.
LEMMA TopChangeOK ==
  ASSUME StackOK, LendingOK, depth \in 1..MaxDepth, depth' \in 0..MaxDepth,
         NEW f \in Frame, frame' = [frame EXCEPT ![depth] = f],
         ~Lends(f), Asked(f.kind, f.pc)
  PROVE  (StackOK /\ LendingOK)'
<1>1. /\ depth \in 0..MaxDepth /\ depth # 0 /\ 0 \in 0..MaxDepth
      /\ frame \in [0..MaxDepth -> Frame] /\ frame[0] = MainFrame
  BY HeapAssumption DEF StackOK
<1>2. UsedOps'
  BY <1>1 DEF StackOK, UsedOps, Asked, Lender
<1>3. StackOK'
  BY <1>1, <1>2 DEF StackOK
<1>4. ~DictRace => \A d \in 0..MaxDepth : ~Lends(frame'[d])
  BY <1>1 DEF LendingOK
<1>5. LendingOK'
  BY <1>4 DEF LendingOK
<1> QED BY <1>3, <1>5

LEMMA PopOK ==
  ASSUME StackOK, LendingOK, depth \in 1..MaxDepth, Pop
  PROVE  (StackOK /\ LendingOK)'
<1>1. /\ IdleFrame \in Frame /\ ~Lends(IdleFrame)
      /\ Asked(IdleFrame.kind, IdleFrame.pc)
  BY DEF Frame, IdleFrame, Kind, Pc, Asked, Leaky, Lends
<1>2. depth' \in 0..MaxDepth /\ frame' = [frame EXCEPT ![depth] = IdleFrame]
  BY HeapAssumption DEF Pop
<1> QED BY <1>1, <1>2, TopChangeOK

LEMMA BecomeOK ==
  ASSUME StackOK, LendingOK, depth \in 1..MaxDepth,
         NEW k \in Kind, NEW at \in Pc \ {"key", "value"}, Asked(k, at), Become(k, at)
  PROVE  (StackOK /\ LendingOK)'
<1> DEFINE f == [kind |-> k, pc |-> at, loan |-> NULL]
<1>1. f \in Frame /\ ~Lends(f) /\ Asked(f.kind, f.pc)
  BY DEF Frame, Lends
<1>2. depth' \in 0..MaxDepth /\ frame' = [frame EXCEPT ![depth] = f]
  BY DEF Become, StackOK
<1> HIDE DEF f
<1> QED BY <1>1, <1>2, TopChangeOK

LEMMA ResumeOK ==
  ASSUME StackOK, LendingOK, depth \in 1..MaxDepth, InPython,
         NEW at \in {"returned", "raised"},
         at = "raised" => "python_error" \in Ops \/ "error" \in Ops, Resume(at)
  PROVE  (StackOK /\ LendingOK)'
<1> DEFINE f == [frame[depth] EXCEPT !.pc = at]
<1>1. /\ frame \in [0..MaxDepth -> Frame] /\ depth \in 0..MaxDepth
      /\ frame[depth] \in Frame /\ Asked(frame[depth].kind, frame[depth].pc)
  BY DEF StackOK, UsedOps
<1>2. f \in Frame /\ f.pc = at /\ f.kind = frame[depth].kind /\ ~Lends(f)
  BY <1>1 DEF Frame, Pc, Lends
<1>3. Asked(f.kind, f.pc)
  BY <1>1, <1>2 DEF Asked, InPython, Top
<1>4. depth' = depth /\ frame' = [frame EXCEPT ![depth] = f]
  BY <1>1 DEF Resume
<1> HIDE DEF f
<1> QED BY <1>1, <1>2, <1>3, <1>4, TopChangeOK

LEMMA SameStackOK ==
  ASSUME StackOK, LendingOK, UNCHANGED <<depth, frame>>,
         Lends(Top) => DictRace \/ Lent(heap) \subseteq Lent(heap')
  PROVE  (StackOK /\ LendingOK)'
<1>1. StackOK'
  BY DEF StackOK, UsedOps, Lender
<1>2. LendingOK'
  BY DEF LendingOK, Top
<1> QED BY <1>1, <1>2

\* Only a dict_each has a value lent.
LEMMA LenderIsDict ==
  ASSUME StackOK, LendingOK, Lends(Top)
  PROVE  /\ "dict_each" \in Ops /\ depth \in 1..MaxDepth
         /\ Top.kind = "dict" /\ Top.loan \in Obj
         /\ ~DictRace => Top.loan \in Lent(heap)
<1>1. /\ depth \in 0..MaxDepth /\ Lender(frame[depth])
      /\ Asked(frame[depth].kind, frame[depth].pc)
  BY DEF StackOK, UsedOps
<1>2. Top.kind = "dict" /\ Top.loan \in Obj /\ "dict_each" \in Ops
  BY <1>1 DEF Lender, Asked, Top
<1>3. depth \in 1..MaxDepth
  BY <1>2, TopIsFunction
<1> QED BY <1>1, <1>2, <1>3 DEF LendingOK, Top

LEMMA FreeKeepsLent ==
  ASSUME NEW h \in Heap, NEW p \in Ptr
  PROVE  Lent(PtrFree(h, p)) = Lent(h)
<1>1. \A c \in Cell : PtrFree(h, p).ref[c] = h.ref[c]
  <2>1. CASE h.ref[p] = NULL
    BY <2>1 DEF PtrFree, Drop, Heap
  <2>2. CASE h.ref[p] # NULL
    <3>1. PtrFree(h, p).ref = [h.ref EXCEPT ![p] = NULL]
      BY <2>2 DEF PtrFree, Drop, Heap
    <3>2. h.ref \in [Place -> Obj \cup {NULL}] /\ \A c \in Cell : c \in Place /\ c # p
      BY HeapRecord, HeapAssumption DEF Place
    <3> QED BY <3>1, <3>2
  <2> QED BY <2>1, <2>2
<1> QED BY <1>1 DEF Lent

LEMMA RubyStepStack ==
  ASSUME heap \in Heap, StackOK, LendingOK, RubyStep
  PROVE  (StackOK /\ LendingOK)'
<1>1. ASSUME NEW p \in Ptr, Unroot(p)
      PROVE  (StackOK /\ LendingOK)'
  <2>1. heap'.ref = heap.ref
    BY <1>1 DEF Unroot, Heap
  <2> QED BY <1>1, <2>1, SameStackOK DEF Unroot, Lent
<1>2. ASSUME NEW p \in Ptr, Collect(p)
      PROVE  (StackOK /\ LendingOK)'
  BY <1>2, FreeKeepsLent, SameStackOK DEF Collect
<1>3. ASSUME NEW p \in Ptr, NEW c \in Cell, CollectRunsFinalizer(p, c)
      PROVE  (StackOK /\ LendingOK)'
  <2>1. Lends(Top) => DictRace
    BY <1>3, LenderIsDict DEF CollectRunsFinalizer, DictRace
  <2> QED BY <1>3, <2>1, SameStackOK DEF CollectRunsFinalizer
<1>4. ASSUME Top.pc = "ruby", UNCHANGED <<depth, frame>>
      PROVE  (StackOK /\ LendingOK)'
  BY <1>4, SameStackOK DEF Lends
<1> QED BY <1>1, <1>2, <1>3, <1>4
        DEF RubyStep, PtrDecref, PtrIncref, BuiltinsModulePtr, ConvFromRuby,
            ConvToRuby, TupleNew, TupleToA, CanEnter, CanCall, InRuby

LEMMA HelperEnterStack ==
  ASSUME StackOK, LendingOK, HelperEnter
  PROVE  (StackOK /\ LendingOK)'
<1>1. ASSUME NEW k \in Kind \ {"dict", "convert", "kwargs"}, k \in Leaky => k \in Ops,
             Top.pc = "ruby", Push(k, "python")
      PROVE  (StackOK /\ LendingOK)'
  <2>1. Asked(k, "python")
    BY <1>1 DEF Asked
  <2> QED BY <1>1, <2>1, PushOK DEF Pc, Lends
<1>2. ASSUME NEW k \in Kind \ {"dict", "convert", "kwargs"}, NEW h, Enter(k, h)
      PROVE  (StackOK /\ LendingOK)'
  BY <1>1, <1>2 DEF Enter, CanEnter, CanCall, InRuby
<1>3. CASE SetitemEnter \/ CallEnter
  BY <1>2, <1>3 DEF SetitemEnter, CallEnter, Kind
<1>4. CASE CallKwargsEnter
  <2>1. Asked("kwargs", "raised")
    BY <1>4 DEF Asked, CallKwargsEnter, Leaky
  <2> QED BY <1>4, <2>1, PushOK
          DEF CallKwargsEnter, CanEnter, CanCall, InRuby, Kind, Pc, Lends
<1>5. CASE CallConversionRaises
  BY <1>5, SameStackOK DEF CallConversionRaises, CanEnter, CanCall, InRuby, Lends
<1>6. CASE DictEnter
  <2>1. Asked("dict", "next")
    BY <1>6 DEF Asked, DictEnter, CanEnter, CanCall, Leaky
  <2> QED BY <1>6, <2>1, PushOK DEF DictEnter, CanEnter, CanCall, InRuby, Kind, Pc, Lends
<1>7. CASE WrapperMethodEnter \/ EachEnter
  BY <1>1, <1>7 DEF WrapperMethodEnter, EachEnter, CanEnter, CanCall, InRuby, Kind, Leaky
<1>8. ASSUME NEW k \in Kind \ {"dict", "convert", "kwargs"}, Enter1(k)
      PROVE  (StackOK /\ LendingOK)'
  BY <1>2, <1>8 DEF Enter1
<1> QED BY <1>2, <1>3, <1>4, <1>5, <1>6, <1>7, <1>8
        DEF HelperEnter, GetattrEnter, SetattrEnter, DelattrEnter,
            DefineMethodEnter, GetitemEnter, DelitemEnter, ContainsEnter,
            CompareEnter, StrEnter, DirEnter, ImportModuleEnter,
            ImportModuleLevelEnter, WrapperSetEnter, Kind

LEMMA HelperReturnStack ==
  ASSUME StackOK, LendingOK, HelperReturn
  PROVE  (StackOK /\ LendingOK)'
<1>1. Top.pc # "ruby"
  BY DEF HelperReturn, Back, GetattrReturn, SetattrReturn, DelattrReturn,
         DefineMethodReturn, GetitemReturn, SetitemReturn, DelitemReturn,
         ContainsReturn, CompareReturn, StrReturn, DirReturn,
         ImportModuleReturn, ImportModuleLevelReturn, CallReturn,
         CallKwargsRaise, WrapperMethodGet, WrapperMethodCall, WrapperSetReturn
<1>2. depth \in 1..MaxDepth
  BY <1>1, TopIsFunction
<1>3. CASE WrapperMethodCall
  <2>1. Asked("call", "python")
    BY DEF Asked, Leaky
  <2> QED BY <1>2, <1>3, <2>1, BecomeOK DEF WrapperMethodCall, Kind, Pc
<1>4. CASE Pop
  BY <1>2, <1>4, PopOK
<1> QED BY <1>3, <1>4
        DEF HelperReturn, GetattrReturn, SetattrReturn, DelattrReturn,
            DefineMethodReturn, GetitemReturn, SetitemReturn, DelitemReturn,
            ContainsReturn, CompareReturn, StrReturn, DirReturn,
            ImportModuleReturn, ImportModuleLevelReturn, CallReturn,
            CallKwargsRaise, WrapperMethodGet, WrapperSetReturn

LEMMA DictNextStack ==
  ASSUME heap \in Heap, StackOK, LendingOK,
         NEW key \in Lent(heap) \cup {NULL}, NEW value \in Lent(heap), DictNext(key, value)
  PROVE  (StackOK /\ LendingOK)'
<1> DEFINE at == IF key \in ByValue THEN "value" ELSE "key"
           f == [kind |-> "dict", pc |-> at, loan |-> value]
<1>1. /\ depth \in 1..MaxDepth /\ depth \in 0..MaxDepth /\ depth # 0
      /\ frame \in [0..MaxDepth -> Frame] /\ frame[0] = MainFrame
      /\ frame[depth].kind = "dict" /\ ~Lends(frame[depth])
  BY TopIsFunction DEF DictNext, AtDictNext, StackOK, Top, Lends
<1>2. value \in Obj
  BY HeapRecord DEF Lent, Place
<1>3. value \in Lent(heap')
  <2>1. PICK c \in Cell : value = heap.ref[c] /\ c \in Place
    BY DEF Lent, Place
  <2>2. heap'.ref[c] = heap.ref[c]
    <3>1. CASE heap' = heap
      BY <3>1
    <3>2. CASE \E p \in Ptr : heap' = Take(Wrap(heap, p), p, key)
      <4>1. PICK p \in Ptr : heap' = Take(Wrap(heap, p), p, key)
        BY <3>2
      <4>2. heap'.ref = [heap.ref EXCEPT ![p] = key]
        BY <1>1, <4>1 DEF Take, Bump, Borrow, Wrap, Heap
      <4>3. heap.ref \in [Place -> Obj \cup {NULL}] /\ c # p
        BY <1>1, HeapRecord, HeapAssumption
      <4> QED BY <2>1, <4>2, <4>3
    <3> QED BY <3>1, <3>2 DEF DictNext, ToRuby
  <2> QED BY <1>2, <2>1, <2>2, HeapAssumption DEF Lent
<1>4. depth' = depth /\ frame' = [frame EXCEPT ![depth] = f]
  BY <1>1 DEF DictNext, Frame
<1>5. f \in Frame /\ f.pc \in {"key", "value"} /\ f.loan = value /\ f.kind = "dict"
  BY <1>1, <1>2 DEF Frame, Pc, Kind
<1> HIDE DEF f
<1>6. UsedOps'
  <2>1. Asked(f.kind, f.pc) /\ Lender(f)
    BY <1>1, <1>2, <1>5 DEF StackOK, UsedOps, Asked, Lender
  <2> QED BY <1>1, <1>4, <2>1 DEF StackOK, UsedOps, Asked, Lender
<1>7. StackOK'
  BY <1>1, <1>4, <1>5, <1>6 DEF StackOK
<1>8. LendingOK'
  BY <1>1, <1>3, <1>4, <1>5 DEF LendingOK
<1> QED BY <1>7, <1>8

LEMMA IterationStepStack ==
  ASSUME heap \in Heap, StackOK, LendingOK, IterationStep
  PROVE  (StackOK /\ LendingOK)'
<1>1. Top.kind \in {"iter", "each", "dict", "convert"} => depth \in 1..MaxDepth
  BY TopIsFunction
<1>2. Asked("each", "python") /\ Asked("each", "ruby")
  BY DEF Asked, Leaky
<1>3. CASE EachIter
  BY <1>1, <1>2, <1>3, PopOK, BecomeOK DEF EachIter, Back, Kind, Pc
<1>4. CASE EachYield
  BY <1>1, <1>2, <1>4, BecomeOK DEF EachYield, Back, Kind, Pc
<1>5. CASE EachNext
  BY <1>1, <1>2, <1>5, BecomeOK DEF EachNext, Kind, Pc
<1>6. CASE EachEnd
  BY <1>1, <1>6, PopOK DEF EachEnd, Back
<1>7. CASE EachBreak
  BY <1>1, <1>7, PopOK DEF EachBreak
<1>8. CASE DictYield
  <2>1. Asked("dict", "ruby")
    BY <1>8, LenderIsDict DEF DictYield, Asked, Leaky, Lends
  <2> QED BY <1>1, <1>8, <2>1, BecomeOK DEF DictYield, Kind, Pc
<1>9. CASE DictEnd
  BY <1>1, <1>9, PopOK DEF DictEnd
<1>10. ASSUME NEW at \in {"python", "ruby"}, KeyConversionEnter(at)
       PROVE  (StackOK /\ LendingOK)'
  <2>1. Asked("convert", at) /\ Lends(Top)
    BY <1>10 DEF KeyConversionEnter, Asked, Leaky, Lends
  <2>2. DictRace
    BY <1>10, <2>1, LenderIsDict DEF KeyConversionEnter, DictRace
  <2> QED BY <1>10, <2>1, <2>2, PushOK DEF KeyConversionEnter, Kind, Pc
<1>11. CASE KeyConversionReturn
  BY <1>1, <1>11, PopOK DEF KeyConversionReturn
<1> QED BY <1>3, <1>4, <1>5, <1>6, <1>7, <1>8, <1>9, <1>10, <1>11, DictNextStack
        DEF IterationStep

LEMMA PythonStepStack ==
  ASSUME StackOK, LendingOK, PythonStep
  PROVE  (StackOK /\ LendingOK)'
<1>1. InPython \/ Top.kind = "callback" => depth \in 1..MaxDepth
  BY TopIsFunction DEF InPython
<1>2. CASE CallbackEnter
  <2>1. Asked("callback", "ruby")
    BY DEF Asked, Leaky
  <2> QED BY <1>2, <2>1, PushOK DEF CallbackEnter, InPython, Kind, Pc, Lends
<1>3. ASSUME NEW c \in Cell, CallbackReturn(c)
      PROVE  (StackOK /\ LendingOK)'
  BY <1>1, <1>3, PopOK DEF CallbackReturn
<1>4. CASE CallbackSwallow
  BY <1>1, <1>4, PopOK DEF CallbackSwallow
<1>5. ASSUME NEW c \in Cell, PyStore(c) \/ PyClear(c)
      PROVE  (StackOK /\ LendingOK)'
  BY <1>5, SameStackOK DEF PyStore, PyClear, InPython, Lends
<1>6. CASE PyReturn \/ PyDone \/ PyRaise
  BY <1>1, <1>6, ResumeOK DEF PyReturn, PyDone, PyRaise
<1> QED BY <1>2, <1>3, <1>4, <1>5, <1>6 DEF PythonStep

-----------------------------------------------------------------------------
(* The invariant.                                                          *)

LEMMA InitIInv == Init => IInv
<1> SUFFICES ASSUME Init PROVE IInv
  OBVIOUS
<1>1. /\ heap \in Heap /\ heap.root \subseteq heap.live /\ heap.fault = {}
      /\ \A p \in Place : heap.ref[p] = NULL
      /\ \A o \in Obj : heap.cnt[o] = 0
  BY DEF Init, EmptyHeap, Heap
<1>2. ASSUME NEW o \in Obj
      PROVE  Cardinality(Holders(heap, o)) = 0
  <2>1. Holders(heap, o) = {}
    BY <1>1, HeapAssumption DEF Holders
  <2> QED BY <2>1, FS_EmptySet
<1>3. Accounted(heap, NoLeaks, Counted)
  BY <1>1, <1>2 DEF Accounted, NoLeaks
<1>4. Nulls(heap, Unused)
  BY <1>1 DEF Nulls, Unused, Place
<1>5. /\ MainFrame \in Frame /\ IdleFrame \in Frame
      /\ Asked(MainFrame.kind, MainFrame.pc) /\ Asked(IdleFrame.kind, IdleFrame.pc)
  BY DEF Frame, MainFrame, IdleFrame, Kind, Pc, Asked, Leaky
<1>6. StackOK
  BY <1>5, HeapAssumption DEF Init, StackOK, UsedOps, Lender, Lends, MainFrame, IdleFrame
<1>7. LendingOK
  BY DEF Init, LendingOK, Lends, MainFrame, IdleFrame
<1> QED BY <1>1, <1>3, <1>4, <1>6, <1>7 DEF IInv, Ready, GoodHeap

\* A step keeps any leaks there are, and makes none if the program asks for
\* none.
LEMMA NextReady ==
  ASSUME NEW s, NEW F, NEW exact, Ready(s, F, exact), Next
  PROVE  /\ GoodHeap(heap', Unused', s, heap'.fault, exact)
         /\ StackOK' /\ LendingOK'
<1>1. heap \in Heap /\ StackOK /\ LendingOK
  BY DEF Ready, GoodHeap
<1>2. (StackOK /\ LendingOK)'
  BY <1>1, RubyStepStack, HelperEnterStack, HelperReturnStack,
     IterationStepStack, PythonStepStack DEF Next
<1>3. \E G : GoodHeap(heap', Unused', s, G, exact)
  BY NextHeap
<1>4. GoodHeap(heap', Unused', s, heap'.fault, exact)
  BY <1>3 DEF GoodHeap
<1> QED BY <1>2, <1>4

\* A step that uses freed memory converts a value that dict_each borrowed and
\* that nothing holds any more; there is none without a race.
LEMMA NextFault ==
  ASSUME NEW s, NEW exact, Ready(s, heap.fault, exact), Next, heap'.fault # heap.fault
  PROVE  /\ DictYield /\ DictRace /\ Top.loan \notin Lent(heap)
         /\ heap'.fault = heap.fault \cup {Top.loan}
<1>1. ~GoodHeap(heap', Unused', s, heap.fault, exact)
  BY DEF GoodHeap
<1>2. /\ DictYield /\ Top.loan \in Obj
      /\ GoodHeap(heap', Unused', s, heap.fault \cup Stale(heap, Top.loan), exact)
  BY <1>1, NextHeap
<1>3. heap'.fault = heap.fault \cup Stale(heap, Top.loan)
  BY <1>2 DEF GoodHeap
<1>4. ~(heap.cnt[Top.loan] > 0) /\ Stale(heap, Top.loan) = {Top.loan}
  BY <1>3 DEF Stale
<1>5. GoodHeap(heap, Unused, s, heap.fault, exact)
  BY DEF Ready
<1>6. Top.loan \notin Lent(heap)
  BY <1>4, <1>5, HeldIsCounted DEF Lent, Place
<1>7. StackOK /\ LendingOK /\ Lends(Top)
  BY <1>2 DEF Ready, DictYield, Lends
<1> QED BY <1>2, <1>3, <1>4, <1>6, <1>7, LenderIsDict

LEMMA NextIInv ==
  ASSUME IInv, [Next]_vars
  PROVE  IInv'
<1>1. CASE Next
  <2>1. GoodHeap(heap', Unused', NoLeaks, heap'.fault, Counted) /\ StackOK' /\ LendingOK'
    BY <1>1, NextReady DEF IInv
  <2>2. NoLeaks' = NoLeaks /\ Counted' = Counted
    BY DEF NoLeaks, Counted, Leaky
  <2>3. ~DictRace => heap'.fault = {}
    BY <1>1, NextFault DEF IInv
  <2>4. (~DictRace => heap.fault = {})'
    BY <2>3 DEF DictRace
  <2> QED BY <2>1, <2>2, <2>4 DEF IInv, Ready
<1>2. CASE UNCHANGED vars
  BY <1>2 DEF vars, IInv, Ready, StackOK, UsedOps, Asked, Lender, Lends, LendingOK,
              Unused, Uses, NoLeaks, Counted, DictRace
<1> QED BY <1>1, <1>2

\* Every program keeps the invariant, whatever it calls and in whatever order.
THEOREM Invariance == Spec => []IInv
<1>1. Init => IInv
  BY InitIInv
<1>2. IInv /\ [Next]_vars => IInv'
  BY NextIInv
<1> QED BY <1>1, <1>2, PTL DEF Spec

-----------------------------------------------------------------------------
(* The theorems.                                                           *)

\* The types of PyRefs, and ob_refcnt never below zero.
THEOREM TypeCorrect == Spec => []TypeOK
<1>1. IInv => TypeOK
  BY DEF IInv, Ready, StackOK, GoodHeap, Accounted, TypeOK
<1> QED BY <1>1, Invariance, PTL

\* Every PyPtr, container slot and C local that will release an object is
\* counted by it.
THEOREM OwnersAreCounted == Spec => []Owned
<1>1. ASSUME IInv, NEW o \in Obj
      PROVE  heap.cnt[o] >= Cardinality(Holders(heap, o))
  BY <1>1, HoldersFinite DEF IInv, Ready, GoodHeap, Accounted, NoLeaks
<1>2. IInv => Owned
  BY <1>1 DEF Owned, OwnedHeap
<1> QED BY <1>2, Invariance, PTL

\* pycall never touches a Python object that has been freed, if the program
\* does not call Dict#each, or if neither its finalizers nor the conversions of
\* its keys run code.
THEOREM MemorySafety ==
  ASSUME ~DictRace
  PROVE  Spec => []NoUseAfterFree
<1>1. IInv => NoUseAfterFree
  BY DEF IInv, NoUseAfterFree
<1> QED BY <1>1, Invariance, PTL

\* Any program touches a freed object only where Dict#each converts a value
\* that it borrowed and that no container holds any more.
THEOREM OnlyDictLoansFault == Spec => OnlyLoansGoStale
<1>1. ASSUME IInv, Next, heap'.fault # heap.fault
      PROVE  /\ Top.kind = "dict" /\ Top.pc \in {"key", "value"}
             /\ heap'.fault = heap.fault \cup {Top.loan}
             /\ Top.loan \notin Lent(heap)
  BY <1>1, NextFault DEF IInv, DictYield
<1>2. IInv /\ [Next]_vars =>
        [heap'.fault # heap.fault => /\ Top.kind = "dict" /\ Top.pc \in {"key", "value"}
                                     /\ heap'.fault = heap.fault \cup {Top.loan}
                                     /\ Top.loan \notin Lent(heap)]_vars
  BY <1>1
<1> QED BY <1>2, Invariance, PTL DEF Spec, OnlyLoansGoStale

\* A function that has left the C stack, normally, by a Ruby exception or by a
\* break, has no local left that points at an object.
THEOREM LocalsDieWithTheirFunction == Spec => []NoStrayLocals
<1>1. ASSUME IInv, NEW d \in 1..MaxDepth, NEW x \in SlotName, d > depth
      PROVE  heap.ref[<<d, x>>] = NULL
  BY <1>1, UnusedAt, UnusedNull DEF IInv, Ready
<1>2. IInv => NoStrayLocals
  BY <1>1 DEF NoStrayLocals
<1> QED BY <1>2, Invariance, PTL

\* A program that calls no leaky entry point frees every object with its last
\* owner: PyPtrs, items and running functions account for every count, also
\* when Python raises; the exceptions themselves, of which pycall forgets the
\* reference it fetched, are outside Obj then.
THEOREM NothingLeaks ==
  ASSUME Ops \cap Leaky = {}
  PROVE  Spec => []Balanced
<1>1. ASSUME IInv, NEW o \in Obj
      PROVE  heap.cnt[o] = Cardinality(Holders(heap, o))
  <2>1. /\ heap.cnt[o] \in Nat
        /\ heap.cnt[o] >= Cardinality(Holders(heap, o)) + 0
        /\ heap.cnt[o] <= Cardinality(Holders(heap, o)) + 0
    BY <1>1 DEF IInv, Ready, GoodHeap, Accounted, NoLeaks, Counted
  <2> QED BY <2>1, HoldersFinite
<1>2. IInv => Balanced
  BY <1>1 DEF Balanced, BalancedHeap
<1> QED BY <1>2, Invariance, PTL

\* A leaked reference is never released, whatever the program does: no other
\* function can free the object under its owners.
THEOREM LeaksAreForEver == Spec => LeaksStay
<1>1. ASSUME IInv, Next, NEW o \in Obj
      PROVE  Surplus(heap', o) >= Surplus(heap, o)
  <2>1. \E s : s = [x \in Obj |-> Surplus(heap, x)]
    OBVIOUS
  <2>2. PICK s : s = [x \in Obj |-> Surplus(heap, x)]
    BY <2>1
  <2>3. ASSUME NEW x \in Obj
        PROVE  /\ s[x] \in Nat /\ heap.cnt[x] \in Nat
               /\ heap.cnt[x] >= Cardinality(Holders(heap, x)) + s[x]
    <3>1. /\ heap.cnt[x] \in Nat
          /\ heap.cnt[x] >= Cardinality(Holders(heap, x)) + 0
      BY <1>1 DEF IInv, Ready, GoodHeap, Accounted, NoLeaks
    <3> QED BY <2>2, <3>1, HoldersFinite DEF Surplus
  <2>4. Accounted(heap, s, FALSE)
    BY <2>3 DEF Accounted
  <2>5. Ready(s, heap.fault, FALSE)
    BY <1>1, <2>4 DEF IInv, Ready, GoodHeap
  <2>6. GoodHeap(heap', Unused', s, heap'.fault, FALSE)
    BY <1>1, <2>5, NextReady
  <2>7. heap'.cnt[o] \in Nat /\ heap'.cnt[o] >= Cardinality(Holders(heap', o)) + s[o]
    BY <2>6 DEF GoodHeap, Accounted
  <2> QED BY <2>2, <2>3, <2>7, HoldersFinite DEF Surplus
<1>2. IInv /\ [Next]_vars => [\A o \in Obj : Surplus(heap', o) >= Surplus(heap, o)]_vars
  BY <1>1
<1> QED BY <1>2, Invariance, PTL DEF Spec, LeaksStay

=============================================================================
