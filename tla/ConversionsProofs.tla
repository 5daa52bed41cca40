-------------------------- MODULE ConversionsProofs --------------------------
(***************************************************************************)
(* Ranges and numbers of any size, lists and Arrays of any length, words   *)
(* of any width: the properties of Conversions and of Values for every     *)
(* value of their constants.                                               *)
(***************************************************************************)
EXTENDS Values, FiniteSetTheorems, TLAPS

LEMMA LongIsInt == MaxLong \in Nat /\ MinLong \in Int /\ Long \subseteq Int
BY LongAssumption DEF Long, MinLong

LEMMA FromRubyLong ==
  ASSUME NEW n \in Long \cup {None}
  PROVE  FromRuby(n) = n
BY LongAssumption, LongIsInt DEF FromRuby

\* Arithmetic that stays within a long does not wrap around.
LEMMA WrapLong ==
  ASSUME NEW n \in Long
  PROVE  Wrap(n) = n
<1>1. n - MinLong \in 0..2 * MaxLong + 1
  BY LongIsInt DEF MinLong, Long
<1>2. (n - MinLong) % (2 * MaxLong + 2) = n - MinLong
  BY <1>1, LongIsInt
<1>3. QED
  BY <1>2, LongIsInt DEF Wrap

\* A Fixnum shifted left by one is still a long.
LEMMA FixnumIsExact ==
  ASSUME NEW n \in Fixnum
  PROVE  LONG2FIX(n) = n /\ n \in Long /\ n # None
<1>1. n \in Int /\ 2 * n \in Long /\ n \in Long
  BY LongIsInt DEF Fixnum, Long
<1>2. Wrap(2 * n) = 2 * n
  BY <1>1, WrapLong
<1>3. QED
  BY <1>1, <1>2, LongAssumption DEF LONG2FIX

\* The stop of a slice, given that there is a long for it.
LEMMA StopIsLong ==
  ASSUME NEW k \in Key, Converts(k), Fits(k)
  PROVE  /\ Stop(k) \in Long \cup {None}
         /\ k.end = None => Stop(k) = None
         /\ k.end # None /\ k.exclude_end => Stop(k) = k.end
         /\ k.end # None /\ ~k.exclude_end /\ Descends(k) =>
              Stop(k) = IF k.end = 0 THEN None ELSE k.end - 1
         /\ k.end # None /\ ~k.exclude_end /\ ~Descends(k) =>
              Stop(k) = IF k.end = -1 THEN None ELSE k.end + 1
<1>1. k.end \in Long \cup {None} /\ k.exclude_end \in BOOLEAN
  BY DEF Key, Fits
<1>2. CASE k.end = None \/ k.exclude_end
  BY <1>1, <1>2, LongAssumption DEF Stop
<1>3. CASE k.end # None /\ ~k.exclude_end /\ Descends(k)
  <2>1. k.end \in Long /\ k.end # MinLong
    BY <1>1, <1>3 DEF Fits
  <2>2. k.end - 1 \in Long
    BY <2>1, LongIsInt DEF Long
  <2>3. QED
    BY <1>3, <2>1, <2>2, WrapLong DEF Stop
<1>4. CASE k.end # None /\ ~k.exclude_end /\ ~Descends(k)
  <2>1. k.end \in Long /\ k.end # MaxLong
    BY <1>1, <1>4 DEF Fits
  <2>2. k.end + 1 \in Long
    BY <2>1, LongIsInt DEF Long
  <2>3. QED
    BY <1>4, <2>1, <2>2, WrapLong DEF Stop
<1>5. QED
  BY <1>1, <1>2, <1>3, <1>4

\* The conversion of a key and its use on a list of length n.
LEMMA SliceMeant ==
  ASSUME NEW k \in Key, NEW n \in Nat, Converts(k), k.step # 0, Fits(k)
  PROVE  Items(SliceFromRuby(k), n) = Meant(k, n)
<1> DEFINE s == SliceFromRuby(k)
<1>1. /\ k.begin \in Int \cup {None} /\ k.end \in Int \cup {None}
      /\ k.step \in Int \cup {None} /\ k.exclude_end \in BOOLEAN
  BY LongIsInt DEF Key, Fits, Converts
<1>2. s.start = k.begin /\ s.step = k.step /\ s.stop = Stop(k)
  BY FromRubyLong, StopIsLong DEF SliceFromRuby, Fits, Converts
<1>3. None \notin Int
  BY LongAssumption
<1>4. CASE Descends(k)
  <2>1. k.step \in Int /\ k.step < 0 /\ k.step # None
    BY <1>1, <1>4 DEF Descends
  <2>2. ASSUME NEW i \in 0..n - 1
        PROVE  i \in Items(s, n) <=> i \in Meant(k, n)
    <3> DEFINE b == Position(k.begin, n)
               e == Position(k.end, n)
               start == IF k.begin = None THEN n - 1
                        ELSE Adjust(k.begin, n, -1, n - 1)
               stop == IF Stop(k) = None THEN -1 ELSE Adjust(Stop(k), n, -1, n - 1)
               before == IF k.begin = None THEN n - 1 - i
                         ELSE (IF b >= n THEN n - 1 ELSE b) - i
               within == IF k.end = None THEN TRUE
                         ELSE \/ i = e /\ ~k.exclude_end
                              \/ i > e
    <3>1. i \in Items(s, n) <=> stop < i /\ i <= start /\ (start - i) % (-k.step) = 0
      BY <1>2, <2>1 DEF Items
    <3>2. i \in Meant(k, n) <=> before >= 0 /\ before % (-k.step) = 0 /\ within
      BY <2>1 DEF Meant
    <3>3. i <= start <=> before >= 0
      BY <1>1, <1>3 DEF Adjust, Position
    <3>4. before >= 0 => start - i = before
      BY <1>1, <1>3 DEF Adjust, Position
    <3>5. stop < i <=> within
      <4>1. CASE k.end = None
        BY <4>1, StopIsLong
      <4>2. CASE k.end # None /\ k.exclude_end
        BY <4>2, <1>1, <1>3, StopIsLong DEF Adjust, Position
      <4>3. CASE k.end # None /\ ~k.exclude_end
        <5>1. Stop(k) = IF k.end = 0 THEN None ELSE k.end - 1
          BY <4>3, <1>4, StopIsLong
        <5>2. k.end \in Int
          BY <4>3, <1>1
        <5>3. CASE k.end = 0
          BY <5>1, <5>3, <4>3, <1>3 DEF Position
        <5>4. CASE k.end # 0
          BY <5>1, <5>2, <5>4, <4>3, <1>3 DEF Adjust, Position
        <5>5. QED
          BY <5>3, <5>4
      <4>4. QED
        BY <4>1, <4>2, <4>3, <1>1
    <3>6. QED
      BY <3>1, <3>2, <3>3, <3>4, <3>5
  <2>3. QED
    BY <2>2 DEF Items, Meant
<1>5. CASE ~Descends(k)
  <2> DEFINE step == IF k.step = None THEN 1 ELSE k.step
  <2>1. step \in Int /\ step > 0
    BY <1>1, <1>5 DEF Descends
  <2>2. ASSUME NEW i \in 0..n - 1
        PROVE  i \in Items(s, n) <=> i \in Meant(k, n)
    <3> DEFINE b == Position(k.begin, n)
               e == Position(k.end, n)
               start == IF k.begin = None THEN 0 ELSE Adjust(k.begin, n, 0, n)
               stop == IF Stop(k) = None THEN n ELSE Adjust(Stop(k), n, 0, n)
               before == IF k.begin = None THEN i
                         ELSE i - (IF b < 0 THEN 0 ELSE b)
               within == IF k.end = None THEN TRUE
                         ELSE \/ i = e /\ ~k.exclude_end
                              \/ i < e
    <3>1. i \in Items(s, n) <=> start <= i /\ i < stop /\ (i - start) % step = 0
      BY <1>2, <2>1 DEF Items
    <3>2. i \in Meant(k, n) <=> before >= 0 /\ before % step = 0 /\ within
      BY <2>1 DEF Meant
    <3>3. start <= i <=> before >= 0
      BY <1>1, <1>3 DEF Adjust, Position
    <3>4. before >= 0 => i - start = before
      BY <1>1, <1>3 DEF Adjust, Position
    <3>5. i < stop <=> within
      <4>1. CASE k.end = None
        BY <4>1, StopIsLong
      <4>2. CASE k.end # None /\ k.exclude_end
        BY <4>2, <1>1, <1>3, StopIsLong DEF Adjust, Position
      <4>3. CASE k.end # None /\ ~k.exclude_end
        <5>1. Stop(k) = IF k.end = -1 THEN None ELSE k.end + 1
          BY <4>3, <1>5, StopIsLong
        <5>2. k.end \in Int
          BY <4>3, <1>1
        <5>3. CASE k.end = -1
          BY <5>1, <5>3, <4>3, <1>3 DEF Position
        <5>4. CASE k.end # -1
          BY <5>1, <5>2, <5>4, <4>3, <1>3 DEF Adjust, Position
        <5>5. QED
          BY <5>3, <5>4
      <4>4. QED
        BY <4>1, <4>2, <4>3, <1>1
    <3>6. QED
      BY <3>1, <3>2, <3>3, <3>4, <3>5
  <2>3. QED
    BY <2>2 DEF Items, Meant
<1>6. QED
  BY <1>4, <1>5

-----------------------------------------------------------------------------
(* What every state keeps: the last slice is what its key was made into.    *)

SliceKept ==
  last.op = "slice" =>
    /\ last.key \in Key /\ last.of \in Nat
    /\ last.items = IF Failed(last.key) THEN {}
                    ELSE Items(SliceFromRuby(last.key), last.of)

IInv == length \in Nat /\ SliceKept /\ NumbersSurvive

\* Deleting a slice leaves a list that is not shorter than nothing.
LEMMA ItemsOfTheList ==
  ASSUME NEW s, NEW n \in Nat
  PROVE  /\ n - Cardinality(Items(s, n)) \in Nat
         /\ n - Cardinality({}) \in Nat
<1>1. IsFiniteSet(0..n - 1) /\ Cardinality(0..n - 1) = n
  BY FS_Interval
<1>2. Items(s, n) \subseteq 0..n - 1
  BY DEF Items
<1>3. Cardinality(Items(s, n)) \in Nat /\ Cardinality(Items(s, n)) <= n
  BY <1>1, <1>2, FS_Subset, FS_CardinalityType
<1>4. Cardinality({}) = 0
  BY FS_EmptySet
<1>5. QED
  BY <1>3, <1>4

LEMMA InitIInv == Init => IInv
BY LongAssumption DEF Init, IInv, SliceKept, NumbersSurvive, NoConversion

LEMMA TakenKept ==
  ASSUME IInv, NEW k \in Key, last' = Taken(k)
  PROVE  SliceKept' /\ NumbersSurvive'
BY DEF Taken, IInv, SliceKept, NumbersSurvive

LEMMA NextIInv == IInv /\ [Next]_vars => IInv'
<1> SUFFICES ASSUME IInv, [Next]_vars
             PROVE  IInv'
  OBVIOUS
<1>1. ASSUME NEW k \in Key, GetItem(k)
      PROVE  IInv'
  BY <1>1, TakenKept DEF GetItem, IInv
<1>2. ASSUME NEW k \in Key, DelItem(k)
      PROVE  IInv'
  <2>1. length' = length - Cardinality(Taken(k).items) /\ last' = Taken(k)
    BY <1>2 DEF DelItem
  <2>2. length' \in Nat
    BY <2>1, ItemsOfTheList DEF Taken, IInv
  <2>3. QED
    BY <2>1, <2>2, TakenKept DEF IInv
<1>3. ASSUME NEW n \in Number, Send(n)
      PROVE  IInv'
  <2>1. n \in Fixnum => FromRuby(n) = n
    BY FixnumIsExact, FromRubyLong
  <2>2. FromRuby(n) \in {n, None}
    BY DEF FromRuby
  <2>3. QED
    BY <1>3, <2>1, <2>2 DEF Send, Carried, IInv, SliceKept, NumbersSurvive
<1>4. ASSUME NEW n \in Number, Compute(n)
      PROVE  IInv'
  BY <1>4 DEF Compute, Carried, IInv, SliceKept, NumbersSurvive
<1>5. CASE ListAppend
  BY <1>5 DEF ListAppend, IInv, SliceKept, NumbersSurvive
<1>6. CASE Return
  <2>1. last.sent \in Fixnum => ToRuby(last.value) = last.sent
    BY <1>6, FixnumIsExact DEF Return, IInv, NumbersSurvive, ToRuby
  <2>2. QED
    BY <1>6, <2>1 DEF Return, Carried, IInv, SliceKept, NumbersSurvive
<1>7. CASE Resend
  <2>1. last.sent \in Fixnum => FromRuby(last.value) = last.sent
    BY <1>7, FixnumIsExact, FromRubyLong DEF Resend, IInv, NumbersSurvive
  <2>2. QED
    BY <1>7, <2>1 DEF Resend, Carried, IInv, SliceKept, NumbersSurvive
<1>8. CASE GoOn
  BY <1>8 DEF GoOn, NoConversion, IInv, SliceKept, NumbersSurvive
<1>9. CASE UNCHANGED vars
  BY <1>9 DEF vars, IInv, SliceKept, NumbersSurvive
<1>10. QED
  BY <1>1, <1>2, <1>3, <1>4, <1>5, <1>6, <1>7, <1>8, <1>9 DEF Next

\* Every Range whose bounds fit, of any bounds and any step, used as an index
\* of a list of any length (GetItem and DelItem of pycall.c), takes exactly
\* the items that Ruby means by it.
THEOREM RangesTakeTheirItems == Spec => []RangeTakesItsItems
<1>1. IInv => RangeTakesItsItems
  BY SliceMeant DEF IInv, SliceKept, RangeTakesItsItems, Failed
<1>2. QED
  BY <1>1, InitIInv, NextIInv, PTL DEF Spec

\* In words of any width, a Fixnum survives every sequence of crossings, and
\* no number arrives in Python as another number.
THEOREM FixnumsSurvive == Spec => []NumbersSurvive
<1>1. IInv => NumbersSurvive
  BY DEF IInv
<1>2. QED
  BY <1>1, InitIInv, NextIInv, PTL DEF Spec

-----------------------------------------------------------------------------
(* Texts and Arrays on their way.                                          *)

\* The cases of a text, and of a value that is none.
LEMMA TextCases ==
  ASSUME NEW v \in Text
  PROVE  /\ IsText(v)
         /\ v.value \in {"ascii", "utf8", "invalid"}
         /\ v.enc \in Encoding
BY DEF Text, IsText, String, Symbol, Encoding

\* A text that is refused is one that is neither UTF-8 nor binary, whatever its
\* encoding, and the bytes of any other text come back.
LEMMA TextSurvives ==
  ASSUME NEW v \in Text
  PROVE  /\ TextFromRuby(v) = NULL <=> v.value = "invalid" /\ v.enc # "BINARY"
         /\ TextFromRuby(v) # NULL => Survives(v, ValueToRuby(TextFromRuby(v)))
<1> DEFINE bytes == Object("bytes", v.value)
           str   == Object("str", v.value)
<1>1. v.value \in {"ascii", "utf8", "invalid"} /\ v.enc \in Encoding /\ IsText(v)
  BY TextCases
<1>2. bytes # NULL /\ str # NULL
  BY <1>1, ValuesAssumption DEF PyObject, Object
<1>3. ValueToRuby(bytes) = String(v.value, "BINARY") /\ ValueToRuby(str) = String(v.value, "UTF-8")
  BY DEF ValueToRuby, Object, PyNone
<1>4. CASE v.enc = "BINARY" \/ (~python3 /\ AsciiOnly(v))
  BY <1>1, <1>2, <1>3, <1>4 DEF TextFromRuby, Survives, ReadAs, AsciiOnly, String
<1>5. CASE v.enc # "BINARY" /\ ~(~python3 /\ AsciiOnly(v)) /\ v.value # "invalid"
  BY <1>1, <1>2, <1>3, <1>5 DEF TextFromRuby, Survives, ReadAs, String
<1>6. CASE v.enc # "BINARY" /\ v.value = "invalid"
  BY <1>6 DEF TextFromRuby, AsciiOnly
<1>7. QED
  BY <1>1, <1>4, <1>5, <1>6

\* Nothing, numbers and truth values always come back.
LEMMA PlainSurvives ==
  ASSUME NEW v \in Plain
  PROVE  Survives(v, ValueToRuby(ValueFromRuby(v)))
<1>1. CASE v = Object("nil", None)
  BY <1>1 DEF ValueFromRuby, ValueToRuby, Survives, IsText, Object, PyNone
<1>2. CASE v = Object("Integer", MaxLong + 1)
  <2>1. FromRuby(MaxLong + 1) = None /\ MaxLong + 1 \notin Fixnum
    BY LongIsInt, LongAssumption DEF FromRuby, Long, Fixnum
  <2>2. QED
    BY <1>2, <2>1 DEF ValueFromRuby, ValueToRuby, Survives, IsText, Object, PyNone
<1>3. ASSUME NEW n \in {0, 1}, v = Object("Integer", n)
      PROVE  Survives(v, ValueToRuby(ValueFromRuby(v)))
  <2>1. n \in Fixnum
    BY LongAssumption DEF Fixnum, Long, MinLong
  <2>2. FromRuby(n) = n /\ ToRuby(n) = n /\ n # None
    BY <2>1, FixnumIsExact, FromRubyLong DEF ToRuby
  <2>3. QED
    BY <1>3, <2>1, <2>2 DEF ValueFromRuby, ValueToRuby, Survives, IsText, Object, PyNone
<1>4. ASSUME NEW c \in {"Float", "bool"}, NEW n \in {0, 1}, v = Object(c, n)
      PROVE  Survives(v, ValueToRuby(ValueFromRuby(v)))
  BY <1>4 DEF ValueFromRuby, ValueToRuby, Survives, IsText, Object, PyNone
<1>5. QED
  BY <1>1, <1>2, <1>3, <1>4 DEF Plain

LEMMA ScalarSurvives ==
  ASSUME NEW v \in Scalar, ValueFromRuby(v) # NULL
  PROVE  Survives(v, ValueToRuby(ValueFromRuby(v)))
<1>1. CASE v \in Text
  BY <1>1, TextSurvives DEF ValueFromRuby, IsText, Text, String, Symbol
<1>2. CASE v \in Plain
  BY <1>2, PlainSurvives
<1>3. QED
  BY <1>1, <1>2 DEF Scalar

\* What every state keeps of the value on its way: what Python has of it is
\* nothing, or would come back as it was.
OnItsWay ==
  /\ ValuesSurvive
  /\ passed.op = "text" /\ passed.got # NULL => Survives(passed.sent, ValueToRuby(passed.got))
  /\ passed.op = "array" =>
       /\ passed.sent \in Seq(Scalar)
       /\ passed.got = [i \in DOMAIN passed.sent |-> passed.got[i]]
       /\ \A i \in DOMAIN passed.sent :
            passed.got[i] # NULL => Survives(passed.sent[i], ValueToRuby(passed.got[i]))


\* A step of Values is one of Conversions, or leaves the list and the numbers
\* alone.
LEMMA NextVIsNext == [NextV]_varsV => [Next]_vars
BY DEF NextV, varsV, PassText, PassArray, PassHash, Begin, SetItem, TextBack, ArrayBack,
       HashBack, Update, GoOnV

LEMMA InitOnItsWay == InitV => OnItsWay
BY DEF InitV, Nothing, OnItsWay, ValuesSurvive

LEMMA NextOnItsWay == OnItsWay /\ [NextV]_varsV => OnItsWay'
<1> SUFFICES ASSUME OnItsWay, [NextV]_varsV
             PROVE  OnItsWay'
  OBVIOUS
<1>1. CASE UNCHANGED passed
  BY <1>1 DEF OnItsWay, ValuesSurvive
<1>2. ASSUME NEW v \in Text, PassText(v)
      PROVE  OnItsWay'
  <2>1. passed' = [op |-> "text", sent |-> v, got |-> TextFromRuby(v)]
    BY <1>2 DEF PassText, Begin
  <2>2. QED
    BY <2>1, TextSurvives DEF OnItsWay, ValuesSurvive
<1>3. ASSUME NEW a \in BoundedSeq(Scalar, MaxEntries), PassArray(a)
      PROVE  OnItsWay'
  <2>1. passed' = [op |-> "array", sent |-> a, got |-> ListFromRuby(a)]
    BY <1>3 DEF PassArray, Begin
  <2>2. PICK n \in 0..MaxEntries : a \in [1..n -> Scalar]
    BY DEF BoundedSeq, SeqOf
  <2>3. a \in Seq(Scalar) /\ \A i \in DOMAIN a : a[i] \in Scalar
    BY <2>2
  <2>4. passed'.got = [i \in DOMAIN a |-> ValueFromRuby(a[i])]
    BY <2>1 DEF ListFromRuby
  <2>5. \A i \in DOMAIN a : passed'.got[i] # NULL =>
                             Survives(a[i], ValueToRuby(passed'.got[i]))
    BY <2>3, <2>4, ScalarSurvives
  <2>6. passed'.op = "array" /\ passed'.sent = a
    BY <2>1
  <2>7. passed'.got = [i \in DOMAIN a |-> passed'.got[i]]
    BY <2>4
  <2>8. QED
    BY <2>3, <2>5, <2>6, <2>7 DEF OnItsWay, ValuesSurvive
<1>4. ASSUME NEW h \in Hash, PassHash(h)
      PROVE  OnItsWay'
  BY <1>4 DEF PassHash, Begin, OnItsWay, ValuesSurvive
<1>5. CASE SetItem
  <2>1. PICK rest, dict : InHand(rest, dict)
    BY <1>5, Zenon DEF SetItem
  <2>2. passed'.op = "hash"
    BY <2>1 DEF InHand
  <2>3. QED
    BY <2>2 DEF OnItsWay, ValuesSurvive
<1>6. CASE TextBack
  BY <1>6 DEF TextBack, OnItsWay, ValuesSurvive
<1>7. CASE ArrayBack
  <2>1. passed'.op = "array back" /\ passed'.sent = passed.sent
    BY <1>7 DEF ArrayBack
  <2>2. passed'.back = [i \in DOMAIN passed.sent |-> ValueToRuby(passed.got[i])]
    BY <1>7 DEF ArrayBack, ListToRuby, OnItsWay
  <2>3. \A i \in DOMAIN passed.sent : passed.got[i] # NULL
    BY <1>7 DEF ArrayBack, ToSet, OnItsWay
  <2>4. passed.sent \in Seq(Scalar)
    BY <1>7 DEF ArrayBack, OnItsWay
  <2>5. Len(passed'.back) = Len(passed.sent)
    BY <2>2, <2>4
  <2>6. \A i \in DOMAIN passed.sent : Survives(passed.sent[i], ValueToRuby(passed.got[i]))
    BY <1>7, <2>3 DEF ArrayBack, OnItsWay
  <2>7. QED
    BY <2>1, <2>2, <2>5, <2>6 DEF OnItsWay, ValuesSurvive
<1>8. CASE HashBack
  BY <1>8 DEF HashBack, OnItsWay, ValuesSurvive
<1>9. CASE Update
  BY <1>9 DEF Update, OnItsWay, ValuesSurvive
<1>10. CASE GoOnV
  BY <1>10 DEF GoOnV, Nothing, OnItsWay, ValuesSurvive
<1>11. QED
  BY <1>1, <1>2, <1>3, <1>4, <1>5, <1>6, <1>7, <1>8, <1>9, <1>10 DEF NextV, varsV

\* Values implements Conversions: each of its steps is one of those or leaves
\* the list and the numbers alone. Hence the two theorems above hold for it.
THEOREM ValuesImplementConversions == SpecV => Spec
<1>1. InitV => Init
  BY DEF InitV
<1>2. QED
  BY <1>1, NextVIsNext, PTL DEF SpecV, Spec

\* Exactly the texts whose bytes are not UTF-8 are refused, those that are
\* binary excepted. Any other text, and every item of an Array of any length,
\* comes back with its bytes, and as the same characters if it was ASCII, UTF-8
\* or binary; text in another encoding comes back as what its bytes are in
\* UTF-8. Numbers come back as they were (pycall_pystring_from_ruby,
\* pycall_pylist_from_ruby and List#to_a, with both versions of Python).
THEOREM TextsAndArraysSurvive == SpecV => []ValuesSurvive
<1>1. OnItsWay => ValuesSurvive
  BY DEF OnItsWay
<1>2. QED
  BY <1>1, InitOnItsWay, NextOnItsWay, PTL DEF SpecV


-----------------------------------------------------------------------------
(* A dict and a Hash are both made by storing one entry after the other.    *)

\* An entry stands for a class of the first m keys, and has the value of the
\* last of them.
Entry(t, e, m, K, V, C) ==
  \E i, j \in 1..m : /\ t[e][1] = K[i] /\ t[e][2] = V[j]
                     /\ C[K[i]] = C[K[j]]
                     /\ \A l \in 1..m : C[K[l]] = C[K[i]] => l <= j

\* Each key has one entry, and the entries are in the order of their first
\* keys.
Table(t, m, K, V, C) ==
  /\ \A e \in DOMAIN t : Entry(t, e, m, K, V, C)
  /\ \A i \in 1..m : \E e \in DOMAIN t : C[t[e][1]] = C[K[i]]
  /\ \A c, d \in DOMAIN t : C[t[c][1]] = C[t[d][1]] => c = d
  /\ \A c, d \in DOMAIN t, j \in 1..m :
       c < d /\ C[K[j]] = C[t[d][1]] => \E i \in 1..m : i < j /\ C[K[i]] = C[t[c][1]]

\* To store one more key keeps this so.
LEMMA StoreKeepsTable ==
  ASSUME NEW X, NEW Y, NEW C, NEW K, NEW V,
         NEW m \in Nat, \A i \in 1..m + 1 : K[i] \in X /\ V[i] \in Y,
         NEW t \in Seq(X \X Y), Table(t, m, K, V, C),
         NEW found, found = {e \in DOMAIN t : C[t[e][1]] = C[K[m + 1]]}
  PROVE  /\ Store(t, found, K[m + 1], V[m + 1]) \in Seq(X \X Y)
         /\ Table(Store(t, found, K[m + 1], V[m + 1]), m + 1, K, V, C)
<1> DEFINE k == K[m + 1]
           v == V[m + 1]
           u == Store(t, found, k, v)
<1> SUFFICES u \in Seq(X \X Y) /\ Table(u, m + 1, K, V, C)
  OBVIOUS
<1> HIDE DEF k, v, u
<1>1. /\ m \in Nat /\ k \in X /\ v \in Y
      /\ \A i \in 1..m : K[i] \in X /\ V[i] \in Y
      /\ DOMAIN t = 1..Len(t) /\ Len(t) \in Nat
      /\ \A e \in DOMAIN t : t[e][1] \in X /\ t[e][2] \in Y
      /\ k = K[m + 1] /\ v = V[m + 1]
  BY DEF k, v
<1>2. /\ \A e \in DOMAIN t : Entry(t, e, m, K, V, C)
      /\ \A c, d \in DOMAIN t, j \in 1..m :
           c < d /\ C[K[j]] = C[t[d][1]] => \E i \in 1..m : i < j /\ C[K[i]] = C[t[c][1]]
  BY DEF Table
<1>3. CASE found = {}
  <2>1. u = Append(t, <<k, v>>)
    BY <1>3 DEF u, Store
  <2>2. /\ u \in Seq(X \X Y) /\ DOMAIN u = 1..Len(t) + 1
        /\ u[Len(t) + 1] = <<k, v>>
        /\ \A e \in DOMAIN t : u[e] = t[e]
    BY <1>1, <2>1
  <2>3. \A e \in DOMAIN t : C[t[e][1]] # C[k] /\ C[k] # C[t[e][1]]
    BY <1>1, <1>3
  <2>4. ASSUME NEW e \in DOMAIN u
        PROVE  Entry(u, e, m + 1, K, V, C)
    <3>1. CASE e = Len(t) + 1
      <4>1. u[e][1] = K[m + 1] /\ u[e][2] = V[m + 1] /\ C[K[m + 1]] = C[K[m + 1]]
        BY <1>1, <2>2, <3>1
      <4>2. m + 1 \in 1..m + 1 /\ \A l \in 1..m + 1 : l <= m + 1
        BY <1>1
      <4>3. QED
        BY <4>1, <4>2 DEF Entry
    <3>2. CASE e \in DOMAIN t
      <4>1. PICK i \in 1..m, j \in 1..m :
              /\ t[e][1] = K[i] /\ t[e][2] = V[j] /\ C[K[i]] = C[K[j]]
              /\ \A l \in 1..m : C[K[l]] = C[K[i]] => l <= j
        BY <3>2, <1>2 DEF Entry
      <4>2. C[K[m + 1]] # C[K[i]]
        BY <1>1, <4>1, <2>3, <3>2
      <4>3. \A l \in 1..m + 1 : l \in 1..m \/ l = m + 1
        BY <1>1
      <4>4. i \in 1..m + 1 /\ j \in 1..m + 1
        BY <1>1
      <4>5. QED
        BY <4>1, <4>2, <4>3, <4>4, <2>2, <3>2 DEF Entry
    <3>3. QED
      BY <3>1, <3>2, <2>2, <1>1
  <2>5. ASSUME NEW i \in 1..m + 1
        PROVE  \E e \in DOMAIN u : C[u[e][1]] = C[K[i]]
    <3>1. CASE i = m + 1
      BY <3>1, <2>2, <1>1
    <3>2. CASE i \in 1..m
      <4>1. PICK e \in DOMAIN t : C[t[e][1]] = C[K[i]]
        BY <3>2 DEF Table
      <4>2. QED
        BY <4>1, <2>2, <1>1
    <3>3. QED
      BY <3>1, <3>2, <1>1
  <2>6. ASSUME NEW c \in DOMAIN u, NEW d \in DOMAIN u, C[u[c][1]] = C[u[d][1]]
        PROVE  c = d
    <3>1. CASE c \in DOMAIN t /\ d \in DOMAIN t
      BY <3>1, <2>6, <2>2 DEF Table
    <3>2. CASE c = Len(t) + 1 /\ d \in DOMAIN t
      BY <3>2, <2>6, <2>2, <2>3
    <3>3. CASE c \in DOMAIN t /\ d = Len(t) + 1
      BY <3>3, <2>6, <2>2, <2>3
    <3>4. QED
      BY <3>1, <3>2, <3>3, <2>2, <1>1
  <2>7. ASSUME NEW c \in DOMAIN u, NEW d \in DOMAIN u, c < d,
               NEW j \in 1..m + 1, C[K[j]] = C[u[d][1]]
        PROVE  \E i \in 1..m + 1 : i < j /\ C[K[i]] = C[u[c][1]]
    <3>1. c \in DOMAIN t /\ u[c] = t[c]
      BY <2>2, <2>7, <1>1
    <3>2. CASE j = m + 1
      <4>1. PICK i \in 1..m : t[c][1] = K[i]
        BY <3>1, <1>2 DEF Entry
      <4>2. QED
        BY <4>1, <3>1, <3>2, <1>1
    <3>3. CASE j \in 1..m /\ d \in DOMAIN t
      <4>1. PICK i \in 1..m : i < j /\ C[K[i]] = C[t[c][1]]
        <5>1. c \in DOMAIN t /\ d \in DOMAIN t /\ C[K[j]] = C[t[d][1]]
          BY <3>1, <3>3, <2>2, <2>7
        <5>2. QED
          BY <5>1, <3>3, <2>7, <1>2
      <4>2. QED
        BY <4>1, <3>1, <1>1
    <3>4. CASE j \in 1..m /\ d = Len(t) + 1
      <4>1. PICK e \in DOMAIN t : C[t[e][1]] = C[K[j]]
        BY <3>4 DEF Table
      <4>2. C[K[j]] = C[k]
        BY <3>4, <2>2, <2>7
      <4>3. QED
        BY <4>1, <4>2, <2>3, <3>4, <1>1
    <3>5. QED
      BY <3>2, <3>3, <3>4, <2>2, <1>1
  <2>8. Table(u, m + 1, K, V, C)
    <3>1. \A c, d \in DOMAIN u : C[u[c][1]] = C[u[d][1]] => c = d
      BY <2>6
    <3>2. \A c, d \in DOMAIN u, j \in 1..m + 1 :
            c < d /\ C[K[j]] = C[u[d][1]] => \E i \in 1..m + 1 : i < j /\ C[K[i]] = C[u[c][1]]
      BY <2>7
    <3>3. QED
      BY <2>4, <2>5, <3>1, <3>2, Zenon DEF Table
  <2>9. QED
    BY <2>2, <2>8
<1>4. CASE found # {}
  <2>1. PICK f \in DOMAIN t : f \in found
    BY <1>4
  <2>2. found = {f}
    BY <2>1, <1>1 DEF Table
  <2>3. u = [e \in DOMAIN t |-> IF e = f THEN <<t[e][1], v>> ELSE t[e]]
    BY <2>2 DEF u, Store
  <2>4. /\ DOMAIN u = DOMAIN t /\ u[f] = <<t[f][1], v>>
        /\ \A e \in DOMAIN t : u[e][1] = t[e][1] /\ (e # f => u[e] = t[e])
    BY <2>3
  <2>5. u \in Seq(X \X Y)
    BY <2>3, <1>1
  <2>6. /\ C[t[f][1]] = C[k] /\ C[k] = C[t[f][1]]
        /\ \A e \in DOMAIN t : e # f => C[k] # C[t[e][1]]
    BY <2>2, <1>1
  <2>7. ASSUME NEW e \in DOMAIN u
        PROVE  Entry(u, e, m + 1, K, V, C)
    <3>1. PICK i \in 1..m, j \in 1..m :
            /\ t[e][1] = K[i] /\ t[e][2] = V[j] /\ C[K[i]] = C[K[j]]
            /\ \A l \in 1..m : C[K[l]] = C[K[i]] => l <= j
      <4>1. Entry(t, e, m, K, V, C)
        BY <2>4, <1>2
      <4>2. QED
        BY <4>1 DEF Entry
    <3>2. i \in 1..m + 1 /\ j \in 1..m + 1 /\ m + 1 \in 1..m + 1
      BY <1>1
    <3>3. CASE e = f
      <4>1. u[e][1] = K[i] /\ u[e][2] = V[m + 1] /\ C[K[i]] = C[K[m + 1]]
        BY <1>1, <3>1, <3>3, <2>4, <2>6
      <4>2. \A l \in 1..m + 1 : l <= m + 1
        OBVIOUS
      <4>3. QED
        BY <4>1, <4>2, <3>2 DEF Entry
    <3>4. CASE e # f
      <4>1. u[e][1] = K[i] /\ u[e][2] = V[j] /\ C[K[m + 1]] # C[K[i]]
        BY <1>1, <3>1, <3>4, <2>4, <2>6
      <4>2. \A l \in 1..m + 1 : l \in 1..m \/ l = m + 1
        BY <1>1
      <4>3. QED
        BY <4>1, <4>2, <3>1, <3>2 DEF Entry
    <3>5. QED
      BY <3>3, <3>4
  <2>8. ASSUME NEW i \in 1..m + 1
        PROVE  \E e \in DOMAIN u : C[u[e][1]] = C[K[i]]
    <3>1. CASE i = m + 1
      BY <1>1, <3>1, <2>4, <2>6
    <3>2. CASE i \in 1..m
      <4>1. PICK e \in DOMAIN t : C[t[e][1]] = C[K[i]]
        BY <3>2 DEF Table
      <4>2. QED
        BY <4>1, <2>4
    <3>3. QED
      BY <3>1, <3>2, <1>1
  <2>9. ASSUME NEW c \in DOMAIN u, NEW d \in DOMAIN u, C[u[c][1]] = C[u[d][1]]
        PROVE  c = d
    BY <2>9, <2>4 DEF Table
  <2>10. ASSUME NEW c \in DOMAIN u, NEW d \in DOMAIN u, c < d,
                NEW j \in 1..m + 1, C[K[j]] = C[u[d][1]]
         PROVE  \E i \in 1..m + 1 : i < j /\ C[K[i]] = C[u[c][1]]
    <3>1. CASE j = m + 1
      <4>1. PICK i \in 1..m : t[c][1] = K[i]
        BY <2>4, <1>2 DEF Entry
      <4>2. QED
        BY <4>1, <3>1, <2>4, <1>1
    <3>2. CASE j \in 1..m
      <4>1. PICK i \in 1..m : i < j /\ C[K[i]] = C[t[c][1]]
        <5>1. c \in DOMAIN t /\ d \in DOMAIN t /\ C[K[j]] = C[t[d][1]]
          BY <2>4, <2>10
        <5>2. QED
          BY <5>1, <3>2, <2>10, <1>2
      <4>2. QED
        BY <4>1, <2>4, <1>1
    <3>3. QED
      BY <3>1, <3>2, <1>1
  <2>11. QED
    BY <2>4, <2>5, <2>7, <2>8, <2>9, <2>10 DEF Table
<1>5. QED
  BY <1>3, <1>4


-----------------------------------------------------------------------------
(* The keys of a Hash, in Python and back in Ruby.                          *)

RubyObject == [is : {"String", "Integer", "Float", "bool", "nil"},
               value : {"ascii", "utf8", "invalid", None} \cup Int,
               enc : {"none", "UTF-8", "BINARY"}]

\* The keys that are one to a dict, and to a Hash.
PyClass   == [p \in PyObject |-> {q \in PyObject : PyEqual(p, q)}]
RubyClass == [v \in RubyObject |-> {w \in RubyObject : Eql(v, w)}]

LEMMA PyClasses ==
  ASSUME NEW p \in PyObject, NEW q \in PyObject
  PROVE  PyClass[p] = PyClass[q] <=> PyEqual(p, q)
<1>1. PyEqual(p, p) /\ PyEqual(q, q)
  BY DEF PyEqual
<1>2. ASSUME NEW r \in PyObject, PyEqual(p, q)
      PROVE  PyEqual(p, r) <=> PyEqual(q, r)
  BY <1>2 DEF PyEqual
<1>3. QED
  BY <1>1, <1>2 DEF PyClass

LEMMA RubyClasses ==
  ASSUME NEW v \in RubyObject, NEW w \in RubyObject
  PROVE  RubyClass[v] = RubyClass[w] <=> Eql(v, w)
<1>1. Eql(v, v) /\ Eql(w, w)
  BY DEF Eql
<1>2. ASSUME NEW u \in RubyObject, Eql(v, w)
      PROVE  Eql(v, u) <=> Eql(w, u)
  BY <1>2 DEF Eql, AsciiOnly
<1>3. QED
  BY <1>1, <1>2 DEF RubyClass

\* What becomes of a key that can be one in a dict.
Bytes(v)   == /\ v \in Text /\ (v.enc = "BINARY" \/ (~python3 /\ AsciiOnly(v)))
              /\ ValueFromRuby(v) = Object("bytes", v.value)
              /\ ValueToRuby(ValueFromRuby(v)) = String(v.value, "BINARY")
Unicode(v) == /\ v \in Text /\ v.enc \notin {"BINARY", "UTF-16"} /\ v.value # "invalid"
              /\ python3 \/ v.value # "ascii"
              /\ ValueFromRuby(v) = Object("str", v.value)
              /\ ValueToRuby(ValueFromRuby(v)) = String(v.value, "UTF-8")
Absent(v)  == /\ v \in {Object("nil", None), Object("Integer", MaxLong + 1)}
              /\ ValueFromRuby(v) = PyNone
              /\ ValueToRuby(ValueFromRuby(v)) = Object("nil", None)
Numeric(v) == \E n \in {0, 1} :
                /\ \/ v = Object("Integer", n) /\ ValueFromRuby(v) = Object("int", n)
                   \/ v = Object("Float", n) /\ ValueFromRuby(v) = Object("float", n)
                   \/ v = Object("bool", n) /\ ValueFromRuby(v) = Object("bool", n)
                /\ ValueToRuby(ValueFromRuby(v)) = v

LEMMA KeyCases ==
  ASSUME NEW v \in HashKey, ~Refused(v)
  PROVE  v \in Scalar /\ (Bytes(v) \/ Unicode(v) \/ Absent(v) \/ Numeric(v))
<1>1. CASE v \in Text
  <2>1. /\ v.value \in {"ascii", "utf8", "invalid"} /\ IsText(v)
        /\ v.enc \in {"UTF-8", "ISO-8859-1", "BINARY"}
    BY <1>1, TextCases DEF HashKey, Encoding, ArrayKey, Object, IsText
  <2>2. ValueFromRuby(v) = TextFromRuby(v)
    BY <1>1 DEF ValueFromRuby, IsText, Text, String, Symbol
  <2>3. /\ ValueToRuby(Object("bytes", v.value)) = String(v.value, "BINARY")
        /\ ValueToRuby(Object("str", v.value)) = String(v.value, "UTF-8")
    BY DEF ValueToRuby, Object, PyNone
  <2>4. v.value = "invalid" => v.enc = "BINARY"
    BY <2>1 DEF Refused
  <2>5. CASE v.enc = "BINARY" \/ (~python3 /\ AsciiOnly(v))
    BY <1>1, <2>2, <2>3, <2>5 DEF Bytes, TextFromRuby, Scalar
  <2>6. CASE ~(v.enc = "BINARY" \/ (~python3 /\ AsciiOnly(v)))
    BY <1>1, <2>1, <2>2, <2>3, <2>4, <2>6 DEF Unicode, TextFromRuby, AsciiOnly, Scalar
  <2>7. QED
    BY <2>5, <2>6
<1>2. CASE v = Object("nil", None)
  BY <1>2 DEF ValueFromRuby, ValueToRuby, IsText, Object, PyNone, Absent, Scalar, Plain
<1>3. CASE v = Object("Integer", MaxLong + 1)
  <2>1. FromRuby(MaxLong + 1) = None
    BY LongIsInt, LongAssumption DEF FromRuby, Long
  <2>2. QED
    BY <1>3, <2>1 DEF ValueFromRuby, ValueToRuby, IsText, Object, PyNone, Absent, Scalar, Plain
<1>4. ASSUME NEW n \in {0, 1}, v = Object("Integer", n)
      PROVE  v \in Scalar /\ Numeric(v)
  <2>1. n \in Fixnum
    BY LongAssumption DEF Fixnum, Long, MinLong
  <2>2. FromRuby(n) = n /\ ToRuby(n) = n /\ n # None
    BY <2>1, FixnumIsExact, FromRubyLong DEF ToRuby
  <2>3. ValueFromRuby(v) = Object("int", n) /\ ValueToRuby(Object("int", n)) = v
    BY <1>4, <2>2 DEF ValueFromRuby, ValueToRuby, IsText, Object, PyNone
  <2>4. QED
    BY <1>4, <2>3 DEF Numeric, Scalar, Plain
<1>5. ASSUME NEW n \in {0, 1}, v = Object("Float", n)
      PROVE  v \in Scalar /\ Numeric(v)
  <2>1. ValueFromRuby(v) = Object("float", n) /\ ValueToRuby(Object("float", n)) = v
    BY <1>5 DEF ValueFromRuby, ValueToRuby, IsText, Object, PyNone
  <2>2. QED
    BY <1>5, <2>1 DEF Numeric, Scalar, Plain
<1>6. ASSUME NEW n \in {0, 1}, v = Object("bool", n)
      PROVE  v \in Scalar /\ Numeric(v)
  <2>1. ValueFromRuby(v) = Object("bool", n) /\ ValueToRuby(Object("bool", n)) = v
    BY <1>6 DEF ValueFromRuby, ValueToRuby, IsText, Object, PyNone
  <2>2. QED
    BY <1>6, <2>1 DEF Numeric, Scalar, Plain
<1>7. v # ArrayKey
  BY DEF Refused, ArrayKey, Object
<1>8. QED
  BY <1>1, <1>2, <1>3, <1>4, <1>5, <1>6, <1>7 DEF HashKey, Scalar, Plain

\* A key that is refused, and only such a key, cannot be stored.
LEMMA KeyStorable ==
  ASSUME NEW v \in HashKey, NEW n \in Nat
  PROVE  /\ ValueFromRuby(Object("Float", n)) = Object("float", n)
         /\ ValueToRuby(Object("float", n)) = Object("Float", n)
         /\ Object("float", n) \in PyObject /\ Object("Float", n) \in RubyObject
         /\ Storable(ValueFromRuby(v), Object("float", n)) <=> ~Refused(v)
         /\ ~Refused(v) => /\ ValueFromRuby(v) \in PyObject
                           /\ ValueToRuby(ValueFromRuby(v)) \in RubyObject
                           /\ Survives(v, ValueToRuby(ValueFromRuby(v)))
<1>1. /\ ValueFromRuby(Object("Float", n)) = Object("float", n)
      /\ ValueToRuby(Object("float", n)) = Object("Float", n)
  BY DEF ValueFromRuby, ValueToRuby, IsText, Object, PyNone
<1>2. Object("float", n) \in PyObject /\ Object("Float", n) \in RubyObject
  BY DEF PyObject, RubyObject, Object
<1>3. CASE Refused(v)
  <2>1. CASE v = ArrayKey
    <3>1. ValueFromRuby(v).is = "list"
      BY <2>1 DEF ValueFromRuby, ArrayKey, IsText, Object
    <3>2. QED
      BY <1>1, <1>2, <1>3, <3>1 DEF Storable
  <2>2. CASE v \in Text
    <3>1. v.value = "invalid" /\ v.enc # "BINARY"
      BY <1>3, <2>2 DEF Refused, Text, String, Symbol
    <3>2. ValueFromRuby(v) = NULL
      BY <2>2, <3>1, TextSurvives DEF ValueFromRuby, IsText, Text, String, Symbol
    <3>3. QED
      BY <1>1, <1>2, <1>3, <3>2 DEF Storable
  <2>3. v \notin Plain
    BY <1>3 DEF Plain, Refused, IsText, Object
  <2>4. QED
    BY <2>1, <2>2, <2>3 DEF HashKey, Scalar
<1>4. CASE ~Refused(v)
  <2>1. v \in Scalar /\ (Bytes(v) \/ Unicode(v) \/ Absent(v) \/ Numeric(v))
    BY <1>4, KeyCases
  <2>2. ValueFromRuby(v) \in PyObject /\ ValueFromRuby(v).is # "list"
    <3>1. CASE Bytes(v) \/ Unicode(v)
      BY <3>1, TextCases DEF Bytes, Unicode, Object, PyObject
    <3>2. CASE Absent(v)
      BY <3>2 DEF Absent, PyNone, Object, PyObject
    <3>3. CASE Numeric(v)
      BY <3>3 DEF Numeric, Object, PyObject
    <3>4. QED
      BY <2>1, <3>1, <3>2, <3>3
  <2>3. ValueToRuby(ValueFromRuby(v)) \in RubyObject
    <3>1. CASE Bytes(v) \/ Unicode(v)
      BY <3>1, TextCases DEF Bytes, Unicode, String, RubyObject
    <3>2. CASE Absent(v)
      BY <3>2 DEF Absent, Object, RubyObject
    <3>3. CASE Numeric(v)
      BY <3>3 DEF Numeric, Object, RubyObject
    <3>4. QED
      BY <2>1, <3>1, <3>2, <3>3
  <2>4. ValueFromRuby(v) # NULL /\ Object("float", n) # NULL
    BY <2>2, <1>2, ValuesAssumption
  <2>5. Survives(v, ValueToRuby(ValueFromRuby(v)))
    BY <2>1, <2>4, ScalarSurvives
  <2>6. QED
    BY <1>1, <1>2, <1>4, <2>2, <2>3, <2>4, <2>5 DEF Storable
<1>5. QED
  BY <1>3, <1>4


\* Two keys meet if they are one to the dict, or come back as one, and only
\* then.
LEMMA MeetingKeys ==
  ASSUME NEW v \in HashKey, ~Refused(v), NEW w \in HashKey, ~Refused(w)
  PROVE  Meet(v, w) <=> \/ PyEqual(ValueFromRuby(v), ValueFromRuby(w))
                        \/ Eql(ValueToRuby(ValueFromRuby(v)), ValueToRuby(ValueFromRuby(w)))
<1>1. /\ Bytes(v) \/ Unicode(v) \/ Absent(v) \/ Numeric(v)
      /\ Bytes(w) \/ Unicode(w) \/ Absent(w) \/ Numeric(w)
  BY KeyCases
<1>2. CASE (Bytes(v) \/ Unicode(v)) /\ (Bytes(w) \/ Unicode(w))
  <2>1. /\ v.value \in {"ascii", "utf8", "invalid"} /\ IsText(v)
        /\ w.value \in {"ascii", "utf8", "invalid"} /\ IsText(w)
        /\ v.is \in {"String", "Symbol"} /\ w.is \in {"String", "Symbol"}
    BY <1>2, TextCases DEF Bytes, Unicode, IsText
  <2>2. Meet(v, w) <=> \/ Eql(v, w)
                       \/ v.value = w.value /\ (v.value = "ascii" \/ ReadAs(v) = ReadAs(w))
    BY <2>1 DEF Meet
  <2>3. QED
    BY <1>2, <2>1, <2>2 DEF Bytes, Unicode, Eql, ReadAs, AsciiOnly, PyEqual, Object, String
<1>3. CASE (Absent(v) \/ Numeric(v)) /\ (Absent(w) \/ Numeric(w))
  <2>1. 0 \in Fixnum /\ 1 \in Fixnum /\ MaxLong + 1 \notin Fixnum
    BY LongAssumption DEF Fixnum, Long, MinLong
  <2>2. MaxLong + 1 \in Int /\ MaxLong + 1 # 0 /\ MaxLong + 1 # 1 /\ None \notin Int
    BY LongAssumption
  <2>3. CASE Absent(v) /\ Absent(w)
    BY <2>1, <2>2, <2>3 DEF Absent, Meet, Eql, PyEqual, Object, PyNone, IsText
  <2>4. CASE Absent(v) /\ Numeric(w)
    BY <2>1, <2>2, <2>4 DEF Absent, Numeric, Meet, Eql, PyEqual, Object, PyNone, IsText
  <2>5. CASE Numeric(v) /\ Absent(w)
    BY <2>1, <2>2, <2>5 DEF Absent, Numeric, Meet, Eql, PyEqual, Object, PyNone, IsText
  <2>6. CASE Numeric(v) /\ Numeric(w)
    BY <2>1, <2>2, <2>6 DEF Numeric, Meet, Eql, PyEqual, Object, IsText
  <2>7. QED
    BY <1>3, <2>3, <2>4, <2>5, <2>6
<1>4. CASE (Bytes(v) \/ Unicode(v)) /\ (Absent(w) \/ Numeric(w))
  <2>1. v.is \in {"String", "Symbol"} /\ w.is \in {"nil", "Integer", "Float", "bool"}
    BY <1>4, TextCases DEF Bytes, Unicode, Absent, Numeric, IsText, Object
  <2>2. ~Meet(v, w)
    BY <2>1 DEF Meet, Eql, IsText
  <2>3. QED
    BY <1>4, <2>2 DEF Bytes, Unicode, Absent, Numeric, Eql, PyEqual, Object, String, PyNone
<1>5. CASE (Absent(v) \/ Numeric(v)) /\ (Bytes(w) \/ Unicode(w))
  <2>1. w.is \in {"String", "Symbol"} /\ v.is \in {"nil", "Integer", "Float", "bool"}
    BY <1>5, TextCases DEF Bytes, Unicode, Absent, Numeric, IsText, Object
  <2>2. ~Meet(v, w)
    BY <2>1 DEF Meet, Eql, IsText
  <2>3. QED
    BY <1>5, <2>2 DEF Bytes, Unicode, Absent, Numeric, Eql, PyEqual, Object, String, PyNone
<1>6. QED
  BY <1>1, <1>2, <1>3, <1>4, <1>5

\* To meet is an equivalence on the keys that can be in a dict.
LEMMA MeetSymmetric ==
  ASSUME NEW v, NEW w, Meet(v, w)
  PROVE  Meet(w, v)
BY DEF Meet, Eql

LEMMA MeetTransitive ==
  ASSUME NEW u \in HashKey, ~Refused(u), NEW v \in HashKey, ~Refused(v),
         NEW w \in HashKey, ~Refused(w), Meet(u, v), Meet(v, w)
  PROVE  Meet(u, w)
<1>1. /\ Bytes(u) \/ Unicode(u) \/ Absent(u) \/ Numeric(u)
      /\ Bytes(v) \/ Unicode(v) \/ Absent(v) \/ Numeric(v)
      /\ Bytes(w) \/ Unicode(w) \/ Absent(w) \/ Numeric(w)
  BY KeyCases
<1>2. ASSUME NEW x, Bytes(x) \/ Unicode(x) \/ Absent(x) \/ Numeric(x)
      PROVE  \/ x \in Text
             \/ x.is = "nil" \/ (x.is = "Integer" /\ x.value \notin Fixnum)
             \/ x.is \in {"Integer", "Float", "bool"} /\ x.value \in {0, 1}
  BY <1>2, LongAssumption DEF Bytes, Unicode, Absent, Numeric, Object, Fixnum, Long
<1>3. 0 \in Fixnum /\ 1 \in Fixnum
  BY LongAssumption DEF Fixnum, Long, MinLong
<1>4. QED
  BY <1>1, <1>2, <1>3, TextCases DEF Meet, Eql, AsciiOnly, ReadAs, IsText

\* Two keys that are one only when they come back are the same characters as
\* bytes and as a str, and no third key of the Hash is one with either.
LEMMA LonelyKeys ==
  ASSUME NEW u \in HashKey, ~Refused(u), NEW v \in HashKey, ~Refused(v),
         NEW w \in HashKey, ~Refused(w),
         Eql(ValueToRuby(ValueFromRuby(v)), ValueToRuby(ValueFromRuby(w))),
         ~PyEqual(ValueFromRuby(v), ValueFromRuby(w)), ~Eql(v, w),
         PyEqual(ValueFromRuby(u), ValueFromRuby(v)), ~Eql(u, w)
  PROVE  u = v
<1>1. /\ Bytes(u) \/ Unicode(u) \/ Absent(u) \/ Numeric(u)
      /\ Bytes(v) \/ Unicode(v) \/ Absent(v) \/ Numeric(v)
      /\ Bytes(w) \/ Unicode(w) \/ Absent(w) \/ Numeric(w)
  BY KeyCases
<1>2. (Bytes(v) /\ Unicode(w)) \/ (Unicode(v) /\ Bytes(w))
  BY <1>1 DEF Bytes, Unicode, Absent, Numeric, Eql, AsciiOnly, PyEqual, Object, String, PyNone
<1>3. v.value = "ascii" /\ w.value = "ascii"
  BY <1>2 DEF Bytes, Unicode, Eql, AsciiOnly, PyEqual, Object, String
<1>4. CASE Bytes(v) /\ Unicode(w)
  <2>1. Bytes(u) /\ u.value = "ascii"
    BY <1>1, <1>3, <1>4 DEF Bytes, Unicode, Absent, Numeric, PyEqual, Object, PyNone
  <2>2. QED
    BY <1>3, <1>4, <2>1 DEF Bytes, Unicode, Text, String, Symbol
<1>5. CASE Unicode(v) /\ Bytes(w)
  <2>1. Unicode(u) /\ u.value = "ascii"
    BY <1>1, <1>3, <1>5 DEF Bytes, Unicode, Absent, Numeric, PyEqual, Object, PyNone
  <2>2. w = String("ascii", "BINARY")
    BY <1>3, <1>5 DEF Bytes, Unicode, Text, String, Symbol
  <2>3. u = Symbol("ascii") /\ v = Symbol("ascii")
    BY <1>3, <1>5, <2>1, <2>2 DEF Unicode, Text, String, Symbol, Eql, AsciiOnly
  <2>4. QED
    BY <2>3
<1>6. QED
  BY <1>2, <1>4, <1>5


-----------------------------------------------------------------------------
(* A Hash on its way.                                                       *)

\* The keys of a Hash are apart, and each has its place as its value.
LEMMA HashFacts ==
  ASSUME NEW h \in Hash
  PROVE  /\ Len(h) \in Nat /\ h = [i \in 1..Len(h) |-> h[i]]
         /\ \A i \in 1..Len(h) : h[i][1] \in HashKey /\ h[i][2] = Object("Float", i)
         /\ \A i, j \in 1..Len(h) : Eql(h[i][1], h[j][1]) => i = j
<1>1. PICK ks \in Keys : h = [i \in DOMAIN ks |-> <<ks[i], Object("Float", i)>>]
  BY DEF Hash
<1>2. PICK n \in Nat : ks \in [1..n -> HashKey]
  BY ValuesAssumption DEF Keys, BoundedSeq, SeqOf
<1>3. DOMAIN h = 1..n /\ \A i \in 1..n : h[i][1] = ks[i] /\ h[i][2] = Object("Float", i)
  BY <1>1, <1>2
<1>4. Len(h) = n /\ h = [i \in 1..n |-> h[i]]
  BY <1>1, <1>2
<1>5. \A i, j \in DOMAIN ks : Eql(ks[i], ks[j]) => i = j
  BY DEF Keys
<1>6. QED
  BY <1>2, <1>3, <1>4, <1>5

PyKeys(h)     == [i \in DOMAIN h |-> ValueFromRuby(h[i][1])]
PyValues(h)   == [i \in DOMAIN h |-> Object("float", i)]
RubyKeys(d)   == [e \in DOMAIN d |-> ValueToRuby(d[e][1])]
RubyValues(d) == [e \in DOMAIN d |-> ValueToRuby(d[e][2])]

Dict == Seq(PyObject \X PyObject)

\* The dict and the Hash that came back are as they should be, if both are
\* tables of the entries they were made from.
LEMMA HashComesBack ==
  ASSUME NEW h \in Hash, \A i \in DOMAIN h : ~Refused(h[i][1]),
         NEW dict \in Dict, Table(dict, Len(h), PyKeys(h), PyValues(h), PyClass),
         NEW back \in Seq(RubyObject \X RubyObject),
         Table(back, Len(dict), RubyKeys(dict), RubyValues(dict), RubyClass),
         NEW Latest,
         Latest = {i \in DOMAIN h : \A j \in DOMAIN h : Meet(h[i][1], h[j][1]) => j <= i}
  PROVE  /\ Len(back) = Cardinality(Latest)
         /\ \A i \in Latest : \E b \in DOMAIN back : \E j \in DOMAIN h :
              /\ Meet(h[j][1], h[i][1]) /\ Survives(h[j][1], back[b][1])
              /\ Survives(h[i][2], back[b][2])
<1> DEFINE n    == Len(h)
           K    == PyKeys(h)
           R(i) == ValueToRuby(K[i])
           PC(p) == PyClass[p]
           RC(v) == RubyClass[v]
           RK(d) == ValueToRuby(dict[d][1])
           J(d)  == dict[d][2].value
           F(b)  == back[b][2].value
<1>1. /\ n \in Nat /\ DOMAIN h = 1..n
      /\ \A i \in 1..n : /\ h[i][1] \in HashKey /\ ~Refused(h[i][1])
                         /\ h[i][2] = Object("Float", i)
                         /\ K[i] = ValueFromRuby(h[i][1]) /\ K[i] \in PyObject
                         /\ R(i) \in RubyObject /\ Survives(h[i][1], R(i))
                         /\ PyValues(h)[i] = Object("float", i)
                         /\ ValueToRuby(Object("float", i)) = Object("Float", i)
      /\ \A i, j \in 1..n : Eql(h[i][1], h[j][1]) => i = j
  BY HashFacts, KeyStorable DEF PyKeys, PyValues
<1>2. \A x, y \in 1..n : Meet(h[x][1], h[y][1]) <=> PC(K[x]) = PC(K[y]) \/ RC(R(x)) = RC(R(y))
  <2> TAKE x \in 1..n, y \in 1..n
  <2>1. Meet(h[x][1], h[y][1]) <=> PyEqual(K[x], K[y]) \/ Eql(R(x), R(y))
    BY <1>1, MeetingKeys
  <2>2. (PC(K[x]) = PC(K[y]) <=> PyEqual(K[x], K[y])) /\ (RC(R(x)) = RC(R(y)) <=> Eql(R(x), R(y)))
    BY <1>1, PyClasses, RubyClasses
  <2>3. QED
    BY <2>1, <2>2
<1>3. ASSUME NEW u \in 1..n, NEW v \in 1..n, NEW w \in 1..n,
             RC(R(v)) = RC(R(w)), PC(K[v]) # PC(K[w]), PC(K[u]) = PC(K[v])
      PROVE  u = v
  <2>1. Eql(R(v), R(w)) /\ ~PyEqual(K[v], K[w]) /\ PyEqual(K[u], K[v])
    BY <1>1, <1>3, PyClasses, RubyClasses
  <2>2. v # w /\ u # w
    BY <1>3
  <2>3. ~Eql(h[v][1], h[w][1]) /\ ~Eql(h[u][1], h[w][1])
    BY <2>2, <1>1
  <2>4. h[u][1] = h[v][1]
    BY <2>1, <2>3, <1>1, LonelyKeys
  <2>5. QED
    BY <2>4, <1>1 DEF Eql
<1> DEFINE InDictAt(d) == /\ J(d) \in 1..n /\ dict[d][2] = Object("float", J(d))
                          /\ PC(dict[d][1]) = PC(K[J(d)])
                          /\ \E i \in 1..n : dict[d][1] = K[i]
                          /\ \A l \in 1..n : PC(K[l]) = PC(dict[d][1]) => l <= J(d)
<1>4. DOMAIN dict = 1..Len(dict) /\ Len(dict) \in Nat /\ \A d \in DOMAIN dict : InDictAt(d)
  <2>1. DOMAIN dict = 1..Len(dict) /\ Len(dict) \in Nat
    BY DEF Dict
  <2>2. ASSUME NEW d \in DOMAIN dict
        PROVE  InDictAt(d)
    <3>1. Entry(dict, d, n, K, PyValues(h), PyClass)
      BY DEF Table
    <3>2. PICK i \in 1..n, j \in 1..n :
            /\ dict[d][1] = K[i] /\ dict[d][2] = PyValues(h)[j]
            /\ PC(K[i]) = PC(K[j])
            /\ \A l \in 1..n : PC(K[l]) = PC(K[i]) => l <= j
      BY <3>1 DEF Entry
    <3>3. dict[d][2] = Object("float", j) /\ J(d) = j
      <4>1. dict[d][2] = Object("float", j)
        BY <3>2, <1>1
      <4>2. Object("float", j).value = j
        BY DEF Object
      <4>3. QED
        BY <4>1, <4>2
    <3>4. QED
      BY <3>2, <3>3
  <2>3. QED
    BY <2>1, <2>2
<1>4a. DOMAIN dict \subseteq Nat
  BY DEF Dict
<1>5. /\ \A i \in 1..n : \E e \in DOMAIN dict : PC(dict[e][1]) = PC(K[i])
      /\ \A c, d \in DOMAIN dict : PC(dict[c][1]) = PC(dict[d][1]) => c = d
      /\ \A c, d \in DOMAIN dict, j \in 1..n :
           c < d /\ PC(K[j]) = PC(dict[d][1]) =>
             \E i \in 1..n : i < j /\ PC(K[i]) = PC(dict[c][1])
  BY DEF Table
<1> DEFINE BackAt(b) == \E c, d \in DOMAIN dict :
                          /\ back[b][1] = RK(c) /\ back[b][2] = Object("Float", J(d))
                          /\ F(b) = J(d) /\ RC(RK(c)) = RC(RK(d))
                          /\ \A e \in DOMAIN dict : RC(RK(e)) = RC(RK(c)) => e <= d
<1>6. DOMAIN back = 1..Len(back) /\ Len(back) \in Nat /\ \A b \in DOMAIN back : BackAt(b)
  <2>1. DOMAIN back = 1..Len(back) /\ Len(back) \in Nat
    OBVIOUS
  <2>2. ASSUME NEW b \in DOMAIN back
        PROVE  BackAt(b)
    <3>1. Entry(back, b, Len(dict), RubyKeys(dict), RubyValues(dict), RubyClass)
      BY DEF Table
    <3>2. \A e \in 1..Len(dict) : e \in DOMAIN dict /\ RubyKeys(dict)[e] = RK(e)
                                    /\ RubyValues(dict)[e] = ValueToRuby(dict[e][2])
      BY <1>4 DEF RubyKeys, RubyValues
    <3>3. PICK c \in 1..Len(dict), d \in 1..Len(dict) :
            /\ back[b][1] = RK(c) /\ back[b][2] = ValueToRuby(dict[d][2])
            /\ RC(RK(c)) = RC(RK(d))
            /\ \A e \in 1..Len(dict) : RC(RK(e)) = RC(RK(c)) => e <= d
      BY <3>1, <3>2 DEF Entry
    <3>4. back[b][2] = Object("Float", J(d)) /\ F(b) = J(d)
      <4>1. dict[d][2] = Object("float", J(d)) /\ J(d) \in 1..n
        BY <3>3, <1>4
      <4>2. ValueToRuby(Object("float", J(d))) = Object("Float", J(d))
        BY <4>1, <1>1
      <4>3. back[b][2] = Object("Float", J(d))
        BY <4>1, <4>2, <3>3
      <4>4. Object("Float", J(d)).value = J(d)
        BY DEF Object
      <4>5. QED
        BY <4>3, <4>4
    <3>5. QED
      BY <3>2, <3>3, <3>4, <1>4
  <2>3. QED
    BY <2>1, <2>2
<1>7. /\ \A e \in DOMAIN dict : \E b \in DOMAIN back : RC(back[b][1]) = RC(RK(e))
      /\ \A a, b \in DOMAIN back : RC(back[a][1]) = RC(back[b][1]) => a = b
  <2>1. /\ \A e \in 1..Len(dict) :
              \E b \in DOMAIN back : RC(back[b][1]) = RC(RubyKeys(dict)[e])
        /\ \A a, b \in DOMAIN back : RC(back[a][1]) = RC(back[b][1]) => a = b
    BY Zenon DEF Table
  <2>2. DOMAIN dict = 1..Len(dict) /\ \A e \in DOMAIN dict : RubyKeys(dict)[e] = RK(e)
    BY <1>4 DEF RubyKeys
  <2> HIDE DEF RC, RK
  <2>3. QED
    BY <2>1, <2>2
<1>8. \A i \in 1..n : i \in Latest <=> \A j \in 1..n : Meet(h[i][1], h[j][1]) => j <= i
  BY <1>1
<1>9. \A d \in DOMAIN dict : \E i \in 1..n : RK(d) = R(i) /\ PC(K[i]) = PC(dict[d][1])
                                              /\ PC(K[i]) = PC(K[J(d)])
  BY <1>4
<1> HIDE DEF n, K, R, PC, RC, RK, J, F
<1>10. ASSUME NEW b \in DOMAIN back
       PROVE  F(b) \in Latest
  <2>1. PICK c \in DOMAIN dict, d \in DOMAIN dict :
          /\ F(b) = J(d) /\ RC(RK(c)) = RC(RK(d))
          /\ \A e \in DOMAIN dict : RC(RK(e)) = RC(RK(c)) => e <= d
    BY <1>6
  <2> DEFINE l == J(d)
  <2>2. /\ l \in 1..n /\ PC(dict[d][1]) = PC(K[l])
        /\ \A x \in 1..n : PC(K[x]) = PC(dict[d][1]) => x <= l
    BY <1>4
  <2> HIDE DEF l
  <2>3. ASSUME NEW x \in 1..n, Meet(h[l][1], h[x][1])
        PROVE  x <= l
    <3>1. CASE PC(K[l]) = PC(K[x])
      BY <3>1, <2>2
    <3>2. CASE PC(K[l]) # PC(K[x])
      <4>1. RC(R(l)) = RC(R(x))
        BY <3>2, <2>2, <2>3, <1>2
      <4>2. PICK e \in DOMAIN dict : PC(dict[e][1]) = PC(K[x])
        BY <1>5
      <4>3. PICK i \in 1..n : RK(e) = R(i) /\ PC(K[i]) = PC(dict[e][1])
        BY <1>9
      <4>4. i = x
        BY <4>1, <4>2, <4>3, <3>2, <2>2, <1>3
      <4>5. PICK k \in 1..n : RK(d) = R(k) /\ PC(K[k]) = PC(dict[d][1])
        BY <1>9
      <4>6. k = l
        BY <4>1, <4>5, <3>2, <2>2, <1>3
      <4>7. RC(RK(e)) = RC(RK(c))
        BY <4>1, <4>3, <4>4, <4>5, <4>6, <2>1
      <4>8. e < d
        <5>1. e <= d
          BY <4>7, <2>1
        <5>2. e # d
          BY <4>2, <3>2, <2>2
        <5>3. e \in Nat /\ d \in Nat
          BY <1>4a
        <5>4. QED
          BY <5>1, <5>2, <5>3
      <4>9. PICK y \in 1..n : y < l /\ PC(K[y]) = PC(dict[e][1])
        BY <4>8, <2>2, <1>5
      <4>10. y = x
        BY <4>1, <4>2, <4>9, <3>2, <2>2, <1>3
      <4>11. QED
        BY <4>9, <4>10, <2>2, <1>1
    <3>3. QED
      BY <3>1, <3>2
  <2>4. QED
    BY <2>1, <2>2, <2>3, <1>8 DEF l
<1>11. ASSUME NEW i \in Latest
       PROVE  \E b \in DOMAIN back : \E j \in 1..n :
                /\ F(b) = i /\ back[b][2] = Object("Float", i)
                /\ back[b][1] = R(j) /\ Meet(h[j][1], h[i][1])
  <2>1. i \in 1..n
    BY <1>1
  <2>2. PICK e \in DOMAIN dict : PC(dict[e][1]) = PC(K[i])
    BY <2>1, <1>5
  <2>3. PICK ie \in 1..n : RK(e) = R(ie) /\ PC(K[ie]) = PC(dict[e][1])
    BY <1>9
  <2>4. PICK b \in DOMAIN back : RC(back[b][1]) = RC(RK(e))
    BY <1>7
  <2>5. PICK c \in DOMAIN dict, d \in DOMAIN dict :
          /\ back[b][1] = RK(c) /\ back[b][2] = Object("Float", J(d))
          /\ F(b) = J(d) /\ RC(RK(c)) = RC(RK(d))
    BY <1>6
  <2>6. PICK ic \in 1..n : RK(c) = R(ic)
    BY <1>9
  <2>7. PICK id \in 1..n : RK(d) = R(id) /\ PC(K[id]) = PC(K[J(d)])
    BY <1>9
  <2>8. J(d) \in 1..n
    BY <1>4
  <2>9. /\ Meet(h[ie][1], h[i][1]) /\ Meet(h[ic][1], h[ie][1])
        /\ Meet(h[id][1], h[ic][1]) /\ Meet(h[J(d)][1], h[id][1])
    BY <2>1, <2>2, <2>3, <2>4, <2>5, <2>6, <2>7, <2>8, <1>2
  <2>10. Meet(h[ic][1], h[i][1])
    <3>1. \A x \in {i, ic, ie} : h[x][1] \in HashKey /\ ~Refused(h[x][1])
      BY <2>1, <1>1
    <3>2. QED
      BY <2>9, <3>1, MeetTransitive
  <2>11. Meet(h[J(d)][1], h[i][1])
    <3>1. Meet(h[id][1], h[i][1])
      BY <2>9, <2>10, <2>1, <1>1, MeetTransitive
    <3>2. QED
      BY <3>1, <2>9, <2>1, <2>8, <1>1, MeetTransitive
  <2>12. J(d) = i
    <3>1. J(d) \in Latest
      BY <2>5, <1>10
    <3>2. Meet(h[i][1], h[J(d)][1])
      BY <2>11, MeetSymmetric
    <3>3. i <= J(d) /\ J(d) <= i
      BY <3>1, <3>2, <2>1, <2>8, <2>11, <1>8
    <3>4. QED
      BY <3>3, <2>1, <2>8, <1>1
  <2>13. QED
    BY <2>5, <2>6, <2>10, <2>12
<1>12. ASSUME NEW a \in DOMAIN back, NEW b \in DOMAIN back, F(a) = F(b)
       PROVE  a = b
  <2>1. PICK c \in DOMAIN dict, d \in DOMAIN dict :
          back[a][1] = RK(c) /\ F(a) = J(d) /\ RC(RK(c)) = RC(RK(d))
    BY <1>6
  <2>2. PICK x \in DOMAIN dict, y \in DOMAIN dict :
          back[b][1] = RK(x) /\ F(b) = J(y) /\ RC(RK(x)) = RC(RK(y))
    BY <1>6
  <2>3. PC(dict[d][1]) = PC(dict[y][1])
    <3>1. J(d) = J(y)
      BY <2>1, <2>2, <1>12
    <3>2. PC(dict[d][1]) = PC(K[J(d)]) /\ PC(dict[y][1]) = PC(K[J(y)])
      BY <1>4
    <3>3. QED
      BY <3>1, <3>2
  <2>4. d = y
    BY <2>3, <1>5
  <2>5. QED
    BY <2>1, <2>2, <2>4, <1>7
<1>13. Len(back) = Cardinality(Latest)
  <2> DEFINE f == [b \in 1..Len(back) |-> F(b)]
  <2>1. f \in [1..Len(back) -> Latest] /\ \A b \in 1..Len(back) : f[b] = F(b)
    BY <1>6, <1>10
  <2>2. \A a, b \in 1..Len(back) : f[a] = f[b] => a = b
    BY <2>1, <1>6, <1>12
  <2>3. \A i \in Latest : \E b \in 1..Len(back) : f[b] = i
    BY <2>1, <1>6, <1>11
  <2> HIDE DEF f
  <2>4. f \in Bijection(1..Len(back), Latest)
    BY <2>1, <2>2, <2>3 DEF Bijection, Injection, Surjection, IsInjective
  <2>5. ExistsBijection(1..Len(back), Latest)
    BY <2>4 DEF ExistsBijection
  <2>6. QED
    BY <2>5, <1>6, FS_CountingElements
<1>14. ASSUME NEW i \in Latest
       PROVE  \E b \in DOMAIN back : \E j \in DOMAIN h :
                /\ Meet(h[j][1], h[i][1]) /\ Survives(h[j][1], back[b][1])
                /\ Survives(h[i][2], back[b][2])
  <2>1. PICK b \in DOMAIN back, j \in 1..n :
          /\ back[b][2] = Object("Float", i)
          /\ back[b][1] = R(j) /\ Meet(h[j][1], h[i][1])
    BY <1>11
  <2>2. h[i][2] = Object("Float", i) /\ Survives(h[j][1], R(j)) /\ j \in DOMAIN h
    BY <1>1
  <2>3. Survives(h[i][2], back[b][2])
    BY <2>1, <2>2 DEF Survives, Object, IsText
  <2>4. QED
    BY <2>1, <2>2, <2>3
<1>15. QED
  BY <1>13, <1>14


\* What is left of s when m of its items have been taken.
RestOf(s, m) == [i \in 1..Len(s) - m |-> s[m + i]]

\* Head and Tail take the next item of s.
LEMMA RestSteps ==
  ASSUME NEW s, Len(s) \in Nat, NEW m \in 0..Len(s)
  PROVE  /\ RestOf(s, m) = <<>> <=> m = Len(s)
         /\ m # Len(s) => /\ Head(RestOf(s, m)) = s[m + 1]
                          /\ Tail(RestOf(s, m)) = RestOf(s, m + 1)
                          /\ m + 1 \in 1..Len(s)
         /\ s = [i \in 1..Len(s) |-> s[i]] => RestOf(s, 0) = s
<1> DEFINE r == RestOf(s, m)
<1>1. /\ DOMAIN r = 1..Len(s) - m /\ \A i \in 1..Len(s) - m : r[i] = s[m + i]
      /\ Len(r) = Len(s) - m /\ r = [i \in 1..Len(s) - m |-> r[i]]
  <2>1. Len(s) - m \in Nat
    OBVIOUS
  <2>2. r = [i \in 1..Len(s) - m |-> s[m + i]]
    BY DEF RestOf
  <2> HIDE DEF r
  <2>3. QED
    BY <2>1, <2>2
<1> HIDE DEF r
<1>2. r = <<>> <=> m = Len(s)
  BY <1>1
<1>3. ASSUME m # Len(s)
      PROVE  Head(r) = s[m + 1] /\ Tail(r) = RestOf(s, m + 1) /\ m + 1 \in 1..Len(s)
  <2>1. 1 \in 1..Len(s) - m
    BY <1>3
  <2>2. Head(r) = r[1]
    BY <1>1
  <2>3. Tail(r) = [i \in 1..Len(s) - m - 1 |-> r[i + 1]]
    BY <1>1, <1>3, <2>1
  <2>4. \A i \in 1..Len(s) - m - 1 : r[i + 1] = s[m + 1 + i]
    BY <1>1
  <2>5. Tail(r) = [i \in 1..Len(s) - (m + 1) |-> s[m + 1 + i]]
    BY <2>3, <2>4
  <2>6. Tail(r) = RestOf(s, m + 1)
    BY <2>5, Zenon DEF RestOf
  <2>7. r[1] = s[m + 1]
    BY <1>1, <2>1
  <2>8. m + 1 \in 1..Len(s)
    BY <1>3
  <2>9. QED
    BY <2>2, <2>6, <2>7, <2>8
<1>4. RestOf(s, 0) = [i \in 1..Len(s) |-> s[i]]
  <2>1. 1..Len(s) - 0 = 1..Len(s) /\ \A i \in 1..Len(s) : 0 + i = i
    OBVIOUS
  <2>2. QED
    BY <2>1, Zenon DEF RestOf
<1>5. QED
  BY <1>2, <1>3, <1>4 DEF r

\* The dict after m entries of h, and the Hash after m entries of the dict.
DictSoFar(h, m, rest, got) ==
  /\ rest = RestOf(h, m) /\ got \in Dict
  /\ Table(got, m, PyKeys(h), PyValues(h), PyClass)
  /\ \A i \in 1..m : ~Refused(h[i][1])

BackSoFar(dict, m, rest, back) ==
  /\ rest = RestOf(dict, m) /\ back \in Seq(RubyObject \X RubyObject)
  /\ Table(back, m, RubyKeys(dict), RubyValues(dict), RubyClass)

\* No entries are a table of no keys.
LEMMA EmptyTable ==
  ASSUME NEW K, NEW V, NEW C
  PROVE  Table(<<>>, 0, K, V, C)
BY DEF Table

\* PyObject_SetItem for one more entry.
LEMMA SetOne ==
  ASSUME NEW h \in Hash, NEW m \in 0..Len(h), NEW rest, NEW got,
         DictSoFar(h, m, rest, got), rest # <<>>,
         NEW k, k = ValueFromRuby(Head(rest)[1]),
         NEW v, v = ValueFromRuby(Head(rest)[2])
  PROVE  /\ m + 1 \in 1..Len(h)
         /\ Storable(k, v) => DictSoFar(h, m + 1, Tail(rest), Store(got, InDict(got, k), k, v))
         /\ ~Storable(k, v) => Refused(h[m + 1][1])
<1>1. /\ m + 1 \in 1..Len(h) /\ Head(rest) = h[m + 1] /\ Tail(rest) = RestOf(h, m + 1)
  BY RestSteps, HashFacts DEF DictSoFar
<1>2. h[m + 1][1] \in HashKey /\ h[m + 1][2] = Object("Float", m + 1) /\ m + 1 \in Nat
  BY <1>1, HashFacts
<1>3. v = Object("float", m + 1) /\ (Storable(k, v) <=> ~Refused(h[m + 1][1]))
  BY <1>1, <1>2, KeyStorable
<1>4. ASSUME Storable(k, v)
      PROVE  DictSoFar(h, m + 1, Tail(rest), Store(got, InDict(got, k), k, v))
  <2> DEFINE K == PyKeys(h)
             V == PyValues(h)
  <2>1. \A i \in 1..m + 1 : i \in 1..Len(h) /\ (i \in 1..m \/ i = m + 1)
    BY <1>1, HashFacts
  <2>2. \A i \in 1..m + 1 : ~Refused(h[i][1])
    BY <1>3, <1>4, <2>1 DEF DictSoFar
  <2>3. DOMAIN h = 1..Len(h)
    BY HashFacts
  <2>4. \A i \in 1..m + 1 : /\ K[i] = ValueFromRuby(h[i][1]) /\ V[i] = Object("float", i)
                            /\ K[i] \in PyObject /\ V[i] \in PyObject
    <3> TAKE i \in 1..m + 1
    <3>1. K[i] = ValueFromRuby(h[i][1]) /\ V[i] = Object("float", i)
      BY <2>1, <2>3 DEF PyKeys, PyValues
    <3>2. h[i][1] \in HashKey /\ ~Refused(h[i][1]) /\ i \in Nat
      BY <2>1, <2>2, HashFacts
    <3>3. QED
      BY <3>1, <3>2, KeyStorable
  <2>5. K[m + 1] = k /\ V[m + 1] = v /\ k \in PyObject
    BY <2>4, <1>1, <1>2, <1>3
  <2>6. got \in Seq(PyObject \X PyObject) /\ Table(got, m, K, V, PyClass)
    BY DEF DictSoFar, Dict
  <2>7. \A e \in DOMAIN got : got[e][1] \in PyObject
    BY <2>6
  <2>8. InDict(got, k) = {e \in DOMAIN got : PyClass[got[e][1]] = PyClass[k]}
    BY <2>5, <2>7, PyClasses DEF InDict
  <2> HIDE DEF K, V
  <2>9. /\ Store(got, InDict(got, k), k, v) \in Seq(PyObject \X PyObject)
        /\ Table(Store(got, InDict(got, k), k, v), m + 1, K, V, PyClass)
    <3>1. InDict(got, k) = {e \in DOMAIN got : PyClass[got[e][1]] = PyClass[K[m + 1]]}
      BY <2>5, <2>8
    <3>2. /\ Store(got, InDict(got, k), K[m + 1], V[m + 1]) \in Seq(PyObject \X PyObject)
          /\ Table(Store(got, InDict(got, k), K[m + 1], V[m + 1]), m + 1, K, V, PyClass)
      <4>1. m \in Nat
        BY HashFacts
      <4>2. QED
        BY <4>1, <3>1, <2>4, <2>6, StoreKeepsTable
    <3>3. QED
      BY <3>2, <2>5
  <2>10. QED
    BY <1>1, <2>2, <2>9 DEF DictSoFar, Dict, K, V
<1>5. QED
  BY <1>1, <1>3, <1>4

\* Hash#update for one more entry of the dict.
LEMMA UpdateOne ==
  ASSUME NEW h \in Hash, \A i \in DOMAIN h : ~Refused(h[i][1]),
         NEW dict \in Dict, Table(dict, Len(h), PyKeys(h), PyValues(h), PyClass),
         NEW m \in 0..Len(dict), NEW rest, NEW back,
         BackSoFar(dict, m, rest, back), rest # <<>>,
         NEW k, k = ValueToRuby(Head(rest)[1]),
         NEW v, v = ValueToRuby(Head(rest)[2])
  PROVE  /\ m + 1 \in 1..Len(dict)
         /\ BackSoFar(dict, m + 1, Tail(rest), Store(back, InHash(back, k), k, v))
<1> DEFINE K == RubyKeys(dict)
           V == RubyValues(dict)
<1>1. DOMAIN dict = 1..Len(dict) /\ Len(dict) \in Nat /\ m \in Nat
  BY DEF Dict
<1>2. m + 1 \in 1..Len(dict) /\ Head(rest) = dict[m + 1] /\ Tail(rest) = RestOf(dict, m + 1)
  BY <1>1, RestSteps DEF BackSoFar
<1>3. ASSUME NEW e \in 1..Len(dict)
      PROVE  /\ K[e] = ValueToRuby(dict[e][1]) /\ V[e] = ValueToRuby(dict[e][2])
             /\ K[e] \in RubyObject /\ V[e] \in RubyObject
  <2>1. K[e] = ValueToRuby(dict[e][1]) /\ V[e] = ValueToRuby(dict[e][2])
    BY <1>1 DEF RubyKeys, RubyValues
  <2>2. Entry(dict, e, Len(h), PyKeys(h), PyValues(h), PyClass)
    BY <1>1 DEF Table
  <2>3. PICK i \in 1..Len(h), j \in 1..Len(h) :
          dict[e][1] = PyKeys(h)[i] /\ dict[e][2] = PyValues(h)[j]
    BY <2>2 DEF Entry
  <2>4. DOMAIN h = 1..Len(h) /\ j \in Nat
    BY HashFacts
  <2>5. dict[e][1] = ValueFromRuby(h[i][1]) /\ dict[e][2] = Object("float", j)
    BY <2>3, <2>4 DEF PyKeys, PyValues
  <2>6. h[i][1] \in HashKey /\ ~Refused(h[i][1])
    BY <2>4, HashFacts
  <2>7. QED
    BY <2>1, <2>4, <2>5, <2>6, KeyStorable
<1>4. back \in Seq(RubyObject \X RubyObject) /\ Table(back, m, K, V, RubyClass)
  BY DEF BackSoFar
<1>5. K[m + 1] = k /\ V[m + 1] = v /\ k \in RubyObject
  BY <1>2, <1>3
<1>6. \A i \in 1..m + 1 : K[i] \in RubyObject /\ V[i] \in RubyObject
  BY <1>1, <1>2, <1>3
<1>7. InHash(back, k) = {e \in DOMAIN back : RubyClass[back[e][1]] = RubyClass[K[m + 1]]}
  <2>1. \A e \in DOMAIN back : back[e][1] \in RubyObject
    BY <1>4
  <2>2. QED
    BY <2>1, <1>5, RubyClasses DEF InHash
<1> HIDE DEF K, V
<1>8. /\ Store(back, InHash(back, k), K[m + 1], V[m + 1]) \in Seq(RubyObject \X RubyObject)
      /\ Table(Store(back, InHash(back, k), K[m + 1], V[m + 1]), m + 1, K, V, RubyClass)
  BY <1>1, <1>4, <1>6, <1>7, StoreKeepsTable
<1>9. QED
  BY <1>2, <1>5, <1>8 DEF BackSoFar, K, V


\* What every state keeps of the Hash on its way: after an exception one of
\* its keys is refused, and otherwise the entries so far are a table.
InPython(h) ==
  \/ passed.got = NULL /\ passed.rest = <<>> /\ \E i \in DOMAIN h : Refused(h[i][1])
  \/ \E m \in 0..Len(h) : DictSoFar(h, m, passed.rest, passed.got)

InRuby(h) ==
  /\ \A i \in DOMAIN h : ~Refused(h[i][1])
  /\ \E dict \in Dict :
       /\ Table(dict, Len(h), PyKeys(h), PyValues(h), PyClass)
       /\ \E m \in 0..Len(dict) : BackSoFar(dict, m, passed.rest, passed.back)

HashOnItsWay ==
  /\ passed.op = "hash" => \E h \in Hash : passed.sent = h /\ InPython(h)
  /\ passed.op = "hash back" => \E h \in Hash : passed.sent = h /\ InRuby(h)

LEMMA InitHashOnItsWay == InitV => HashOnItsWay
BY DEF InitV, Nothing, HashOnItsWay

\* The version of Python does not change on the way.
LEMMA KeysKept ==
  ASSUME python3' = python3, NEW h
  PROVE  PyKeys(h)' = PyKeys(h)
BY DEF PyKeys, ValueFromRuby, TextFromRuby, PyNone

LEMMA NextHashOnItsWay == HashOnItsWay /\ [NextV]_varsV => HashOnItsWay'
<1> SUFFICES ASSUME HashOnItsWay, [NextV]_varsV
             PROVE  HashOnItsWay'
  OBVIOUS
<1>1. python3' = python3
  BY DEF NextV, varsV, PassText, PassArray, PassHash, Begin, SetItem, TextBack, ArrayBack,
         HashBack, Update, GoOnV
<1>2. \A h : PyKeys(h)' = PyKeys(h)
  BY <1>1, KeysKept
<1>3. CASE UNCHANGED passed
  <2>1. \A h, m : DictSoFar(h, m, passed.rest, passed.got)' <=> DictSoFar(h, m, passed.rest, passed.got)
    BY <1>2, <1>3 DEF DictSoFar
  <2>2. \A h : InPython(h)' <=> InPython(h)
    BY <1>3, <2>1 DEF InPython
  <2>3. \A h : InRuby(h)' <=> InRuby(h)
    BY <1>2, <1>3 DEF InRuby
  <2>4. QED
    BY <1>3, <2>2, <2>3 DEF HashOnItsWay
<1>4. ASSUME NEW h \in Hash, PassHash(h)
      PROVE  HashOnItsWay'
  <2>1. passed' = [op |-> "hash", sent |-> h, rest |-> h, got |-> <<>>]
    BY <1>4 DEF PassHash, Begin
  <2>2. Len(h) \in Nat /\ h = RestOf(h, 0)
    BY HashFacts, RestSteps
  <2>3. DictSoFar(h, 0, passed.rest, passed.got)'
    BY <2>1, <2>2, EmptyTable DEF DictSoFar, Dict
  <2>4. InPython(h)'
    BY <2>2, <2>3 DEF InPython
  <2>5. QED
    BY <2>1, <2>4 DEF HashOnItsWay
<1>5. CASE SetItem
  <2>1. PICK h \in Hash : passed.sent = h /\ InPython(h)
    BY <1>5 DEF SetItem, HashOnItsWay
  <2>2. PICK m \in 0..Len(h) : DictSoFar(h, m, passed.rest, passed.got)
    BY <1>5, <2>1 DEF SetItem, InPython
  <2>3. PICK k, v :
          /\ k = ValueFromRuby(Head(passed.rest)[1]) /\ v = ValueFromRuby(Head(passed.rest)[2])
          /\ IF Storable(k, v)
             THEN InHand(Tail(passed.rest), Store(passed.got, InDict(passed.got, k), k, v))
             ELSE InHand(<<>>, NULL)
    BY <1>5 DEF SetItem
  <2>4. passed.rest # <<>>
    BY <1>5 DEF SetItem
  <2> DEFINE dict == Store(passed.got, InDict(passed.got, k), k, v)
  <2>5. /\ m + 1 \in 1..Len(h)
        /\ Storable(k, v) => DictSoFar(h, m + 1, Tail(passed.rest), dict)
        /\ ~Storable(k, v) => Refused(h[m + 1][1])
    BY <2>2, <2>3, <2>4, SetOne
  <2>6. CASE Storable(k, v)
    <3>1. passed' = [op |-> "hash", sent |-> h, rest |-> Tail(passed.rest), got |-> dict]
      BY <2>1, <2>3, <2>6 DEF InHand
    <3>2. DictSoFar(h, m + 1, Tail(passed.rest), dict)
      BY <2>5, <2>6
    <3> HIDE DEF dict
    <3>3. DictSoFar(h, m + 1, passed.rest, passed.got)'
      BY <3>1, <3>2, <1>2 DEF DictSoFar
    <3>4. m + 1 \in 0..Len(h)
      BY <2>5, HashFacts
    <3>5. InPython(h)'
      BY <3>3, <3>4 DEF InPython
    <3>6. QED
      BY <3>1, <3>5 DEF HashOnItsWay
  <2>7. CASE ~Storable(k, v)
    <3>1. passed' = [op |-> "hash", sent |-> h, rest |-> <<>>, got |-> NULL]
      BY <2>1, <2>3, <2>7 DEF InHand
    <3>2. m + 1 \in DOMAIN h /\ Refused(h[m + 1][1])
      BY <2>5, <2>7, HashFacts
    <3>3. InPython(h)'
      BY <3>1, <3>2 DEF InPython
    <3>4. QED
      BY <3>1, <3>3 DEF HashOnItsWay
  <2>8. QED
    BY <2>6, <2>7
<1>6. CASE HashBack
  <2>1. PICK h \in Hash : passed.sent = h /\ InPython(h)
    BY <1>6 DEF HashBack, HashOnItsWay
  <2>2. PICK m \in 0..Len(h) : DictSoFar(h, m, passed.rest, passed.got)
    BY <1>6, <2>1 DEF HashBack, InPython
  <2> DEFINE dict == passed.got
  <2>3. m = Len(h)
    BY <1>6, <2>2, RestSteps, HashFacts DEF HashBack, DictSoFar
  <2>4. /\ dict \in Dict /\ Table(dict, Len(h), PyKeys(h), PyValues(h), PyClass)
        /\ \A i \in DOMAIN h : ~Refused(h[i][1])
    BY <2>2, <2>3, HashFacts DEF DictSoFar
  <2>5. passed' = [op |-> "hash back", sent |-> h, rest |-> dict, back |-> <<>>]
    BY <1>6, <2>1 DEF HashBack
  <2>6. Len(dict) \in Nat /\ dict = RestOf(dict, 0)
    BY <2>4, RestSteps DEF Dict
  <2>7. PICK d \in Dict : d = dict
    BY <2>4
  <2> HIDE DEF dict
  <2>8. BackSoFar(d, 0, passed.rest, passed.back)'
    <3>1. d = RestOf(d, 0) /\ passed'.rest = d /\ passed'.back = <<>>
      BY <2>5, <2>6, <2>7
    <3>2. Table(<<>>, 0, RubyKeys(d), RubyValues(d), RubyClass)
      BY EmptyTable
    <3>3. QED
      BY <3>1, <3>2 DEF BackSoFar
  <2>9. Table(d, Len(h), PyKeys(h), PyValues(h), PyClass)'
    BY <2>4, <2>7, <1>2
  <2>10. InRuby(h)'
    BY <2>4, <2>6, <2>7, <2>8, <2>9 DEF InRuby
  <2>11. QED
    BY <2>5, <2>10 DEF HashOnItsWay
<1>7. CASE Update
  <2>1. PICK h \in Hash : passed.sent = h /\ InRuby(h)
    BY <1>7 DEF Update, HashOnItsWay
  <2>0. PICK dict \in Dict :
          /\ Table(dict, Len(h), PyKeys(h), PyValues(h), PyClass)
          /\ \E m \in 0..Len(dict) : BackSoFar(dict, m, passed.rest, passed.back)
    BY <2>1 DEF InRuby
  <2>2. PICK m \in 0..Len(dict) : BackSoFar(dict, m, passed.rest, passed.back)
    BY <2>0
  <2>3. PICK k, v :
          /\ k = ValueToRuby(Head(passed.rest)[1]) /\ v = ValueToRuby(Head(passed.rest)[2])
          /\ passed' = [op |-> "hash back", sent |-> passed.sent, rest |-> Tail(passed.rest),
                        back |-> Store(passed.back, InHash(passed.back, k), k, v)]
    BY <1>7 DEF Update
  <2> DEFINE back == Store(passed.back, InHash(passed.back, k), k, v)
  <2>4. /\ m + 1 \in 1..Len(dict)
        /\ BackSoFar(dict, m + 1, Tail(passed.rest), back)
    <3>1. passed.rest # <<>> /\ \A i \in DOMAIN h : ~Refused(h[i][1])
      BY <1>7, <2>1 DEF Update, InRuby
    <3>2. QED
      BY <3>1, <2>0, <2>2, <2>3, UpdateOne
  <2>5. passed' = [op |-> "hash back", sent |-> h, rest |-> Tail(passed.rest), back |-> back]
    BY <2>1, <2>3
  <2> HIDE DEF back
  <2>6. BackSoFar(dict, m + 1, passed.rest, passed.back)'
    BY <2>4, <2>5 DEF BackSoFar
  <2>7. Table(dict, Len(h), PyKeys(h), PyValues(h), PyClass)'
    BY <2>0, <1>2
  <2>8. m + 1 \in 0..Len(dict)
    BY <2>4
  <2>9. InRuby(h)'
    BY <2>1, <2>6, <2>7, <2>8 DEF InRuby
  <2>10. QED
    BY <2>5, <2>9 DEF HashOnItsWay
<1>8. ASSUME \/ \E v \in Text : PassText(v)
             \/ \E a \in BoundedSeq(Scalar, MaxEntries) : PassArray(a)
             \/ TextBack \/ ArrayBack \/ GoOnV
      PROVE  HashOnItsWay'
  <2>1. passed'.op \in {"text", "array", "text back", "array back", "nothing"}
    <3>1. ASSUME NEW v \in Text, PassText(v)
          PROVE  passed'.op = "text"
      BY <3>1 DEF PassText, Begin
    <3>2. ASSUME NEW a \in BoundedSeq(Scalar, MaxEntries), PassArray(a)
          PROVE  passed'.op = "array"
      BY <3>2 DEF PassArray, Begin
    <3>3. CASE TextBack
      BY <3>3 DEF TextBack
    <3>4. CASE ArrayBack
      BY <3>4 DEF ArrayBack
    <3>5. CASE GoOnV
      BY <3>5 DEF GoOnV, Nothing
    <3>6. QED
      BY <1>8, <3>1, <3>2, <3>3, <3>4, <3>5
  <2>2. QED
    BY <2>1 DEF HashOnItsWay
<1>9. QED
  BY <1>3, <1>4, <1>5, <1>6, <1>7, <1>8 DEF NextV, varsV

\* A Hash of any length becomes a whole dict or an exception, whatever its
\* keys (pycall_pydict_from_ruby), and Dict#to_h brings each key back once,
\* with the last of the values of the keys that have met.
THEOREM HashesSurvive == SpecV => []HashSurvives
<1>1. ASSUME HashOnItsWay
      PROVE  HashSurvives
  <2>1. ASSUME passed.op = "hash", passed.rest = <<>>
        PROVE  passed.got = NULL <=> \E i \in DOMAIN passed.sent : Refused(passed.sent[i][1])
    <3>1. PICK h \in Hash : passed.sent = h /\ InPython(h)
      BY <1>1, <2>1 DEF HashOnItsWay
    <3>2. ASSUME NEW m \in 0..Len(h), DictSoFar(h, m, passed.rest, passed.got)
          PROVE  passed.got # NULL /\ \A i \in DOMAIN h : ~Refused(h[i][1])
      <4>1. m = Len(h) /\ DOMAIN h = 1..Len(h)
        BY <2>1, <3>2, RestSteps, HashFacts DEF DictSoFar
      <4>2. QED
        BY <4>1, <3>2, ValuesAssumption DEF DictSoFar, Dict
    <3>3. QED
      BY <3>1, <3>2 DEF InPython
  <2>2. ASSUME passed.op = "hash back", passed.rest = <<>>,
               NEW Latest,
               Latest = {i \in DOMAIN passed.sent : \A j \in DOMAIN passed.sent :
                           Meet(passed.sent[i][1], passed.sent[j][1]) => j <= i}
        PROVE  /\ Len(passed.back) = Cardinality(Latest)
               /\ \A i \in Latest : \E b \in DOMAIN passed.back : \E j \in DOMAIN passed.sent :
                    /\ Meet(passed.sent[j][1], passed.sent[i][1])
                    /\ Survives(passed.sent[j][1], passed.back[b][1])
                    /\ Survives(passed.sent[i][2], passed.back[b][2])
    <3>1. PICK h \in Hash : passed.sent = h /\ InRuby(h)
      BY <1>1, <2>2 DEF HashOnItsWay
    <3>2. PICK dict \in Dict :
            /\ Table(dict, Len(h), PyKeys(h), PyValues(h), PyClass)
            /\ \E m \in 0..Len(dict) : BackSoFar(dict, m, passed.rest, passed.back)
      BY <3>1 DEF InRuby
    <3>0. PICK m \in 0..Len(dict) : BackSoFar(dict, m, passed.rest, passed.back)
      BY <3>2
    <3>3. m = Len(dict)
      <4>1. Len(dict) \in Nat
        BY DEF Dict
      <4>2. RestOf(dict, m) = <<>>
        BY <2>2, <3>0 DEF BackSoFar
      <4>3. QED
        BY <4>1, <4>2, RestSteps
    <3>4. /\ passed.back \in Seq(RubyObject \X RubyObject)
          /\ Table(passed.back, Len(dict), RubyKeys(dict), RubyValues(dict), RubyClass)
      BY <3>0, <3>3 DEF BackSoFar
    <3>5. /\ \A i \in DOMAIN h : ~Refused(h[i][1])
          /\ Latest = {i \in DOMAIN h : \A j \in DOMAIN h : Meet(h[i][1], h[j][1]) => j <= i}
      BY <2>2, <3>1 DEF InRuby
    <3>6. QED
      BY <3>1, <3>2, <3>4, <3>5, HashComesBack
  <2>3. QED
    BY <2>1, <2>2 DEF HashSurvives
<1>2. QED
  BY <1>1, InitHashOnItsWay, NextHashOnItsWay, PTL DEF SpecV

=============================================================================
