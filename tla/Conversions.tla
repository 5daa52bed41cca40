----------------------------- MODULE Conversions -----------------------------
(***************************************************************************)
(* What a number and a Range become on their way from Ruby to Python and   *)
(* back. A C long, a long long and a Py_ssize_t have the same width        *)
(* (LP64); a Ruby Fixnum has one bit less.                                 *)
(***************************************************************************)
EXTENDS Integers, FiniteSets

CONSTANTS
  MaxLong,   \* LONG_MAX
  Number,    \* bound: the integers the program uses
  MaxLength, \* bound: length of the list
  None       \* Ruby's nil and Python's None

MinLong == -MaxLong - 1
Long    == MinLong..MaxLong

ASSUME LongAssumption ==
  /\ MaxLong \in Nat /\ MaxLong % 4 = 3
  /\ None \notin Int
  /\ Number \subseteq Int /\ MaxLength \in Nat

VARIABLES
  length,    \* length of a Python list
  last       \* the last conversion and what came of it

vars == <<length, last>>

Fixnum == {n \in Long : 2 * n \in MinLong..MaxLong - 1}

\* The long that has the low bits of n.
Wrap(n) == ((n - MinLong) % (2 * MaxLong + 2)) + MinLong

\* LONG2FIX shifts left by one: the top bit of a long is lost.
LONG2FIX(n) == Wrap(2 * n) \div 2

\* Mutant: the state rb_protect returned is not looked at.
FromRubyTruncates(n) == IF n = None THEN None ELSE Wrap(n)

\* pycall_pyobject_from_ruby for nil and for an Integer.
FromRuby(n) == IF n # None /\ n \in Long THEN n ELSE None

\* pycall_pylong_to_ruby, and None: what does not fit a long becomes nil.
ToRuby(n) == IF n # None /\ n \in Long THEN LONG2FIX(n) ELSE None

-----------------------------------------------------------------------------
(* Slices. A key is a Range, or what Range#step makes of one.              *)

Bound == Number \cup {None}
Key == [begin : Bound, end : Bound, exclude_end : BOOLEAN, step : Bound]

Descends(k) == k.step # None /\ k.step < 0

\* Mutant: the last item is also special for a negative end.
StopForgetsMinusOne(k) ==
  IF k.end = None \/ k.exclude_end THEN k.end
  ELSE IF Descends(k) THEN (IF k.end = 0 THEN None ELSE Wrap(k.end - 1))
  ELSE Wrap(k.end + 1)

\* An inclusive end becomes the exclusive stop that is one further; before
\* the first and after the last item there is no number for it.
Stop(k) ==
  IF k.end = None \/ k.exclude_end THEN k.end
  ELSE IF Descends(k) THEN (IF k.end = 0 THEN None ELSE Wrap(k.end - 1))
  ELSE IF k.end = -1 THEN None ELSE Wrap(k.end + 1)

\* NUM2SSIZET raises RangeError.
Converts(k) ==
  /\ k.step # None => k.step \in Long
  /\ k.end # None /\ ~k.exclude_end => k.end \in Long

\* pycall_pyslice_from_ruby.
SliceFromRuby(k) == [start |-> FromRuby(k.begin), stop |-> FromRuby(Stop(k)),
                     step |-> FromRuby(k.step)]

\* CPython's PySlice_Unpack and PySlice_AdjustIndices: i counts from the end
\* if it is negative, and is brought into lo..hi.
Adjust(i, n, lo, hi) ==
  LET j == IF i < 0 THEN i + n ELSE i
  IN IF j < lo THEN lo ELSE IF j > hi THEN hi ELSE j

\* The indices of the items that a list of length n has in the slice s.
Items(s, n) ==
  LET step  == IF s.step = None THEN 1 ELSE s.step
      start == IF s.start = None THEN (IF step < 0 THEN n - 1 ELSE 0)
               ELSE IF step < 0 THEN Adjust(s.start, n, -1, n - 1)
               ELSE Adjust(s.start, n, 0, n)
      stop  == IF s.stop = None THEN (IF step < 0 THEN -1 ELSE n)
               ELSE IF step < 0 THEN Adjust(s.stop, n, -1, n - 1)
               ELSE Adjust(s.stop, n, 0, n)
  IN IF step < 0
     THEN {i \in 0..n - 1 : stop < i /\ i <= start /\ (start - i) % (-step) = 0}
     ELSE {i \in 0..n - 1 : start <= i /\ i < stop /\ (i - start) % step = 0}

-----------------------------------------------------------------------------
(* A program that indexes a list and passes numbers back and forth.        *)

NoConversion == [op |-> "none"]

Init == length \in 0..MaxLength /\ last = NoConversion

Failed(k) == ~Converts(k) \/ k.step = 0

Taken(k) == [op |-> "slice", key |-> k, of |-> length,
             items |-> IF Failed(k) THEN {} ELSE Items(SliceFromRuby(k), length)]

\* list[k], and list.delete(k); CPython refuses a step of 0.
GetItem(k) ==
  /\ last' = Taken(k)
  /\ UNCHANGED length

DelItem(k) ==
  /\ last' = Taken(k)
  /\ length' = length - Cardinality(last'.items)

ListAppend ==
  /\ length < MaxLength
  /\ length' = length + 1
  /\ UNCHANGED last

Carried(n, v, place) ==
  /\ last' = [op |-> "number", sent |-> n, value |-> v, at |-> place]
  /\ UNCHANGED length

\* Ruby passes a number to Python for the first time, or Python makes one.
Send(n)    == Carried(n, FromRuby(n), "python")
Compute(n) == Carried(n, n, "python")

\* The number goes on to the other side.
Return == last.op = "number" /\ last.at = "python"
            /\ Carried(last.sent, ToRuby(last.value), "ruby")
Resend == last.op = "number" /\ last.at = "ruby"
            /\ Carried(last.sent, FromRuby(last.value), "python again")

\* The program goes on.
GoOn ==
  /\ last # NoConversion
  /\ last' = NoConversion
  /\ UNCHANGED length

Next ==
  \/ /\ last = NoConversion
     /\ \/ \E k \in Key : GetItem(k) \/ DelItem(k)
        \/ \E n \in Number : Send(n) \/ Compute(n)
        \/ ListAppend
  \/ Return \/ Resend \/ GoOn

Spec == Init /\ [][Next]_vars

-----------------------------------------------------------------------------
(* Properties.                                                             *)

\* The items a Range denotes: Ruby's own reading of it, position by position.
Position(i, n) == IF i < 0 THEN i + n ELSE i

Meant(k, n) ==
  LET step == IF k.step = None THEN 1 ELSE k.step
      Passed(i) == IF k.begin = None THEN (IF step < 0 THEN n - 1 - i ELSE i)
                   ELSE LET b == Position(k.begin, n) IN
                        IF step < 0 THEN (IF b >= n THEN n - 1 ELSE b) - i
                                    ELSE i - (IF b < 0 THEN 0 ELSE b)
      Within(i) == IF k.end = None THEN TRUE
                   ELSE LET e == Position(k.end, n) IN
                        \/ i = e /\ ~k.exclude_end
                        \/ IF step < 0 THEN i > e ELSE i < e
  IN {i \in 0..n - 1 :
        /\ Passed(i) >= 0
        /\ Passed(i) % (IF step < 0 THEN -step ELSE step) = 0
        /\ Within(i)}

\* Bounds that fit a Py_ssize_t, the end also when it is made exclusive.
Fits(k) ==
  /\ {k.begin, k.end} \subseteq Long \cup {None}
  /\ k.exclude_end \/ k.end # (IF Descends(k) THEN MinLong ELSE MaxLong)

\* A Range used as an index takes the items it denotes, the end item included
\* unless it excludes its end, for both directions and for ends that are
\* negative, zero or outside of the list.
RangeTakesItsItems ==
  last.op = "slice" /\ ~Failed(last.key) /\ Fits(last.key)
    => last.items = Meant(last.key, last.of)

\* A Fixnum stays itself however often it crosses, and Python gets from Ruby
\* the number that was meant or None, never another number.
NumbersSurvive ==
  last.op = "number" =>
    /\ last.sent \in Fixnum => last.value = last.sent
    /\ last.at = "python" => last.value \in {last.sent, None}

=============================================================================
