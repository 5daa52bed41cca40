------------------------------- MODULE Values -------------------------------
(***************************************************************************)
(* Texts, Arrays and Hashes on their way from Ruby to Python and back, on  *)
(* top of the integers of Conversions. Values that differ in Ruby may be   *)
(* one key for Python (1, 1.0 and true; :a and "a"), and the other way     *)
(* round; a text is bytes for one side and characters for the other.       *)
(***************************************************************************)
EXTENDS Conversions, Sequences, SequencesExt

CONSTANTS
  MaxEntries,  \* bound: items of an Array, entries of a Hash
  NULL         \* what a conversion returns when Python raised an exception

VARIABLES
  python3,   \* python_is_unicode_literals
  passed     \* the Ruby value passed to Python, and what became of it

varsV == <<vars, python3, passed>>

-----------------------------------------------------------------------------
(* Values. `is' is the class, in Ruby or in Python. The value of a text is *)
(* what its bytes are when they are read as UTF-8: all ASCII, other        *)
(* characters, or not UTF-8, whatever they are in the encoding of the text *)

Object(is, value) == [is |-> is, value |-> value, enc |-> "none"]
String(value, enc) == [is |-> "String", value |-> value, enc |-> enc]
Symbol(value) == [is |-> "Symbol", value |-> value, enc |-> "UTF-8"]

IsText(v) == v.is \in {"String", "Symbol"}

\* UTF-16 stands for those that are no extension of ASCII.
Encoding == {"UTF-8", "BINARY", "ISO-8859-1", "UTF-16"}

Text == {String(b, e) : b \in {"ascii", "utf8", "invalid"}, e \in Encoding}
          \cup {Symbol(b) : b \in {"ascii", "utf8"}}

\* An Integer for which there is no long, and small numbers of each class.
Plain == {Object("nil", None), Object("Integer", MaxLong + 1)}
           \cup {Object(c, n) : c \in {"Integer", "Float", "bool"}, n \in {0, 1}}

Scalar == Text \cup Plain

\* What Python has of these.
PyObject == [is : {"str", "bytes", "int", "float", "bool", "NoneType", "list"},
             value : {"ascii", "utf8", "invalid", "items", None} \cup Int, enc : {"none"}]

\* No object and no dict is taken for an exception.
ASSUME ValuesAssumption ==
  /\ MaxEntries \in Nat
  /\ NULL \notin PyObject
  /\ NULL \notin Seq(PyObject \X PyObject)

\* An Array used as a key of a Hash; a list has no hash.
ArrayKey == Object("Array", "items")

\* Ruby's ENC_CODERANGE_7BIT: all characters are ASCII.
AsciiOnly(v) == v.value = "ascii" /\ v.enc # "UTF-16"

\* Ruby's eql?, which tells the keys of a Hash apart.
Eql(v, w) ==
  \/ v = w
  \/ v.is = "String" /\ w.is = "String" /\ AsciiOnly(v) /\ AsciiOnly(w)

\* Python's ==, which tells the keys of a dict apart. (In Python 2 the ASCII
\* keys of Keys are all bytes.)
PyEqual(p, q) ==
  \/ p = q
  \/ {p.is, q.is} \subseteq {"bool", "int", "float"} /\ p.value = q.value

-----------------------------------------------------------------------------
(* Conversions.                                                            *)

\* Mutant: only the contents decide.
TextFromRubyByContents(v) ==
  IF v.value = "invalid" \/ (~python3 /\ AsciiOnly(v))
  THEN Object("bytes", v.value) ELSE Object("str", v.value)

\* pycall_pystring_from_ruby: the bytes are taken as they are for bytes, and
\* for UTF-8 otherwise, whatever the encoding.
TextFromRuby(v) ==
  IF v.enc = "BINARY" \/ (~python3 /\ AsciiOnly(v)) THEN Object("bytes", v.value)
  ELSE IF v.value = "invalid" THEN NULL ELSE Object("str", v.value)

\* pycall_pyobject_from_ruby.
PyNone == Object("NoneType", None)

ValueFromRuby(v) ==
  CASE IsText(v)        -> TextFromRuby(v)
    [] v.is = "Integer" -> (IF FromRuby(v.value) = None THEN PyNone
                            ELSE Object("int", FromRuby(v.value)))
    [] v.is = "Float"   -> Object("float", v.value)
    [] v.is = "bool"    -> Object("bool", v.value)
    [] v.is = "nil"     -> PyNone
    [] v.is = "Array"   -> Object("list", v.value)

\* pycall_pyobject_to_ruby, for what comes back.
ValueToRuby(p) ==
  CASE p.is = "str"   -> String(p.value, "UTF-8")
    [] p.is = "bytes" -> String(p.value, "BINARY")
    [] p.is = "int"   -> Object("Integer", ToRuby(p.value))
    [] p.is = "float" -> Object("Float", p.value)
    [] p.is = "bool"  -> Object("bool", p.value)
    [] p = PyNone     -> Object("nil", None)

\* pycall_pylist_from_ruby: an item that could not be converted is a hole.
ListFromRuby(items) == [i \in DOMAIN items |-> ValueFromRuby(items[i])]

\* List#to_a.
ListToRuby(list) == [i \in DOMAIN list |-> ValueToRuby(list[i])]

\* Entries in the order of their keys. The entry found keeps its key when its
\* value is replaced; otherwise there is a new one.
Store(entries, found, k, v) ==
  IF found = {} THEN Append(entries, <<k, v>>)
  ELSE [i \in DOMAIN entries |-> IF i \in found THEN <<entries[i][1], v>> ELSE entries[i]]

InDict(dict, k) == {i \in DOMAIN dict : PyEqual(dict[i][1], k)}
InHash(hash, k) == {i \in DOMAIN hash : Eql(hash[i][1], k)}

Storable(k, v) == k # NULL /\ v # NULL /\ k.is # "list"

-----------------------------------------------------------------------------
(* A program that passes values to Python and asks for them again.         *)

\* The keys of a Hash in order, and the Hash in which each has its own value.
\* UTF-16 keys are left out: with one, three keys can meet two by two, and then
\* the last value need not win.
HashKey == {v \in Scalar : v.enc # "UTF-16"} \cup {ArrayKey}
Keys == {ks \in BoundedSeq(HashKey, MaxEntries) :
           \A i, j \in DOMAIN ks : Eql(ks[i], ks[j]) => i = j}

Hash == {[i \in DOMAIN ks |-> <<ks[i], Object("Float", i)>>] : ks \in Keys}

Nothing == [op |-> "nothing"]

InitV == Init /\ python3 \in BOOLEAN /\ passed = Nothing

\* The program has nothing else to do: it has made no list.
Free == passed = Nothing /\ last = NoConversion /\ length = 0

Begin(r) ==
  /\ passed' = r
  /\ UNCHANGED <<vars, python3>>

\* The setter of a wrapper, which raises when a text is refused. (Conversion's
\* from_ruby reads the type of the NULL instead: undefined, and not modelled.)
PassText(v)  == Begin([op |-> "text", sent |-> v, got |-> TextFromRuby(v)])
PassArray(a) == Begin([op |-> "array", sent |-> a, got |-> ListFromRuby(a)])
PassHash(h)  == Begin([op |-> "hash", sent |-> h, rest |-> h, got |-> <<>>])

InHand(rest, dict) == passed' = [op |-> "hash", sent |-> passed.sent, rest |-> rest, got |-> dict]

\* Mutant: an entry that cannot be stored is passed over.
SetItemPassesOver ==
  /\ passed.op = "hash" /\ passed.rest # <<>>
  /\ LET k == ValueFromRuby(Head(passed.rest)[1])
         v == ValueFromRuby(Head(passed.rest)[2])
         dict == passed.got
     IN InHand(Tail(passed.rest), IF Storable(k, v) THEN Store(dict, InDict(dict, k), k, v) ELSE dict)
  /\ UNCHANGED <<vars, python3>>

\* pycall_pydict_from_ruby_iter: PyObject_SetItem for each entry, until one
\* fails; then there is an exception and no dict.
SetItem ==
  /\ passed.op = "hash" /\ passed.rest # <<>>
  /\ LET k == ValueFromRuby(Head(passed.rest)[1])
         v == ValueFromRuby(Head(passed.rest)[2])
         dict == passed.got
     IN IF Storable(k, v) THEN InHand(Tail(passed.rest), Store(dict, InDict(dict, k), k, v))
                          ELSE InHand(<<>>, NULL)
  /\ UNCHANGED <<vars, python3>>

\* What came back. Python code that meets a hole in a list is not modelled.
TextBack ==
  /\ passed.op = "text" /\ passed.got # NULL
  /\ passed' = [op |-> "text back", sent |-> passed.sent, back |-> ValueToRuby(passed.got)]
  /\ UNCHANGED <<vars, python3>>

ArrayBack ==
  /\ passed.op = "array" /\ NULL \notin ToSet(passed.got)
  /\ passed' = [op |-> "array back", sent |-> passed.sent, back |-> ListToRuby(passed.got)]
  /\ UNCHANGED <<vars, python3>>

\* Dict#to_h, and its h.update(k => v) for each entry.
HashBack ==
  /\ passed.op = "hash" /\ passed.rest = <<>> /\ passed.got # NULL
  /\ passed' = [op |-> "hash back", sent |-> passed.sent, rest |-> passed.got, back |-> <<>>]
  /\ UNCHANGED <<vars, python3>>

Update ==
  /\ passed.op = "hash back" /\ passed.rest # <<>>
  /\ LET k == ValueToRuby(Head(passed.rest)[1])
         v == ValueToRuby(Head(passed.rest)[2])
         back == Store(passed.back, InHash(passed.back, k), k, v)
     IN passed' = [op |-> "hash back", sent |-> passed.sent, rest |-> Tail(passed.rest), back |-> back]
  /\ UNCHANGED <<vars, python3>>

GoOnV ==
  /\ passed # Nothing
  /\ passed.op \in {"hash", "hash back"} => passed.rest = <<>>
  /\ passed' = Nothing
  /\ UNCHANGED <<vars, python3>>

NextV ==
  \/ passed = Nothing /\ Next /\ UNCHANGED <<python3, passed>>
  \/ /\ Free
     /\ \/ \E v \in Text : PassText(v)
        \/ \E a \in BoundedSeq(Scalar, MaxEntries) : PassArray(a)
        \/ \E h \in Hash : PassHash(h)
  \/ SetItem \/ TextBack \/ ArrayBack \/ HashBack \/ Update \/ GoOnV

SpecV == InitV /\ [][NextV]_varsV

-----------------------------------------------------------------------------
(* Properties.                                                             *)

\* What pycall reads the bytes of a text as.
ReadAs(v) == IF v.enc = "BINARY" THEN "BINARY" ELSE "UTF-8"

\* The value v comes back as w: texts with the same bytes, which are the same
\* characters if v is ASCII, UTF-8 or binary, and others if it is not.
Survives(v, w) ==
  IF IsText(v) THEN w.is = "String" /\ w.value = v.value
                      /\ (AsciiOnly(v) \/ w.enc = ReadAs(v))
  ELSE IF v.is = "Integer" /\ v.value \notin Fixnum THEN w = Object("nil", None)
  ELSE w = v

\* ASCII, UTF-8, binary data and numbers come back as they were, with both
\* versions of Python, alone or in an Array; text in another encoding keeps its
\* bytes, but becomes the text that they are in UTF-8. It is refused, like what
\* only claims to be UTF-8, if they are none; nothing else is.
ValuesSurvive ==
  /\ passed.op = "text" =>
       (passed.got = NULL <=> passed.sent.value = "invalid" /\ passed.sent.enc # "BINARY")
  /\ passed.op = "text back" => Survives(passed.sent, passed.back)
  /\ passed.op = "array back" =>
       /\ Len(passed.back) = Len(passed.sent)
       /\ \A i \in DOMAIN passed.sent : Survives(passed.sent[i], passed.back[i])

\* Keys that do not stay apart on the way to Python and back.
Meet(v, w) ==
  \/ Eql(v, w)
  \/ IsText(v) /\ IsText(w) /\ v.value = w.value
       /\ (v.value = "ascii" \/ ReadAs(v) = ReadAs(w))
  \/ {v.is, w.is} \subseteq {"Integer", "Float", "bool"} /\ v.value = w.value
  \/ \A k \in {v, w} : k.is = "nil" \/ (k.is = "Integer" /\ k.value \notin Fixnum)

Refused(v) == v.is = "Array" \/ (IsText(v) /\ v.value = "invalid" /\ v.enc # "BINARY")

\* A Hash becomes a whole dict or an exception, never a part of it; and what
\* comes back has each key once, with the value of the last of the entries
\* whose keys have met.
HashSurvives ==
  /\ passed.op = "hash" /\ passed.rest = <<>> =>
       (passed.got = NULL <=> \E i \in DOMAIN passed.sent : Refused(passed.sent[i][1]))
  /\ passed.op = "hash back" /\ passed.rest = <<>> =>
       LET sent == passed.sent  back == passed.back
           Latest == {i \in DOMAIN sent : \A j \in DOMAIN sent :
                      Meet(sent[i][1], sent[j][1]) => j <= i}
       IN /\ Len(back) = Cardinality(Latest)
          /\ \A i \in Latest : \E b \in DOMAIN back : \E j \in DOMAIN sent :
               /\ Meet(sent[j][1], sent[i][1]) /\ Survives(sent[j][1], back[b][1])
               /\ Survives(sent[i][2], back[b][2])

=============================================================================
