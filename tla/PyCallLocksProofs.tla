-------------------------- MODULE PyCallLocksProofs --------------------------
(***************************************************************************)
(* Who holds the GVL and the GIL, for any number of threads and fibers and *)
(* any depth of calls between Ruby and Python.                             *)
(*                                                                         *)
(* The argument: which locks a thread holds is a function of the innermost *)
(* frame of the fiber it runs and of the lock it is blocked on; and a      *)
(* frame is marked undo exactly when the frame below it runs with other    *)
(* locks, so that leaving it restores what that frame expects.             *)
(***************************************************************************)
EXTENDS PyCallLocks, SequenceTheorems, TLAPS

\* What runs below the frame i of a stack.
MainTop == [kind |-> "main", undo |-> FALSE]
Below(s, i) == IF i = 1 THEN MainTop ELSE s[i - 1]

\* All frames run under the GVL but a call that gave it up.
UnderGVL(fr) == ~(fr.kind = "call" /\ fr.undo)

\* Frame fr may be on top of below in fiber f, and undo says what it must.
Fits(f, fr, below) ==
  /\ fr.kind \in {"block", "call", "capi", "free"} => below.kind \in RubyKind
  /\ fr.kind \in {"callback", "dealloc"} => below.kind \in PythonKind
  /\ fr.kind \in {"call", "capi", "callback"} => Home(f) = Main
  /\ fr.kind = "dealloc" => Home(f) = Main \/ below.kind = "free"
  /\ fr.kind \in {"block", "capi"} => ~fr.undo
  /\ fr.kind = "free" => (fr.undo <=> Home(f) # Main)
  /\ fr.kind \in {"callback", "dealloc"} => (fr.undo <=> ~UnderGVL(below))

StacksOK ==
  \A f \in Fiber : \A i \in 1..Len(stack[f]) :
    Fits(f, stack[f][i], Below(stack[f], i))

NeedsGIL(t, fr) == t = Main \/ fr.kind \in {"free", "dealloc"}

\* A thread that is not blocked on a lock holds those its top frame needs.
HoldsOK(t, fr, want, hasGVL, hasGIL) ==
  /\ hasGVL <=> want # "gvl" /\ UnderGVL(fr)
  /\ hasGIL <=> want # "gil" /\ NeedsGIL(t, fr)
  /\ want = "gvl" => UnderGVL(fr)
  /\ want = "gil" => NeedsGIL(t, fr)

HoldersOK == \A t \in Thread : HoldsOK(t, Top(t), wants[t], gvl = t, gil = t)

LocksInv == Typed /\ StacksOK /\ HoldersOK

-----------------------------------------------------------------------------
(* The stack of the running fiber.                                         *)

LEMMA StackType ==
  ASSUME Typed, NEW t \in Thread
  PROVE  /\ current[t] \in Fiber /\ Home(current[t]) = t
         /\ Stack(t) \in Seq(Frame) /\ Len(Stack(t)) \in Nat
         /\ Stack(t) # <<>> => /\ Len(Stack(t)) \in 1..Len(Stack(t))
                               /\ Top(t) = Stack(t)[Len(Stack(t))]
                               /\ Top(t) \in Frame
         /\ Stack(t) = <<>> => Top(t) = MainTop
<1>1. /\ current[t] \in Fiber /\ Home(current[t]) = t
      /\ Stack(t) \in Seq(Frame) /\ Len(Stack(t)) \in Nat
  BY DEF Typed, Stack
<1>2. ASSUME Stack(t) # <<>>
      PROVE  /\ Len(Stack(t)) \in 1..Len(Stack(t))
             /\ Top(t) = Stack(t)[Len(Stack(t))]
             /\ Top(t) \in Frame
  BY <1>1, <1>2 DEF Top
<1>3. Stack(t) = <<>> => Top(t) = MainTop
  BY DEF Top, MainTop
<1> QED BY <1>1, <1>2, <1>3

\* The top frame fits on what is below it.
LEMMA TopFits ==
  ASSUME LocksInv, NEW t \in Thread, Top(t).kind # "main"
  PROVE  /\ Stack(t) # <<>> /\ Top(t) \in Frame
         /\ Fits(current[t], Top(t), Below(Stack(t), Len(Stack(t))))
<1>1. Stack(t) # <<>>
  BY StackType DEF MainTop, LocksInv
<1> QED BY <1>1, StackType DEF LocksInv, StacksOK, Stack

\* Two threads never run the same fiber.
LEMMA OthersKeepTop ==
  ASSUME Typed, NEW t \in Thread, UNCHANGED current,
         \A f \in Fiber \ {current[t]} : stack'[f] = stack[f]
  PROVE  \A u \in Thread \ {t} : Stack(u)' = Stack(u) /\ Top(u)' = Top(u)
<1> SUFFICES ASSUME NEW u \in Thread \ {t}
             PROVE  Stack(u)' = Stack(u) /\ Top(u)' = Top(u)
  OBVIOUS
<1>1. current[u] \in Fiber \ {current[t]}
  BY StackType
<1> QED BY <1>1 DEF Stack, Top

LEMMA PushFrame ==
  ASSUME LocksInv, NEW t \in Thread, UNCHANGED current,
         NEW fr \in Frame, Push(t, fr.kind, fr.undo),
         Fits(current[t], fr, Top(t))
  PROVE  /\ stack' \in [Fiber -> Seq(Frame)] /\ StacksOK'
         /\ Stack(t)' = Append(Stack(t), fr) /\ Top(t)' = fr
         /\ \A u \in Thread \ {t} : Top(u)' = Top(u)
<1> DEFINE c == current[t]
           s == stack[c]
<1>1. /\ Typed /\ c \in Fiber /\ s \in Seq(Frame) /\ Len(s) \in Nat
      /\ stack \in [Fiber -> Seq(Frame)]
  BY StackType DEF LocksInv, Typed, Stack
<1>2. [kind |-> fr.kind, undo |-> fr.undo] = fr
  BY DEF Frame
<1>3. stack' = [stack EXCEPT ![c] = Append(s, fr)]
  BY <1>2 DEF Push
<1>4. /\ Append(s, fr) \in Seq(Frame) /\ Len(Append(s, fr)) = Len(s) + 1
      /\ Append(s, fr) # <<>>
      /\ Append(s, fr)[Len(s) + 1] = fr
      /\ \A i \in 1..Len(s) : Append(s, fr)[i] = s[i]
  BY <1>1
<1>5. /\ stack' \in [Fiber -> Seq(Frame)] /\ stack'[c] = Append(s, fr)
      /\ \A f \in Fiber \ {c} : stack'[f] = stack[f]
  BY <1>1, <1>3, <1>4
<1>6. Stack(t)' = Append(Stack(t), fr) /\ Top(t)' = fr
  BY <1>4, <1>5 DEF Stack, Top
<1>7. \A u \in Thread \ {t} : Top(u)' = Top(u)
  BY <1>1, <1>5, OthersKeepTop
<1>8. Below(Append(s, fr), Len(s) + 1) = Top(t)
  BY <1>1, <1>4, StackType DEF Below, Stack, Top, MainTop
<1>9. \A i \in 1..Len(s) : Below(Append(s, fr), i) = Below(s, i)
  BY <1>1, <1>4 DEF Below
<1>10. ASSUME NEW f \in Fiber, NEW i \in 1..Len(stack'[f])
       PROVE  Fits(f, stack'[f][i], Below(stack'[f], i))
  <2>1. CASE f # c
    BY <1>5, <2>1 DEF LocksInv, StacksOK
  <2>2. CASE f = c /\ i = Len(s) + 1
    BY <1>4, <1>5, <1>8, <2>2
  <2>3. CASE f = c /\ i \in 1..Len(s)
    BY <1>1, <1>4, <1>5, <1>9, <2>3 DEF LocksInv, StacksOK
  <2> QED BY <1>1, <1>4, <1>5, <2>1, <2>2, <2>3
<1>11. StacksOK'
  BY <1>10 DEF StacksOK, Fits, RubyKind, PythonKind, Home, UnderGVL, Below, MainTop
<1> QED BY <1>5, <1>6, <1>7, <1>11

LEMMA PopFrame ==
  ASSUME LocksInv, NEW t \in Thread, UNCHANGED current,
         Pop(t), Top(t).kind # "main"
  PROVE  /\ stack' \in [Fiber -> Seq(Frame)] /\ StacksOK'
         /\ Stack(t)' = SubSeq(Stack(t), 1, Len(Stack(t)) - 1)
         /\ Top(t)' = Below(Stack(t), Len(Stack(t)))
         /\ \A u \in Thread \ {t} : Top(u)' = Top(u)
<1> DEFINE c == current[t]
           s == stack[c]
           r == SubSeq(s, 1, Len(s) - 1)
<1>1. /\ Typed /\ c \in Fiber /\ s \in Seq(Frame) /\ Len(s) \in Nat /\ s # <<>>
      /\ stack \in [Fiber -> Seq(Frame)]
  BY StackType, TopFits DEF LocksInv, Typed, Stack
<1>2. stack' = [stack EXCEPT ![c] = r]
  BY DEF Pop
<1>3. /\ r \in Seq(Frame) /\ Len(r) = Len(s) - 1 /\ Len(s) >= 1
      /\ \A i \in 1..Len(r) : i \in 1..Len(s) /\ r[i] = s[i]
      /\ r = <<>> <=> Len(s) = 1
  <2>1. /\ r \in Seq(Frame) /\ Len(r) = Len(s) - 1 /\ Len(s) >= 1
        /\ \A i \in 1..Len(r) : i \in 1..Len(s) /\ r[i] = s[i]
    BY <1>1
  <2> HIDE DEF r
  <2>2. Len(r) = 0 => r = <<>>
    BY <2>1, EmptySeq
  <2>3. r = <<>> => Len(r) = 0
    BY EmptySeq
  <2> QED BY <1>1, <2>1, <2>2, <2>3
<1> HIDE DEF r
<1>4. /\ stack' \in [Fiber -> Seq(Frame)] /\ stack'[c] = r
      /\ \A f \in Fiber \ {c} : stack'[f] = stack[f]
  BY <1>1, <1>2, <1>3
<1>5. Stack(t)' = r /\ Stack(t) = s
  BY <1>4 DEF Stack
<1>6. Top(t)' = Below(s, Len(s))
  BY <1>1, <1>3, <1>5 DEF Top, Below, MainTop
<1>7. \A u \in Thread \ {t} : Top(u)' = Top(u)
  BY <1>1, <1>4, OthersKeepTop
<1>8. \A i \in 1..Len(r) : Below(r, i) = Below(s, i)
  BY <1>1, <1>3 DEF Below
<1>9. ASSUME NEW f \in Fiber, NEW i \in 1..Len(stack'[f])
      PROVE  Fits(f, stack'[f][i], Below(stack'[f], i))
  <2>1. CASE f # c
    BY <1>4, <2>1 DEF LocksInv, StacksOK
  <2>2. CASE f = c
    <3>1. i \in 1..Len(r) /\ i \in 1..Len(s) /\ r[i] = s[i]
      BY <1>3, <1>4, <2>2
    <3>2. Fits(c, s[i], Below(s, i))
      BY <1>1, <3>1 DEF LocksInv, StacksOK
    <3> QED BY <1>4, <1>8, <2>2, <3>1, <3>2
  <2> QED BY <2>1, <2>2
<1>10. StacksOK'
  BY <1>9 DEF StacksOK, Fits, RubyKind, PythonKind, Home, UnderGVL, Below, MainTop
<1> QED BY <1>4, <1>5, <1>6, <1>7, <1>10 DEF r

-----------------------------------------------------------------------------
(* Locks change hands.                                                     *)

LEMMA HoldersChange ==
  ASSUME HoldersOK, NEW t \in Thread, HoldsOK(t, Top(t)', wants'[t], gvl' = t, gil' = t),
         \A u \in Thread \ {t} : /\ Top(u)' = Top(u) /\ wants'[u] = wants[u]
                                 /\ (gvl' = u) = (gvl = u)
                                 /\ (gil' = u) = (gil = u)
  PROVE  HoldersOK'
BY DEF HoldersOK, HoldsOK, UnderGVL, NeedsGIL

\* What holds of a thread that is not blocked on a lock.
LEMMA Running ==
  ASSUME LocksInv, NEW t \in Thread, wants[t] = "none"
  PROVE  /\ gvl = t <=> UnderGVL(Top(t))
         /\ gil = t <=> NeedsGIL(t, Top(t))
         /\ Top(t).kind = "free" => (Top(t).undo <=> t # Main)
         /\ Top(t).kind \in {"call", "capi", "callback"} => t = Main
<1>1. Home(current[t]) = t
  BY StackType DEF LocksInv
<1>2. Top(t).kind # "main" => Fits(current[t], Top(t), Below(Stack(t), Len(Stack(t))))
  BY TopFits
<1> QED BY <1>1, <1>2 DEF LocksInv, HoldersOK, HoldsOK, Fits

\* Locks are taken and given up without any pycall function.
LEMMA LockSteps ==
  ASSUME LocksInv, NEW t \in Thread,
         TakeGVL(t) \/ TakeGIL(t) \/ Preempt(t) \/ DropGIL(t)
  PROVE  LocksInv'
<1> USE DEF LocksInv
<1>1. /\ UNCHANGED <<flag, current, stack>>
      /\ wants' \in [Thread -> {"none", "gvl", "gil"}]
      /\ gvl' \in Thread \cup {None} /\ gil' \in Thread \cup {None}
      /\ \A u \in Thread : Top(u)' = Top(u)
  BY DEF TakeGVL, TakeGIL, Preempt, DropGIL, Want, Typed, Top, Stack
<1>2. Typed' /\ StacksOK'
  BY <1>1 DEF Typed, StacksOK
<1>3. /\ HoldsOK(t, Top(t)', wants'[t], gvl' = t, gil' = t)
      /\ \A u \in Thread \ {t} : /\ wants'[u] = wants[u]
                                /\ (gvl' = u) = (gvl = u)
                                /\ (gil' = u) = (gil = u)
  <2>1. HoldsOK(t, Top(t), wants[t], gvl = t, gil = t)
    BY DEF HoldersOK
  <2>2. CASE TakeGVL(t)
    BY <1>1, <2>1, <2>2, LocksAssumption DEF TakeGVL, Want, Typed, HoldsOK
  <2>3. CASE TakeGIL(t)
    BY <1>1, <2>1, <2>3, LocksAssumption DEF TakeGIL, Want, Typed, HoldsOK
  <2>4. CASE Preempt(t)
    <3>1. UnderGVL(Top(t)) /\ gvl = t
      BY <2>4, Running DEF Preempt, RunsRuby, Runs, RubyKind, UnderGVL
    <3> QED BY <1>1, <2>1, <2>4, <3>1, LocksAssumption
            DEF Preempt, RunsRuby, Runs, Want, Typed, HoldsOK
  <2>5. CASE DropGIL(t)
    <3>1. NeedsGIL(t, Top(t)) /\ gil = t
      BY <2>5, Running DEF DropGIL, RunsPython, Runs, PythonKind, NeedsGIL
    <3> QED BY <1>1, <2>1, <2>5, <3>1, LocksAssumption
            DEF DropGIL, RunsPython, Runs, Want, Typed, HoldsOK
  <2> QED BY <2>2, <2>3, <2>4, <2>5
<1>4. HoldersOK'
  BY <1>1, <1>3, HoldersChange
<1> QED BY <1>2, <1>4

\* A frame is entered, with the locks of the new top.
LEMMA PushStep ==
  ASSUME LocksInv, NEW t \in Thread, UNCHANGED <<current, gil>>,
         NEW fr \in Frame, Push(t, fr.kind, fr.undo), Fits(current[t], fr, Top(t)),
         wants' \in [Thread -> {"none", "gvl", "gil"}], gvl' \in {gvl, None},
         flag' \in [Thread -> BOOLEAN],
         HoldsOK(t, fr, wants'[t], gvl' = t, gil' = t),
         gvl' # gvl => gvl = t,
         \A u \in Thread \ {t} : wants'[u] = wants[u]
  PROVE  LocksInv'
<1>1. /\ stack' \in [Fiber -> Seq(Frame)] /\ StacksOK' /\ Top(t)' = fr
      /\ \A u \in Thread \ {t} : Top(u)' = Top(u)
  BY PushFrame
<1>2. Typed'
  BY <1>1 DEF LocksInv, Typed
<1>3. HoldersOK'
  BY <1>1, HoldersChange, LocksAssumption DEF LocksInv
<1> QED BY <1>1, <1>2, <1>3 DEF LocksInv

\* A frame is left, with the locks of what is below it.
LEMMA PopStep ==
  ASSUME LocksInv, NEW t \in Thread, UNCHANGED current,
         Pop(t), Top(t).kind # "main",
         wants' \in [Thread -> {"none", "gvl", "gil"}],
         gvl' \in {gvl, None}, gil' \in {gil, None},
         flag' \in [Thread -> BOOLEAN],
         HoldsOK(t, Below(Stack(t), Len(Stack(t))), wants'[t], gvl' = t, gil' = t),
         gvl' # gvl => gvl = t, gil' # gil => gil = t,
         \A u \in Thread \ {t} : wants'[u] = wants[u]
  PROVE  LocksInv'
<1> DEFINE below == Below(Stack(t), Len(Stack(t)))
<1>1. /\ stack' \in [Fiber -> Seq(Frame)] /\ StacksOK' /\ Top(t)' = below
      /\ \A u \in Thread \ {t} : Top(u)' = Top(u)
  BY PopFrame
<1>2. Typed'
  BY <1>1 DEF LocksInv, Typed
<1>3. HoldersOK'
  BY <1>1, HoldersChange, LocksAssumption DEF LocksInv
<1> QED BY <1>1, <1>2, <1>3 DEF LocksInv

LEMMA EnterSteps ==
  ASSUME LocksInv, NEW t \in Thread,
         \/ EnterBlock(t) \/ CallObject(t) \/ CallApi(t)
         \/ EnterRuby(t, "callback") \/ EnterRuby(t, "dealloc") \/ Collect(t)
  PROVE  LocksInv'
<1> USE DEF RunsRuby, RunsPython, Runs, Want
<1>0. /\ wants \in [Thread -> {"none", "gvl", "gil"}] /\ flag \in [Thread -> BOOLEAN]
      /\ Home(current[t]) = t /\ wants[t] = "none"
      /\ Top(t) \in Frame \cup {MainTop}
  BY StackType DEF LocksInv, Typed, EnterBlock, CallObject, CallApi, EnterRuby, Collect
<1>1. /\ gvl = t <=> UnderGVL(Top(t))
      /\ gil = t <=> NeedsGIL(t, Top(t))
      /\ Top(t).kind \in {"call", "capi"} => t = Main
  BY <1>0, Running
<1>2. CASE EnterBlock(t)
  <2> DEFINE fr == [kind |-> "block", undo |-> FALSE]
  <2>1. fr \in Frame /\ Push(t, fr.kind, fr.undo) /\ Fits(current[t], fr, Top(t))
    BY <1>2 DEF EnterBlock, Frame, Fits
  <2>2. HoldsOK(t, fr, wants'[t], gvl' = t, gil' = t)
    BY <1>0, <1>1, <1>2 DEF EnterBlock, HoldsOK, UnderGVL, NeedsGIL, RubyKind
  <2> QED BY <1>0, <1>2, <2>1, <2>2, PushStep DEF EnterBlock
<1>3. CASE CallObject(t)
  <2> DEFINE fr == [kind |-> "call", undo |-> flag[t]]
  <2>1. fr \in Frame /\ Push(t, fr.kind, fr.undo) /\ Fits(current[t], fr, Top(t))
    <3>1. flag[t] \in BOOLEAN
      BY <1>0
    <3>2. fr \in Frame
      BY <3>1 DEF Frame, PythonKind
    <3>3. Fits(current[t], fr, Top(t))
      BY <1>0, <1>3 DEF CallObject, Fits
    <3> QED BY <1>3, <3>2, <3>3 DEF CallObject
  <2>2. gvl = t /\ gil = t /\ None # t
    BY <1>1, <1>3, LocksAssumption DEF CallObject, UnderGVL, NeedsGIL, RubyKind
  <2>3. HoldsOK(t, fr, wants'[t], gvl' = t, gil' = t)
    BY <1>0, <1>3, <2>2 DEF CallObject, HoldsOK, UnderGVL, NeedsGIL
  <2> QED BY <1>0, <1>3, <2>1, <2>2, <2>3, PushStep DEF CallObject
<1>4. CASE CallApi(t)
  <2> DEFINE fr == [kind |-> "capi", undo |-> FALSE]
  <2>1. fr \in Frame /\ Push(t, fr.kind, fr.undo) /\ Fits(current[t], fr, Top(t))
    BY <1>0, <1>4 DEF CallApi, Frame, Fits, PythonKind
  <2>2. HoldsOK(t, fr, wants'[t], gvl' = t, gil' = t)
    BY <1>0, <1>1, <1>4 DEF CallApi, HoldsOK, UnderGVL, NeedsGIL, RubyKind
  <2> QED BY <1>0, <1>4, <2>1, <2>2, PushStep DEF CallApi
<1>5. ASSUME NEW kind \in {"callback", "dealloc"}, EnterRuby(t, kind)
      PROVE  LocksInv'
  <2> DEFINE fr == [kind |-> kind, undo |-> gvl # t]
  <2>1. Top(t).kind \in PythonKind /\ (kind = "callback" => t = Main)
    BY <1>1, <1>5 DEF EnterRuby, PythonKind
  <2>2. fr \in Frame /\ Push(t, fr.kind, fr.undo) /\ Fits(current[t], fr, Top(t))
    <3>1. t = Main \/ Top(t).kind = "free"
      BY <1>1, <2>1 DEF PythonKind
    <3>2. fr \in Frame
      BY DEF Frame
    <3>3. Fits(current[t], fr, Top(t))
      BY <1>0, <1>1, <2>1, <3>1 DEF Fits
    <3> QED BY <1>5, <3>2, <3>3 DEF EnterRuby
  <2>3. NeedsGIL(t, Top(t)) /\ NeedsGIL(t, fr) /\ gil = t
    BY <1>1, <2>1 DEF NeedsGIL, PythonKind
  <2>4. HoldsOK(t, fr, wants'[t], gvl' = t, gil' = t)
    BY <1>0, <1>1, <1>5, <2>3 DEF EnterRuby, HoldsOK, UnderGVL
  <2>5. wants' \in [Thread -> {"none", "gvl", "gil"}]
    BY <1>0, <1>5 DEF EnterRuby
  <2> QED BY <1>0, <1>5, <2>2, <2>4, <2>5, PushStep DEF EnterRuby
<1>6. CASE Collect(t)
  <2> DEFINE fr == [kind |-> "free", undo |-> gil # t]
  <2>1. gvl = t /\ (gil = t <=> t = Main)
    BY <1>1, <1>6 DEF Collect, UnderGVL, NeedsGIL, RubyKind
  <2>2. fr \in Frame /\ Push(t, fr.kind, fr.undo) /\ Fits(current[t], fr, Top(t))
    <3>1. (gil # t) \in BOOLEAN
      OBVIOUS
    <3>2. fr \in Frame
      BY <3>1 DEF Frame, PythonKind
    <3>3. Fits(current[t], fr, Top(t))
      BY <1>0, <1>6, <2>1 DEF Collect, Fits
    <3> QED BY <1>6, <3>2, <3>3 DEF Collect
  <2>3. HoldsOK(t, fr, wants'[t], gvl' = t, gil' = t)
    BY <1>0, <1>6, <2>1 DEF Collect, HoldsOK, UnderGVL, NeedsGIL
  <2>4. wants' \in [Thread -> {"none", "gvl", "gil"}]
    BY <1>0, <1>6 DEF Collect
  <2> QED BY <1>0, <1>6, <2>2, <2>3, <2>4, PushStep DEF Collect
<1> QED BY <1>2, <1>3, <1>4, <1>5, <1>6

LEMMA LeaveSteps ==
  ASSUME LocksInv, NEW t \in Thread,
         LeaveBlock(t) \/ Return(t) \/ LeaveRuby(t) \/ Freed(t)
  PROVE  LocksInv'
<1> USE DEF Runs, Want
<1> DEFINE below == Below(Stack(t), Len(Stack(t)))
<1>0. /\ wants \in [Thread -> {"none", "gvl", "gil"}] /\ flag \in [Thread -> BOOLEAN]
      /\ wants[t] = "none" /\ Home(current[t]) = t /\ None # t
      /\ Pop(t) /\ UNCHANGED current
  BY StackType, LocksAssumption DEF LocksInv, Typed, LeaveBlock, Return, LeaveRuby, Freed
<1>1. Top(t).kind \in {"block", "call", "capi", "free", "callback", "dealloc"}
  BY DEF LeaveBlock, Return, LeaveRuby, Freed
<1>2. Top(t) \in Frame /\ Fits(current[t], Top(t), below)
  BY <1>1, TopFits
<1>3. /\ gvl = t <=> UnderGVL(Top(t))
      /\ gil = t <=> NeedsGIL(t, Top(t))
  BY <1>0, Running
<1> HIDE DEF below
<1>4. HoldsOK(t, below, wants'[t], gvl' = t, gil' = t)
  <2>1. CASE LeaveBlock(t)
    BY <1>0, <1>2, <1>3, <2>1
       DEF LeaveBlock, HoldsOK, UnderGVL, NeedsGIL, Fits, RubyKind
  <2>2. CASE Return(t)
    BY <1>0, <1>2, <1>3, <2>2
       DEF Return, HoldsOK, UnderGVL, NeedsGIL, Fits, RubyKind
  <2>3. CASE LeaveRuby(t)
    BY <1>0, <1>2, <1>3, <2>3
       DEF LeaveRuby, HoldsOK, UnderGVL, NeedsGIL, Fits, PythonKind
  <2>4. CASE Freed(t)
    BY <1>0, <1>2, <1>3, <2>4
       DEF Freed, HoldsOK, UnderGVL, NeedsGIL, Fits, RubyKind
  <2> QED BY <2>1, <2>2, <2>3, <2>4
<1>5. /\ wants' \in [Thread -> {"none", "gvl", "gil"}] /\ flag' \in [Thread -> BOOLEAN]
      /\ gvl' \in {gvl, None} /\ gil' \in {gil, None}
      /\ gvl' # gvl => gvl = t
      /\ gil' # gil => gil = t
      /\ \A u \in Thread \ {t} : wants'[u] = wants[u]
  BY <1>0, <1>3 DEF LeaveBlock, Return, LeaveRuby, Freed, UnderGVL, NeedsGIL
<1> QED BY <1>0, <1>1, <1>4, <1>5, PopStep DEF below

LEMMA ResumeFiberStep ==
  ASSUME LocksInv, NEW t \in Thread, NEW f \in Fiber, ResumeFiber(t, f)
  PROVE  LocksInv'
<1> USE DEF RunsRuby, Runs
<1>1. /\ UNCHANGED <<gvl, gil, flag, stack, wants>>
      /\ current' = [current EXCEPT ![t] = f] /\ Home(f) = t
      /\ current \in [Thread -> Fiber] /\ wants[t] = "none"
      /\ stack[f] \in Seq(Frame)
  BY DEF ResumeFiber, LocksInv, Typed
<1>2. Typed' /\ StacksOK'
  BY <1>1 DEF LocksInv, Typed, StacksOK, Home
<1>3. \A u \in Thread \ {t} : Top(u)' = Top(u)
  BY <1>1 DEF Top, Stack
<1>4. Top(t)'.kind \in {"main", "block"} /\ Top(t).kind \in RubyKind
  <2>1. Stack(t)' = stack[f]
    BY <1>1 DEF Stack
  <2>2. \A i \in 1..Len(stack[f]) : stack[f][i].kind = "block"
    BY DEF ResumeFiber
  <2>3. stack[f] # <<>> => Len(stack[f]) \in 1..Len(stack[f])
    BY <1>1
  <2> QED BY <2>1, <2>2, <2>3 DEF Top, ResumeFiber
<1>5. HoldsOK(t, Top(t)', wants'[t], gvl' = t, gil' = t)
  BY <1>1, <1>4, Running DEF HoldsOK, UnderGVL, NeedsGIL, RubyKind
<1>6. HoldersOK'
  BY <1>1, <1>3, <1>5, HoldersChange DEF LocksInv
<1> QED BY <1>2, <1>6 DEF LocksInv

-----------------------------------------------------------------------------
(* Blocks, in a program that resumes no fiber inside a block.              *)

HasBlock(s) == \E i \in 1..Len(s) : s[i].kind = "block"

\* A fiber that is not running has no frames; without_gvl_key is set only in
\* a block; and only there does a call give the GVL up.
BlocksInv ==
  /\ \A f \in Fiber : f # current[Home(f)] => stack[f] = <<>>
  /\ \A t \in Thread : flag[t] => HasBlock(Stack(t))
  /\ \A f \in Fiber : \A i \in 1..Len(stack[f]) :
       stack[f][i].kind = "call" /\ stack[f][i].undo => InBlock(f, i)

LEMMA PushBlocks ==
  ASSUME Typed, BlocksInv, NEW t \in Thread, UNCHANGED current,
         NEW kind, NEW undo, Push(t, kind, undo),
         \A u \in Thread \ {t} : flag'[u] = flag[u],
         flag'[t] => flag[t] \/ kind = "block",
         kind = "call" /\ undo => flag[t]
  PROVE  BlocksInv'
<1> DEFINE c  == current[t]
           s  == stack[c]
           fr == [kind |-> kind, undo |-> undo]
           r  == Append(s, fr)
<1>1. /\ c \in Fiber /\ Home(c) = t /\ s \in Seq(Frame) /\ Len(s) \in Nat
      /\ stack \in [Fiber -> Seq(Frame)] /\ Stack(t) = s
  BY StackType DEF Typed, Stack
<1>2. /\ Len(r) = Len(s) + 1 /\ r[Len(s) + 1] = fr
      /\ \A i \in 1..Len(s) : r[i] = s[i]
  BY <1>1
<1>3. stack' = [stack EXCEPT ![c] = r]
  BY DEF Push
<1> HIDE DEF r, fr
<1>4. stack'[c] = r /\ \A f \in Fiber \ {c} : stack'[f] = stack[f]
  BY <1>1, <1>3
<1>5. \A u \in Thread \ {t} : Stack(u)' = Stack(u)
  BY <1>4, OthersKeepTop
<1>6. HasBlock(s) => HasBlock(r)
  BY <1>1, <1>2 DEF HasBlock
<1>7. kind = "block" => HasBlock(r)
  BY <1>1, <1>2 DEF HasBlock, fr
<1>8. \A f \in Fiber : f # current'[Home(f)] => stack'[f] = <<>>
  BY <1>1, <1>4 DEF BlocksInv
<1>9. ASSUME NEW u \in Thread, flag'[u]
      PROVE  HasBlock(Stack(u)')
  <2>1. CASE u = t
    BY <1>1, <1>4, <1>6, <1>7, <1>9, <2>1 DEF BlocksInv, Stack
  <2>2. CASE u # t
    BY <1>5, <1>9, <2>2 DEF BlocksInv
  <2> QED BY <2>1, <2>2
<1>10. ASSUME NEW f \in Fiber, NEW i \in 1..Len(stack'[f]),
              stack'[f][i].kind = "call", stack'[f][i].undo
       PROVE  \E j \in 1..i : stack'[f][j].kind = "block"
  <2>1. CASE f # c
    BY <1>4, <1>10, <2>1 DEF BlocksInv, InBlock
  <2>2. CASE f = c /\ i = Len(s) + 1
    <3>1. flag[t]
      BY <1>2, <1>4, <1>10, <2>2 DEF fr
    <3>2. HasBlock(s)
      BY <1>1, <3>1 DEF BlocksInv
    <3>3. PICK j \in 1..Len(s) : s[j].kind = "block"
      BY <3>2 DEF HasBlock
    <3> QED BY <1>1, <1>2, <1>4, <2>2, <3>3
  <2>3. CASE f = c /\ i \in 1..Len(s)
    <3>1. PICK j \in 1..i : s[j].kind = "block"
      BY <1>1, <1>2, <1>4, <1>10, <2>3 DEF BlocksInv, InBlock
    <3> QED BY <1>1, <1>2, <1>4, <2>3, <3>1
  <2> QED BY <1>1, <1>2, <1>4, <2>1, <2>2, <2>3
<1> QED BY <1>8, <1>9, <1>10 DEF BlocksInv, InBlock, HasBlock, Home

LEMMA PopBlocks ==
  ASSUME Typed, BlocksInv, NEW t \in Thread, UNCHANGED current,
         Pop(t), Top(t).kind # "main",
         \A u \in Thread \ {t} : flag'[u] = flag[u],
         flag'[t] => flag[t] /\ Top(t).kind # "block"
  PROVE  BlocksInv'
<1> DEFINE c == current[t]
           s == stack[c]
           r == SubSeq(s, 1, Len(s) - 1)
<1>1. /\ c \in Fiber /\ Home(c) = t /\ s \in Seq(Frame) /\ Len(s) \in Nat
      /\ stack \in [Fiber -> Seq(Frame)] /\ Stack(t) = s
      /\ Len(s) \in 1..Len(s) /\ Top(t) = s[Len(s)]
  BY StackType DEF Typed, Stack, MainTop
<1>2. /\ Len(r) = Len(s) - 1
      /\ \A i \in 1..Len(r) : i \in 1..Len(s) /\ r[i] = s[i]
  BY <1>1
<1>3. stack' = [stack EXCEPT ![c] = r]
  BY DEF Pop
<1> HIDE DEF r
<1>4. stack'[c] = r /\ \A f \in Fiber \ {c} : stack'[f] = stack[f]
  BY <1>1, <1>3
<1>5. \A u \in Thread \ {t} : Stack(u)' = Stack(u)
  BY <1>4, OthersKeepTop
<1>6. HasBlock(s) /\ s[Len(s)].kind # "block" => HasBlock(r)
  BY <1>1, <1>2 DEF HasBlock
<1>7. \A f \in Fiber : f # current'[Home(f)] => stack'[f] = <<>>
  BY <1>1, <1>4 DEF BlocksInv
<1>8. ASSUME NEW u \in Thread, flag'[u]
      PROVE  HasBlock(Stack(u)')
  <2>1. CASE u = t
    BY <1>1, <1>4, <1>6, <1>8, <2>1 DEF BlocksInv, Stack
  <2>2. CASE u # t
    BY <1>5, <1>8, <2>2 DEF BlocksInv
  <2> QED BY <2>1, <2>2
<1>9. ASSUME NEW f \in Fiber, NEW i \in 1..Len(stack'[f]),
             stack'[f][i].kind = "call", stack'[f][i].undo
      PROVE  \E j \in 1..i : stack'[f][j].kind = "block"
  <2>1. CASE f # c
    BY <1>4, <1>9, <2>1 DEF BlocksInv, InBlock
  <2>2. CASE f = c
    <3>1. i \in 1..Len(r) /\ i \in 1..Len(s)
      BY <1>2, <1>4, <2>2
    <3>2. PICK j \in 1..i : s[j].kind = "block"
      BY <1>1, <1>2, <1>4, <1>9, <2>2, <3>1 DEF BlocksInv, InBlock
    <3>3. j \in 1..Len(r)
      BY <1>1, <1>2, <3>1, <3>2
    <3> QED BY <1>2, <1>4, <2>2, <3>2, <3>3
  <2> QED BY <2>1, <2>2
<1> QED BY <1>7, <1>8, <1>9 DEF BlocksInv, InBlock, HasBlock, Home

LEMMA StepBlocks ==
  ASSUME ~FiberInBlock, Typed, BlocksInv, NEW t \in Thread, Step(t)
  PROVE  BlocksInv'
<1>0. flag \in [Thread -> BOOLEAN]
  BY DEF Typed
<1>1. CASE EnterBlock(t)
  BY <1>0, <1>1, PushBlocks DEF EnterBlock
<1>2. CASE CallObject(t)
  BY <1>2, PushBlocks DEF CallObject
<1>3. CASE CallApi(t)
  BY <1>3, PushBlocks DEF CallApi
<1>4. CASE EnterRuby(t, "callback") \/ EnterRuby(t, "dealloc")
  BY <1>4, PushBlocks DEF EnterRuby
<1>5. CASE Collect(t)
  BY <1>5, PushBlocks DEF Collect
<1>6. CASE LeaveBlock(t)
  BY <1>0, <1>6, PopBlocks DEF LeaveBlock, Runs
<1>7. CASE Return(t) \/ LeaveRuby(t) \/ Freed(t)
  BY <1>7, PopBlocks DEF Return, LeaveRuby, Freed, Runs
<1>8. ASSUME NEW f \in Fiber, ResumeFiber(t, f)
      PROVE  BlocksInv'
  <2>1. /\ current' = [current EXCEPT ![t] = f] /\ UNCHANGED <<flag, stack>>
        /\ current \in [Thread -> Fiber] /\ Home(f) = t
        /\ \A u \in Thread : Home(current[u]) = u
        /\ Stack(t) \in Seq(Frame) /\ stack[f] \in Seq(Frame)
    BY <1>8, StackType DEF ResumeFiber, Typed
  <2>2. Len(Stack(t)) = 0 /\ Len(stack[f]) = 0
    BY <1>8, <2>1 DEF ResumeFiber
  <2>3. Stack(t) = <<>> /\ stack[f] = <<>>
    BY <2>1, <2>2, EmptySeq
  <2>4. ~flag[t]
    BY <2>2 DEF BlocksInv, HasBlock
  <2>5. \A u \in Thread \ {t} : Stack(u)' = Stack(u)
    BY <2>1 DEF Stack
  <2>6. \A g \in Fiber : g # current'[Home(g)] => stack[g] = <<>>
    BY <2>1, <2>3 DEF BlocksInv, Stack
  <2> QED BY <2>1, <2>4, <2>5, <2>6 DEF BlocksInv, HasBlock, InBlock, Home
<1>9. CASE TakeGVL(t) \/ TakeGIL(t) \/ Preempt(t) \/ DropGIL(t)
  BY <1>9 DEF TakeGVL, TakeGIL, Preempt, DropGIL, BlocksInv, HasBlock, InBlock,
              Stack, Home
<1> QED BY <1>1, <1>2, <1>3, <1>4, <1>5, <1>6, <1>7, <1>8, <1>9 DEF Step

-----------------------------------------------------------------------------
(* The theorems.                                                           *)

\* Whatever the threads do and in whatever order, each holds the locks that
\* what it runs needs.
THEOREM LocksInvariance == Spec => []LocksInv
<1>1. Init => LocksInv
  <2> SUFFICES ASSUME Init PROVE LocksInv
    OBVIOUS
  <2>1. Typed
    BY LocksAssumption, EmptySeq DEF Init, Typed, Fiber, Home
  <2>2. StacksOK
    BY EmptySeq DEF Init, StacksOK
  <2>3. \A t \in Thread : Top(t) = MainTop
    BY <2>1 DEF Init, Top, Stack, MainTop, Typed
  <2>4. HoldersOK
    <3>1. ASSUME NEW t \in Thread
          PROVE  /\ wants[t] = IF t = Main THEN "none" ELSE "gvl"
                 /\ gvl = Main /\ gil = Main /\ Top(t).kind = "main"
      BY <2>3 DEF Init, MainTop
    <3> QED BY <3>1 DEF HoldersOK, HoldsOK, UnderGVL, NeedsGIL
  <2> QED BY <2>1, <2>2, <2>4 DEF LocksInv
<1>2. LocksInv /\ [Next]_vars => LocksInv'
  <2>1. ASSUME LocksInv, NEW t \in Thread, Step(t)
        PROVE  LocksInv'
    BY <2>1, LockSteps, EnterSteps, LeaveSteps, ResumeFiberStep DEF Step
  <2>2. ASSUME LocksInv, UNCHANGED vars
        PROVE  LocksInv'
    BY <2>2 DEF vars, LocksInv, Typed, StacksOK, HoldersOK, Top, Stack
  <2> QED BY <2>1, <2>2 DEF Next
<1> QED BY <1>1, <1>2, PTL DEF Spec

\* The types of PyCallLocks; and no thread asks for a lock that it holds.
THEOREM LocksTyped == Spec => []TypeOK
<1>1. LocksInv => TypeOK
  BY DEF LocksInv, HoldersOK, HoldsOK, TypeOK
<1> QED BY <1>1, LocksInvariance, PTL

\* Ruby code and the guard table are touched only by the thread that has the
\* GVL, also in a callback out of a call that gave it up.
THEOREM RubyRunsUnderGVL == Spec => []RubyHasGVL
<1>1. LocksInv => RubyHasGVL
  BY Running DEF LocksInv, RubyHasGVL, Runs, UnderGVL, RubyKind
<1> QED BY <1>1, LocksInvariance, PTL

\* The C API is called only by the thread that has the GIL; Main keeps it
\* whenever it runs.
THEOREM PythonRunsUnderGIL == Spec => []PythonHasGIL
<1>1. LocksInv => PythonHasGIL
  <2> SUFFICES ASSUME LocksInv, NEW t \in Thread, wants[t] = "none",
                      t = Main \/ RunsPython(t)
               PROVE  gil = t
    BY DEF PythonHasGIL
  <2>1. NeedsGIL(t, Top(t))
    BY Running DEF RunsPython, Runs, PythonKind, NeedsGIL
  <2> QED BY <2>1, Running
<1> QED BY <1>1, LocksInvariance, PTL

\* A call that gave the GVL up runs without it, after every callback too.
THEOREM ReleasedStaysReleased == Spec => []ReleasedMeansReleased
<1>1. LocksInv => ReleasedMeansReleased
  BY Running DEF ReleasedMeansReleased, Runs, UnderGVL
<1> QED BY <1>1, LocksInvariance, PTL

\* Only calls inside without_gvl blocks let other Ruby threads run, in a
\* program that resumes no fiber inside a block.
THEOREM GVLKeptOutsideBlocks ==
  ASSUME ~FiberInBlock
  PROVE  Spec => []KeptOutsideBlocks
<1>1. Init => BlocksInv
  BY EmptySeq DEF Init, BlocksInv
<1>2. Typed /\ BlocksInv /\ [Next]_vars => BlocksInv'
  <2>1. ASSUME Typed, BlocksInv, NEW t \in Thread, Step(t)
        PROVE  BlocksInv'
    BY <2>1, StepBlocks
  <2>2. ASSUME BlocksInv, UNCHANGED vars
        PROVE  BlocksInv'
    BY <2>2 DEF vars, BlocksInv, HasBlock, InBlock, Stack, Home
  <2> QED BY <2>1, <2>2 DEF Next
<1>3. Typed /\ BlocksInv => KeptOutsideBlocks
  <2> SUFFICES ASSUME Typed, BlocksInv, NEW fi \in CallFrames,
                      stack[fi[1]][fi[2]].undo
               PROVE  InBlock(fi[1], fi[2])
    BY DEF KeptOutsideBlocks
  <2>1. fi[1] \in Fiber /\ fi[2] \in 1..Len(stack[fi[1]])
    BY DEF CallFrames, Typed
  <2> QED BY <2>1 DEF CallFrames, BlocksInv
<1>4. LocksInv => Typed
  BY DEF LocksInv
<1> QED BY <1>1, <1>2, <1>3, <1>4, LocksInvariance, PTL DEF Spec

=============================================================================
