--------------------------- MODULE PyErrorsProofs ---------------------------
(***************************************************************************)
(* Errors between Python and Ruby, for any programs and any depth of the   *)
(* stack: with the methods of PyProtocols, so the invariants of PyErrors   *)
(* are proved for the larger system.                                       *)
(*                                                                         *)
(* The argument: what a frame may be doing is bounded by its kind, by the  *)
(* frame that is on top of it and by the program's features (Shape); so    *)
(* one knows what an exception that is flying, or pending, can meet.       *)
(***************************************************************************)
EXTENDS PyProtocols, TLAPS

InC == {"python", "failing", "returned", "raised"}

\* A method of PyProtocols waits for its call.
Waiting == {"enter", "exit", "iter", "next"}

\* What a frame of each kind does, and which feature it comes from.
FrameOK(fr) ==
  /\ fr.kind \in CKind => fr.pc \in InC \/ (fr.kind = "each" /\ fr.pc = "ruby")
  /\ fr.kind = "callback" => fr.pc \in {"args", "ruby", "result"}
  /\ fr.kind \in {"slot", "main"} => fr.pc = "ruby"
  /\ fr.kind = "with" => fr.pc \in {"enter", "ruby", "exit"}
  /\ fr.kind = "loop" => fr.pc \in {"iter", "next", "ruby"}
  /\ fr.kind \in {"blind", "slot"} => fr.kind \in prog
  /\ fr.err = "throw" => "throw" \in prog
  /\ fr.err = "StopIteration" => prog \cap {"stop", "interrupt"} # {}

\* What a frame waits for while fr is on top of it.
OnTop(fr, below) ==
  /\ fr.kind \in CKind => below.pc \in {"ruby", "result"} \cup Waiting
  /\ fr.kind \in {"with", "loop"} => below.pc = "ruby"
  /\ fr.kind \in {"callback", "slot"} => below.pc = "python"
  /\ fr.kind # "main"
  /\ below.pc = "result" => "hash_result" \in prog
  /\ below.pc \in Waiting => fr.kind = "call"

Shape ==
  /\ frame[0].kind = "main"
  /\ \A d \in 0..depth : FrameOK(frame[d])
  /\ \A d \in 1..depth : OnTop(frame[d], frame[d - 1])

Protected == Careful /\ prog \cap Unprotected = {}

\* A function that saw Python fail has an exception to fetch, nothing flies
\* before it has fetched it, and in a protected program nothing flies over C
\* code that waits for Python.
Pending ==
  /\ Top.pc \in {"raised", "failing"} => ind # "none"
  /\ Top.pc \in {"raised", "failing", "returned"} => Running
  /\ IndicatorClear
  /\ Protected /\ fly # "none" => Top.pc \in {"ruby"} \cup Waiting
  /\ fly = "throw" => "throw" \in prog

\* StopIteration is raised by the __next__ of a loop, and goes nowhere else.
StopOnlyEndsLoops ==
  prog \cap {"stop", "interrupt"} = {} =>
    /\ ind = "StopIteration" =>
         /\ Top.kind = "call" /\ Top.pc = "raised" /\ depth > 0
         /\ frame[depth - 1].kind = "loop" /\ frame[depth - 1].pc = "next"
    /\ fly = "StopIteration" => Top.kind = "loop" /\ Top.pc = "next"

\* The contexts that are open, and those that must be; each `with' has room
\* for its next call.
Contexts ==
  /\ open \subseteq 0..MaxDepth
  /\ ContextsClosed
  /\ \A d \in 0..depth : frame[d].kind = "with" =>
       d < MaxDepth /\ (frame[d].pc = "ruby" => d \in open)

ErrorsInv ==
  Typed /\ Shape /\ Pending /\ StopOnlyEndsLoops /\ NameRestored /\ Contexts

-----------------------------------------------------------------------------
(* The shape of the stack after each kind of change.                       *)

StackTyped ==
  /\ depth \in 0..MaxDepth
  /\ frame \in [0..MaxDepth -> Frame]
  /\ \A d \in 0..MaxDepth : frame[d].kind = "idle" <=> d > depth

LEMMA StackFacts ==
  ASSUME Typed, Shape
  PROVE  /\ depth \in Nat /\ MaxDepth \in Nat /\ depth <= MaxDepth
         /\ frame \in [0..MaxDepth -> Frame] /\ StackTyped
         /\ depth \in 0..depth /\ 0..depth \subseteq 0..MaxDepth
         /\ Top \in Frame /\ FrameOK(Top) /\ Top.kind # "idle"
         /\ Top.kind # "main" => /\ depth > 0 /\ depth \in 1..depth
                                 /\ depth - 1 \in 0..depth
                                 /\ frame[depth - 1] \in Frame
                                 /\ FrameOK(frame[depth - 1])
                                 /\ OnTop(Top, frame[depth - 1])
<1>1. /\ depth \in Nat /\ MaxDepth \in Nat /\ depth <= MaxDepth
      /\ frame \in [0..MaxDepth -> Frame] /\ StackTyped
      /\ depth \in 0..depth /\ 0..depth \subseteq 0..MaxDepth
  BY ErrorsAssumption DEF Typed, StackTyped
<1>2. Top \in Frame /\ FrameOK(Top) /\ Top.kind # "idle"
  BY <1>1 DEF Shape, StackTyped, Top
<1>3. ASSUME Top.kind # "main"
      PROVE  /\ depth > 0 /\ depth \in 1..depth /\ depth - 1 \in 0..depth
             /\ frame[depth - 1] \in Frame /\ FrameOK(frame[depth - 1])
             /\ OnTop(Top, frame[depth - 1])
  <2>1. depth > 0
    BY <1>1, <1>3 DEF Shape, Top
  <2>2. depth \in 1..depth /\ depth - 1 \in 0..depth /\ depth - 1 \in 0..MaxDepth
    BY <1>1, <2>1
  <2> QED BY <1>1, <2>1, <2>2 DEF Shape, Top
<1> QED BY <1>1, <1>2, <1>3

LEMMA NewFrameType ==
  ASSUME NEW k \in CKind \cup RubyKind,
         NEW at \in {"python", "args", "ruby", "enter", "iter"}
  PROVE  NewFrame(k, at) \in Frame
BY DEF NewFrame, Frame, Flight

\* The stack after a change at the top: the new frames are in order.
LEMMA ShapeAfter ==
  ASSUME Typed, Shape, UNCHANGED prog,
         NEW n \in 0..MaxDepth, depth' = n, frame' \in [0..MaxDepth -> Frame],
         NEW m \in Nat, m <= depth + 1, m <= n + 1,
         \A d \in 0..MaxDepth : d < m => frame'[d] = frame[d],
         \A d \in 0..MaxDepth : d > n => frame'[d].kind = "idle",
         \A d \in m..n : frame'[d].kind # "idle" /\ FrameOK(frame'[d]),
         \A d \in m..n : d > 0 => OnTop(frame'[d], frame'[d - 1]),
         m = 0 => frame'[0].kind = "main"
  PROVE  StackTyped' /\ Shape'
<1>1. depth \in Nat /\ MaxDepth \in Nat /\ depth <= MaxDepth
  BY StackFacts
<1>2. \A d \in 0..n : frame'[d].kind # "idle"
  BY <1>1 DEF Typed
<1>3. StackTyped'
  BY <1>1, <1>2 DEF StackTyped
<1>4. frame'[0].kind = "main"
  BY <1>1 DEF Shape
<1>5. ASSUME NEW d \in 0..n
      PROVE  FrameOK(frame'[d])
  <2>1. CASE d < m
    BY <1>1, <2>1 DEF Shape
  <2>2. CASE d >= m
    BY <2>2
  <2> QED BY <2>1, <2>2
<1>6. ASSUME NEW d \in 1..n
      PROVE  OnTop(frame'[d], frame'[d - 1])
  <2>1. CASE d < m
    BY <1>1, <2>1 DEF Shape
  <2>2. CASE d >= m
    BY <2>2
  <2> QED BY <2>1, <2>2
<1>7. Shape'
  BY <1>4, <1>5, <1>6 DEF Shape, FrameOK, OnTop
<1> QED BY <1>3, <1>7

LEMMA PushShape ==
  ASSUME Typed, Shape, UNCHANGED prog,
         NEW k \in CKind \cup RubyKind,
         NEW at \in {"python", "args", "ruby", "enter", "iter"}, Push(k, at),
         FrameOK(NewFrame(k, at)), OnTop(NewFrame(k, at), Top)
  PROVE  /\ StackTyped' /\ Shape'
         /\ depth' = depth + 1 /\ Top' = NewFrame(k, at)
         /\ \A d \in 0..depth : frame'[d] = frame[d]
<1> DEFINE fr == NewFrame(k, at)
<1>1. /\ depth \in Nat /\ MaxDepth \in Nat /\ depth < MaxDepth
      /\ frame \in [0..MaxDepth -> Frame] /\ StackTyped /\ fr \in Frame
      /\ depth' = depth + 1 /\ depth + 1 \in 0..MaxDepth
      /\ frame' = [frame EXCEPT ![depth + 1] = fr]
  BY StackFacts, NewFrameType DEF Push
<1>2. fr.kind = k /\ k # "idle"
  BY DEF NewFrame, CKind, RubyKind
<1> HIDE DEF fr
<1>3. /\ frame' \in [0..MaxDepth -> Frame]
      /\ \A d \in 0..MaxDepth : d # depth + 1 => frame'[d] = frame[d]
      /\ frame'[depth + 1] = fr
  BY <1>1
<1>4. StackTyped' /\ Shape'
  <2>1. OnTop(frame'[depth + 1], frame'[depth])
    BY <1>1, <1>3 DEF fr, Top
  <2>2. \A d \in 0..MaxDepth : d > depth + 1 => frame'[d].kind = "idle"
    BY <1>1, <1>3 DEF StackTyped
  <2>3. FrameOK(frame'[depth + 1]) /\ frame'[depth + 1].kind # "idle"
    BY <1>2, <1>3 DEF fr
  <2>4. ASSUME NEW d \in depth + 1..depth + 1
        PROVE  /\ frame'[d].kind # "idle" /\ FrameOK(frame'[d])
               /\ OnTop(frame'[d], frame'[d - 1])
    <3>1. d = depth + 1 /\ d - 1 = depth
      BY <1>1
    <3> QED BY <2>1, <2>3, <3>1
  <2>5. \A d \in 0..MaxDepth : d < depth + 1 => frame'[d] = frame[d]
    BY <1>1, <1>3
  <2>6. /\ depth + 1 \in Nat /\ depth + 1 # 0
        /\ depth + 1 <= depth + 1 /\ depth + 1 <= depth + 1 + 1
    BY <1>1
  <2> QED BY <1>1, <1>3, <2>2, <2>4, <2>5, <2>6, ShapeAfter
<1> QED BY <1>1, <1>3, <1>4 DEF Top, fr

LEMMA PopShape ==
  ASSUME Typed, Shape, UNCHANGED prog, Top.kind # "main", Pop
  PROVE  /\ StackTyped' /\ Shape'
         /\ depth' = depth - 1 /\ Top' = frame[depth - 1]
         /\ \A d \in 0..depth - 1 : frame'[d] = frame[d]
<1>1. /\ depth \in Nat /\ MaxDepth \in Nat /\ depth > 0 /\ depth <= MaxDepth
      /\ frame \in [0..MaxDepth -> Frame] /\ StackTyped
      /\ depth' = depth - 1 /\ depth - 1 \in 0..MaxDepth
      /\ frame' = [frame EXCEPT ![depth] = IdleFrame]
      /\ IdleFrame \in Frame /\ IdleFrame.kind = "idle"
  BY StackFacts DEF Pop, IdleFrame, Frame, Flight
<1>2. /\ frame' \in [0..MaxDepth -> Frame]
      /\ \A d \in 0..MaxDepth : d # depth => frame'[d] = frame[d]
      /\ frame'[depth].kind = "idle"
  BY <1>1
<1>3. \A d \in 0..MaxDepth : d > depth - 1 => frame'[d].kind = "idle"
  BY <1>1, <1>2 DEF StackTyped
<1>4. \A d \in depth..depth - 1 : FALSE
  BY <1>1
<1>5. StackTyped' /\ Shape'
  <2>1. \A d \in 0..MaxDepth : d < depth => frame'[d] = frame[d]
    BY <1>1, <1>2
  <2>2. depth <= depth + 1 /\ depth <= depth - 1 + 1 /\ depth # 0
    BY <1>1
  <2> QED BY <1>1, <1>2, <1>3, <1>4, <2>1, <2>2, ShapeAfter
<1> QED BY <1>1, <1>2, <1>5 DEF Top

\* The frame at depth n becomes fr, and those above it are gone.
LEMMA ChangeShape ==
  ASSUME Typed, Shape, UNCHANGED prog,
         NEW n \in 1..depth, NEW fr \in Frame,
         depth' = n, frame' \in [0..MaxDepth -> Frame], frame'[n] = fr,
         \A d \in 0..MaxDepth : d < n => frame'[d] = frame[d],
         \A d \in 0..MaxDepth : d > n => frame'[d].kind = "idle",
         fr.kind = frame[n].kind, FrameOK(fr)
  PROVE  StackTyped' /\ Shape' /\ Top' = fr
<1>1. depth \in Nat /\ MaxDepth \in Nat /\ depth <= MaxDepth
  BY StackFacts
<1>2. n \in 0..MaxDepth /\ n \in Nat /\ n - 1 \in 0..MaxDepth /\ n - 1 < n
  BY <1>1
<1>3. fr.kind # "idle"
  BY <1>1, <1>2 DEF Typed
<1>4. OnTop(fr, frame'[n - 1])
  BY <1>1, <1>2 DEF Shape, OnTop
<1>5. ASSUME NEW d \in n..n
      PROVE  /\ frame'[d].kind # "idle" /\ FrameOK(frame'[d])
             /\ OnTop(frame'[d], frame'[d - 1])
  <2>1. d = n
    BY <1>2
  <2> QED BY <1>3, <1>4, <2>1
<1>6. StackTyped' /\ Shape'
  <2>1. n <= depth + 1 /\ n <= n + 1 /\ n # 0
    BY <1>1
  <2> QED BY <1>2, <1>5, <2>1, ShapeAfter
<1> QED BY <1>6 DEF Top

LEMMA GotoShape ==
  ASSUME Typed, Shape, UNCHANGED prog, Top.kind # "main",
         NEW at, Goto(at), [Top EXCEPT !.pc = at] \in Frame,
         FrameOK([Top EXCEPT !.pc = at])
  PROVE  /\ StackTyped' /\ Shape'
         /\ depth' = depth /\ Top' = [Top EXCEPT !.pc = at]
         /\ \A d \in 0..depth : d # depth => frame'[d] = frame[d]
<1> DEFINE fr == [Top EXCEPT !.pc = at]
<1>1. /\ depth \in 1..depth /\ depth \in 0..MaxDepth
      /\ frame \in [0..MaxDepth -> Frame] /\ StackTyped
      /\ depth' = depth /\ frame' = [frame EXCEPT ![depth] = fr]
      /\ 0..depth \subseteq 0..MaxDepth
  BY StackFacts DEF Goto, Top
<1>2. fr.kind = frame[depth].kind
  BY <1>1 DEF Top, Frame
<1> HIDE DEF fr
<1>3. /\ frame' \in [0..MaxDepth -> Frame] /\ frame'[depth] = fr
      /\ \A d \in 0..MaxDepth : d # depth => frame'[d] = frame[d]
  BY <1>1 DEF fr
<1>4. \A d \in 0..MaxDepth : d > depth => frame'[d].kind = "idle"
  BY <1>1, <1>3 DEF StackTyped
<1>5. \A d \in 0..MaxDepth : d < depth => frame'[d] = frame[d]
  BY <1>1, <1>3
<1>6. fr \in Frame /\ FrameOK(fr)
  BY DEF fr
<1>7. StackTyped' /\ Shape' /\ Top' = fr
  BY <1>1, <1>2, <1>3, <1>4, <1>5, <1>6, ChangeShape
<1> QED BY <1>1, <1>3, <1>7 DEF fr

-----------------------------------------------------------------------------
(* What a step has to leave behind, for each kind of stack change.         *)

NoStop == prog \cap {"stop", "interrupt"} = {}

\* The exception comes from the __next__ of the loop at depth d.
NextOf(d) == d >= 0 /\ frame[d].kind = "loop" /\ frame[d].pc = "next"

LeftTyped ==
  ind \in PyExc \cup {"none"} /\ fly \in Flight /\ cut \in BOOLEAN

LEMMA AfterPop ==
  ASSUME ErrorsInv, UNCHANGED <<prog, open>>, Top.kind # "main", Pop, LeftTyped',
         Careful => ind' = "none",
         Protected /\ fly' # "none" => frame[depth - 1].pc \in {"ruby"} \cup Waiting,
         fly' = "throw" => "throw" \in prog,
         NoStop => ind' # "StopIteration" /\ (fly' = "StopIteration" => NextOf(depth - 1)),
         cut' => cut /\ (Top.kind = "setter" => ~Protected),
         "throw" \notin prog /\ Top.kind = "with" => Top.pc = "exit"
  PROVE  ErrorsInv'
<1>1. /\ StackTyped' /\ Shape' /\ depth' = depth - 1 /\ Top' = frame[depth - 1]
      /\ \A d \in 0..depth - 1 : frame'[d] = frame[d]
  BY PopShape DEF ErrorsInv
<1>2. /\ depth \in Nat /\ depth > 0 /\ OnTop(Top, Top') /\ Top \in Frame
      /\ Top.kind # "idle" /\ depth \in 1..depth /\ depth - 1 \in 0..depth - 1
      /\ frame[depth - 1] = Top' /\ depth <= MaxDepth /\ MaxDepth \in Nat
  BY <1>1, StackFacts DEF ErrorsInv
<1>3. Typed'
  BY <1>1 DEF Typed, StackTyped, LeftTyped, ErrorsInv
<1>4. Top'.pc \in {"ruby", "python", "result"} \cup Waiting
  <2>1. Top.kind \in CKind \cup {"with", "loop", "callback", "slot"}
    BY <1>2 DEF Frame, RubyKind
  <2> QED BY <1>2, <2>1 DEF OnTop
<1>5. Pending'
  BY <1>2, <1>4 DEF Pending, IndicatorClear, Protected, Careful, Running, Waiting
<1>6. StopOnlyEndsLoops'
  BY <1>2 DEF StopOnlyEndsLoops, NoStop, NextOf
<1>7. NameRestored'
  <2> SUFFICES ASSUME Protected, cut'
               PROVE  \E d \in 1..depth' : frame'[d].kind = "setter"
    BY DEF NameRestored, Protected, Careful
  <2>1. cut /\ Top.kind # "setter"
    OBVIOUS
  <2>2. PICK d \in 1..depth : frame[d].kind = "setter"
    BY <2>1 DEF ErrorsInv, NameRestored, Protected
  <2>3. d # depth
    BY <2>1, <2>2 DEF Top
  <2> QED BY <1>1, <1>2, <2>2, <2>3
<1>8. Contexts'
  <2>1. open' \subseteq 0..MaxDepth
    BY DEF ErrorsInv, Contexts
  <2>2. ASSUME "throw" \notin prog, NEW d \in open
        PROVE  d <= depth - 1 /\ frame'[d].kind = "with" /\ frame'[d].pc # "exit"
    <3>1. d <= depth /\ frame[d].kind = "with" /\ frame[d].pc # "exit" /\ d \in 0..MaxDepth
      BY <2>2 DEF ErrorsInv, Contexts, ContextsClosed, AtExit
    <3>2. d # depth
      BY <2>2, <3>1 DEF Top
    <3> QED BY <1>1, <1>2, <3>1, <3>2
  <2>3. ASSUME NEW d \in 0..depth - 1, frame'[d].kind = "with"
        PROVE  d < MaxDepth /\ (frame'[d].pc = "ruby" => d \in open)
    BY <1>1, <1>2, <2>3 DEF ErrorsInv, Contexts
  <2> QED BY <1>1, <2>1, <2>2, <2>3 DEF Contexts, ContextsClosed, AtExit
<1> QED BY <1>1, <1>3, <1>5, <1>6, <1>7, <1>8 DEF ErrorsInv

LEMMA AfterPush ==
  ASSUME ErrorsInv, UNCHANGED <<prog, open>>, LeftTyped', fly' = "none",
         NEW k \in CKind \cup {"callback", "slot"}, NEW at \in {"python", "args", "ruby"},
         Push(k, at), FrameOK(NewFrame(k, at)), OnTop(NewFrame(k, at), Top),
         Careful => ind' = "none", NoStop => ind' # "StopIteration",
         cut' => cut \/ k = "setter"
  PROVE  ErrorsInv'
<1>1. /\ StackTyped' /\ Shape' /\ depth' = depth + 1 /\ Top' = NewFrame(k, at)
      /\ \A d \in 0..depth : frame'[d] = frame[d]
  BY PushShape DEF ErrorsInv, RubyKind
<1>2. /\ depth \in Nat /\ depth + 1 \in 1..depth + 1
      /\ Top'.kind = k /\ Top'.pc = at /\ frame'[depth + 1] = Top'
  BY <1>1, StackFacts DEF ErrorsInv, Top, NewFrame
<1>3. Typed'
  BY <1>1 DEF Typed, StackTyped, LeftTyped, ErrorsInv
<1>4. Pending'
  BY <1>2 DEF Pending, IndicatorClear, Protected, Careful, Running
<1>5. StopOnlyEndsLoops'
  BY <1>2 DEF StopOnlyEndsLoops, NoStop
<1>6. NameRestored'
  <2> SUFFICES ASSUME Protected, cut'
               PROVE  \E d \in 1..depth + 1 : frame'[d].kind = "setter"
    BY <1>1 DEF NameRestored, Protected, Careful
  <2>1. CASE k = "setter"
    BY <1>2, <2>1
  <2>2. CASE cut
    <3>1. PICK d \in 1..depth : frame[d].kind = "setter"
      BY <2>2 DEF ErrorsInv, NameRestored, Protected
    <3> QED BY <1>1, <1>2, <3>1
  <2> QED BY <2>1, <2>2
<1>7. Contexts'
  <2>1. open' \subseteq 0..MaxDepth
    BY DEF ErrorsInv, Contexts
  <2>2. ASSUME "throw" \notin prog, NEW d \in open
        PROVE  d <= depth + 1 /\ frame'[d].kind = "with" /\ frame'[d].pc # "exit"
    <3>1. d <= depth /\ frame[d].kind = "with" /\ frame[d].pc # "exit" /\ d \in 0..MaxDepth
      BY <2>2 DEF ErrorsInv, Contexts, ContextsClosed, AtExit
    <3> QED BY <1>1, <1>2, <3>1
  <2>3. ASSUME NEW d \in 0..depth + 1, frame'[d].kind = "with"
        PROVE  d < MaxDepth /\ (frame'[d].pc = "ruby" => d \in open)
    <3>1. d # depth + 1
      BY <1>2, <2>3 DEF CKind
    <3>2. d \in 0..depth
      BY <1>2, <3>1
    <3> QED BY <1>1, <2>3, <3>2 DEF ErrorsInv, Contexts
  <2> QED BY <1>1, <2>1, <2>2, <2>3 DEF Contexts, ContextsClosed, AtExit
<1> QED BY <1>1, <1>3, <1>4, <1>5, <1>6, <1>7 DEF ErrorsInv

LEMMA AfterGoto ==
  ASSUME ErrorsInv, UNCHANGED <<prog, open, cut>>, LeftTyped',
         Top.kind \notin {"main", "with"}, NEW at, Goto(at),
         [Top EXCEPT !.pc = at] \in Frame, FrameOK([Top EXCEPT !.pc = at]),
         at \in {"raised", "failing"} => ind' # "none",
         at \in {"raised", "failing", "returned"} => fly' = "none",
         Careful /\ ind' # "none" => at \in {"raised", "failing"},
         Protected /\ fly' # "none" => at \in {"ruby"} \cup Waiting,
         fly' = "throw" => "throw" \in prog,
         NoStop /\ ind' = "StopIteration" =>
           Top.kind = "call" /\ at = "raised" /\ NextOf(depth - 1),
         NoStop => fly' # "StopIteration"
  PROVE  ErrorsInv'
<1>1. /\ StackTyped' /\ Shape' /\ depth' = depth /\ Top' = [Top EXCEPT !.pc = at]
      /\ \A d \in 0..depth : d # depth => frame'[d] = frame[d]
  BY GotoShape DEF ErrorsInv
<1>2. /\ depth \in Nat /\ depth > 0 /\ depth - 1 \in 0..depth /\ depth - 1 # depth
      /\ Top'.kind = Top.kind /\ Top'.pc = at
      /\ frame'[depth] = Top' /\ frame[depth] = Top
  BY <1>1, StackFacts DEF ErrorsInv, Top, Frame
<1>3. Typed'
  BY <1>1 DEF Typed, StackTyped, LeftTyped, ErrorsInv
<1>4. Pending'
  BY <1>2 DEF Pending, IndicatorClear, Protected, Careful, Running, Waiting
<1>5. StopOnlyEndsLoops'
  BY <1>1, <1>2 DEF StopOnlyEndsLoops, NoStop, NextOf
<1>6. NameRestored'
  <2> SUFFICES ASSUME Protected, cut
               PROVE  \E d \in 1..depth : frame'[d].kind = "setter"
    BY <1>1 DEF NameRestored, Protected, Careful
  <2>1. PICK d \in 1..depth : frame[d].kind = "setter"
    BY DEF ErrorsInv, NameRestored, Protected
  <2>2. d \in 0..depth
    BY <1>2
  <2>3. frame'[d].kind = "setter"
    BY <1>1, <1>2, <2>1, <2>2
  <2> QED BY <2>3
<1>7. Contexts'
  <2>1. open' \subseteq 0..MaxDepth
    BY DEF ErrorsInv, Contexts
  <2>2. ASSUME "throw" \notin prog, NEW d \in open
        PROVE  d <= depth /\ frame'[d].kind = "with" /\ frame'[d].pc # "exit"
    <3>1. d <= depth /\ frame[d].kind = "with" /\ frame[d].pc # "exit" /\ d \in 0..MaxDepth
      BY <2>2 DEF ErrorsInv, Contexts, ContextsClosed, AtExit
    <3> QED BY <1>1, <1>2, <3>1
  <2>3. ASSUME NEW d \in 0..depth, frame'[d].kind = "with"
        PROVE  d < MaxDepth /\ (frame'[d].pc = "ruby" => d \in open)
    BY <1>1, <1>2, <2>3 DEF ErrorsInv, Contexts
  <2> QED BY <1>1, <2>1, <2>2, <2>3 DEF Contexts, ContextsClosed, AtExit
<1> QED BY <1>1, <1>3, <1>4, <1>5, <1>6, <1>7 DEF ErrorsInv

LEMMA AfterSame ==
  ASSUME ErrorsInv, UNCHANGED <<prog, open, cut, depth, frame>>, LeftTyped',
         Top.pc \notin {"raised", "failing", "returned"},
         Careful => ind' = "none",
         Protected /\ fly' # "none" => Top.pc \in {"ruby"} \cup Waiting,
         fly' = "throw" => "throw" \in prog,
         NoStop => ind' # "StopIteration" /\ fly' # "StopIteration"
  PROVE  ErrorsInv'
<1>1. Top' = Top
  BY DEF Top
<1>2. Typed' /\ Shape'
  BY DEF ErrorsInv, Typed, LeftTyped, Shape, FrameOK, OnTop
<1>3. Pending'
  BY <1>1 DEF Pending, IndicatorClear, Protected, Careful, Running, Waiting
<1>4. StopOnlyEndsLoops'
  BY DEF StopOnlyEndsLoops, NoStop
<1>5. NameRestored' /\ Contexts'
  BY DEF ErrorsInv, NameRestored, Careful, Contexts, ContextsClosed, AtExit
<1> QED BY <1>2, <1>3, <1>4, <1>5 DEF ErrorsInv

-----------------------------------------------------------------------------
(* Functions of pycall.                                                    *)

\* What a function may leave behind when it returns.
LeftByC ==
  /\ ind' \in PyExc \cup {"none"}
  /\ Careful => ind' = "none"
  /\ NoStop => ind' # "StopIteration"
  /\ fly' \in {"none", "RubyError", ind}

LEMMA FetchLeaves ==
  ASSUME ErrorsInv, FetchAndRaise
  PROVE  LeftByC /\ fly' # "none"
BY DEF FetchAndRaise, Leave, LeftByC

\* Where no exception is pending that Python code has just raised, an error
\* is pending only in a careless program.
LEMMA ConvertLeaves ==
  ASSUME ErrorsInv, Top.pc \notin {"raised", "failing"}, ConvertResult
  PROVE  LeftByC
<1>1. ind \in PyExc \cup {"none"} /\ (Careful => ind = "none")
  BY DEF ErrorsInv, Typed, Pending, IndicatorClear
<1>2. NoStop => ind # "StopIteration"
  BY DEF ErrorsInv, StopOnlyEndsLoops, NoStop
<1>3. "blind" \in prog => ~Careful
  BY DEF Careful, LeavesError
<1> QED BY <1>1, <1>2, <1>3, FetchLeaves
        DEF ConvertResult, MisjudgedClass, Leave, LeftByC, PyExc

LEMMA LeaveAsIs ==
  ASSUME ErrorsInv, Top.pc \notin {"raised", "failing"}, Leave(ind, "none")
  PROVE  LeftByC
BY DEF ErrorsInv, Typed, Pending, IndicatorClear, StopOnlyEndsLoops, NoStop,
       Leave, LeftByC

LEMMA CReturns ==
  ASSUME ErrorsInv, UNCHANGED <<prog, open>>, Top.kind \in CKind, Pop, LeftByC,
         cut' \in BOOLEAN, cut' => cut /\ Top.kind # "setter"
  PROVE  ErrorsInv'
<1>1. LeftTyped'
  <2>1. fly' \in {"none", "RubyError"} \cup PyExc
    BY DEF LeftByC, ErrorsInv, Typed
  <2> QED BY <2>1 DEF LeftByC, LeftTyped, Flight
<1>2. /\ Top.kind # "main" /\ Top.kind # "with"
      /\ OnTop(Top, frame[depth - 1]) /\ depth > 0 /\ depth \in Nat
  BY StackFacts DEF CKind, ErrorsInv
<1>3. Protected /\ fly' # "none" => frame[depth - 1].pc \in {"ruby"} \cup Waiting
  BY <1>2 DEF OnTop, Protected, Unprotected
<1>4. fly' = "throw" => "throw" \in prog
  BY DEF LeftByC, ErrorsInv, Typed, PyExc
<1>5. NoStop => ind' # "StopIteration" /\ (fly' = "StopIteration" => NextOf(depth - 1))
  BY <1>2 DEF LeftByC, ErrorsInv, StopOnlyEndsLoops, NoStop, NextOf
<1>6. Careful => ind' = "none"
  BY DEF LeftByC
<1>7. cut' => cut /\ (Top.kind = "setter" => ~Protected)
  OBVIOUS
<1>8. "throw" \notin prog /\ Top.kind = "with" => Top.pc = "exit"
  BY <1>2
<1> QED BY <1>1, <1>2, <1>3, <1>4, <1>5, <1>6, <1>7, <1>8, AfterPop

\* Functions that call Python and return, each in its own way.
CReturn ==
  \/ GetattrReturn \/ CheckedReturn \/ ProbeReturn \/ KindOfReturn \/ BlindReturn
  \/ CallReturn \/ CallInterrupted \/ DictFromRubyReturn \/ EachEnd \/ SetterReturn

LEMMA CReturnStep ==
  ASSUME ErrorsInv, CReturn, UNCHANGED <<prog, open>>
  PROVE  ErrorsInv'
<1>0. cut \in BOOLEAN /\ (~Failed /\ Top.pc \in {"returned", "raised"} =>
                           Top.pc \notin {"raised", "failing"})
  BY DEF ErrorsInv, Typed, Failed
<1>1. ASSUME Leave("none", "none") \/ Leave("none", "RubyError")
      PROVE  LeftByC
  BY <1>1 DEF Leave, LeftByC
<1>2. CASE GetattrReturn
  <2>1. ~Failed /\ MisjudgedClass => LeftByC
    BY <1>0, <1>2, ConvertLeaves DEF GetattrReturn, Back, ConvertResult
  <2> QED BY <1>0, <1>1, <1>2, <2>1, FetchLeaves, CReturns DEF GetattrReturn, Back, CKind, In
<1>3. CASE CheckedReturn
  BY <1>0, <1>3, FetchLeaves, ConvertLeaves, CReturns DEF CheckedReturn, Back, CKind, In
<1>4. CASE ProbeReturn
  BY <1>0, <1>1, <1>4, LeaveAsIs, CReturns DEF ProbeReturn, Back, CKind, In
<1>5. CASE KindOfReturn
  BY <1>0, <1>1, <1>5, LeaveAsIs, CReturns DEF KindOfReturn, Back, CKind, In
<1>6. CASE BlindReturn
  <2>1. Top.kind = "blind" /\ FrameOK(Top)
    BY <1>6, StackFacts DEF BlindReturn, Back, In, ErrorsInv
  <2>2. ~Careful /\ (NoStop => ind # "StopIteration")
    BY <2>1 DEF FrameOK, Careful, LeavesError, ErrorsInv, StopOnlyEndsLoops, NoStop
  <2>3. LeftByC
    BY <1>6, <2>2 DEF BlindReturn, Leave, LeftByC, ErrorsInv, Typed
  <2> QED BY <1>0, <1>6, <2>1, <2>3, CReturns DEF BlindReturn, CKind
<1>7. CASE CallReturn
  BY <1>0, <1>7, FetchLeaves, ConvertLeaves, CReturns DEF CallReturn, Back, CKind, In
<1>8. CASE CallInterrupted
  <2>1. ~Careful /\ ~NoStop
    BY <1>8 DEF CallInterrupted, Careful, LeavesError, NoStop
  <2>2. LeftByC
    BY <1>8, <2>1 DEF CallInterrupted, Leave, LeftByC, ErrorsInv, Typed
  <2> QED BY <1>0, <1>8, <2>2, CReturns DEF CallInterrupted, Back, CKind, In
<1>9. CASE DictFromRubyReturn
  BY <1>0, <1>1, <1>9, FetchLeaves, CReturns DEF DictFromRubyReturn, Back, CKind, In
<1>10. CASE EachEnd
  BY <1>0, <1>1, <1>10, FetchLeaves, CReturns DEF EachEnd, Back, CKind, In
<1>11. CASE SetterReturn
  BY <1>0, <1>11, FetchLeaves, LeaveAsIs, CReturns DEF SetterReturn, Back, CKind, In
<1> QED BY <1>2, <1>3, <1>4, <1>5, <1>6, <1>7, <1>8, <1>9, <1>10, <1>11 DEF CReturn

\* Where no Python code has just raised, only a careless program has an error
\* pending, and it is no StopIteration of a loop's __next__.
LEMMA QuietTop ==
  ASSUME ErrorsInv, Top.pc \notin {"raised", "failing"}
  PROVE  /\ ind \in PyExc \cup {"none"} /\ cut \in BOOLEAN
         /\ Careful => ind = "none"
         /\ NoStop => ind # "StopIteration"
BY DEF ErrorsInv, Typed, Pending, IndicatorClear, StopOnlyEndsLoops, NoStop

\* A call of Python, from Ruby code or from the end of a callback.
LEMMA CallsPython ==
  ASSUME ErrorsInv, UNCHANGED <<prog, open>>, NEW k \in CKind, Push(k, "python"),
         k = "blind" => k \in prog, k = "call" \/ Top.pc \notin Waiting,
         Top.pc \in {"ruby", "result"} \cup Waiting,
         Top.pc = "result" => "hash_result" \in prog,
         fly' = "none", ind' \in PyExc \cup {"none"}, cut' \in BOOLEAN,
         Careful => ind' = "none", NoStop => ind' # "StopIteration",
         cut' => cut \/ k = "setter"
  PROVE  ErrorsInv'
<1>1. LeftTyped'
  BY DEF LeftTyped, Flight
<1>2. FrameOK(NewFrame(k, "python"))
  BY DEF FrameOK, NewFrame, CKind, InC
<1>3. OnTop(NewFrame(k, "python"), Top)
  BY DEF OnTop, NewFrame, CKind, Waiting
<1> QED BY <1>1, <1>2, <1>3, AfterPush

\* What becomes of the top frame when it goes on at `at'.
LEMMA GoesOn ==
  ASSUME ErrorsInv,
         NEW at \in {"python", "failing", "returned", "raised", "args", "ruby", "result",
                     "enter", "exit", "iter", "next"}
  PROVE  LET fr == [Top EXCEPT !.pc = at]
         IN  fr \in Frame /\ fr.kind = Top.kind /\ fr.pc = at /\ fr.err = Top.err
<1>1. Top \in Frame
  BY StackFacts DEF ErrorsInv
<1> QED BY <1>1 DEF Frame

\* A frame of C code, which knows no rescue, goes on.
LEMMA CGoesOn ==
  ASSUME ErrorsInv, UNCHANGED <<prog, open, cut>>, Top.kind \in CKind,
         NEW at \in InC \cup {"ruby"}, Goto(at), at = "ruby" => Top.kind = "each",
         ind' \in PyExc \cup {"none"}, fly' = "none",
         at \in {"raised", "failing"} => ind' # "none",
         Careful /\ ind' # "none" => at \in {"raised", "failing"},
         NoStop /\ ind' = "StopIteration" =>
           Top.kind = "call" /\ at = "raised" /\ NextOf(depth - 1)
  PROVE  ErrorsInv'
<1> DEFINE fr == [Top EXCEPT !.pc = at]
<1>1. fr \in Frame /\ fr.kind = Top.kind /\ fr.pc = at /\ fr.err = Top.err
  BY GoesOn DEF InC
<1>2. FrameOK(Top) /\ Top.kind \notin {"main", "with"}
  BY StackFacts DEF ErrorsInv, CKind
<1> HIDE DEF fr
<1>3. FrameOK(fr)
  BY <1>1, <1>2 DEF FrameOK, CKind
<1>4. LeftTyped' /\ (fly' = "throw" => "throw" \in prog) /\ (NoStop => fly' # "StopIteration")
  BY DEF LeftTyped, Flight, ErrorsInv, Typed
<1> QED BY <1>1, <1>2, <1>3, <1>4, AfterGoto DEF fr

EnterK == {"getattr", "checked", "probe", "kindof", "blind", "call", "todict", "each"}

CEnter ==
  \/ \E k \in EnterK : Enter(k)
  \/ BadText \/ CallKwargs \/ EachYield \/ EachNext \/ SetterEnter

LEMMA CEnterStep ==
  ASSUME ErrorsInv, CEnter, UNCHANGED <<prog, open>>
  PROVE  ErrorsInv'
<1>0. ASSUME InRuby
      PROVE  /\ fly = "none" /\ Top.pc = "ruby" /\ Top.pc \notin Waiting
             /\ Top.pc \notin {"raised", "failing", "returned"} /\ Top.pc # "result"
  BY <1>0 DEF InRuby, Running, Waiting
<1>1. ASSUME NEW k \in EnterK, Enter(k)
      PROVE  ErrorsInv'
  BY <1>0, <1>1, QuietTop, CallsPython DEF Enter, EnterK, CKind
<1>2. CASE BadText
  <2>1. ~Careful
    BY <1>2 DEF BadText, Careful, LeavesError
  <2>2. ASSUME NEW k \in {"checked", "call"}, Push(k, "python"), Leave("Error", "none")
        PROVE  ErrorsInv'
    BY <1>0, <1>2, <2>1, <2>2, QuietTop, CallsPython DEF BadText, Leave, CKind, PyExc
  <2>3. CASE Leave("none", "Error") /\ UNCHANGED stack
    <3>1. /\ UNCHANGED <<cut, depth, frame>> /\ ind' = "none" /\ fly' = "Error"
          /\ ~Protected /\ Top.pc \in {"ruby"} \cup Waiting
      BY <1>0, <1>2, <2>1, <2>3 DEF BadText, Leave, stack, Protected
    <3>2. LeftTyped' /\ (NoStop => ind' # "StopIteration" /\ fly' # "StopIteration")
      BY <1>0, <1>2, <3>1, QuietTop DEF BadText, LeftTyped, Flight, PyExc
    <3> QED BY <1>0, <1>2, <3>1, <3>2, AfterSame DEF BadText
  <2> QED BY <1>2, <2>2, <2>3 DEF BadText
<1>3. CASE CallKwargs
  <2>1. CASE ind # "none"
    <3>1. UNCHANGED <<cut, depth, frame>> /\ LeftByC
      BY <1>3, <2>1, FetchLeaves DEF CallKwargs, stack
    <3>2. ~Careful /\ ~Protected
      BY <1>0, <1>3, <2>1, QuietTop DEF CallKwargs, Protected
    <3>3. fly' = ind /\ ind' = "none"
      BY <1>3, <2>1 DEF CallKwargs, FetchAndRaise, Leave
    <3>4. LeftTyped'
      BY <1>0, <1>3, <3>1, <3>3, QuietTop DEF CallKwargs, LeftTyped, Flight
    <3>5. NoStop => ind' # "StopIteration" /\ fly' # "StopIteration"
      BY <1>0, <1>3, <3>3, QuietTop DEF CallKwargs
    <3>6. fly' # "throw"
      BY <3>3 DEF ErrorsInv, Typed, PyExc
    <3> QED BY <1>0, <1>3, <3>1, <3>2, <3>3, <3>4, <3>5, <3>6, AfterSame DEF CallKwargs
  <2>2. CASE ind = "none"
    BY <1>0, <1>3, <2>2, QuietTop, CallsPython DEF CallKwargs, CKind
  <2> QED BY <2>1, <2>2
<1>4. CASE EachYield
  <2>1. /\ Top.kind = "each" /\ Top.kind \in CKind /\ Top.pc \notin {"raised", "failing"}
        /\ cut \in BOOLEAN
    BY <1>4 DEF EachYield, Back, In, Failed, CKind, ErrorsInv, Typed
  <2>2. LeftByC /\ UNCHANGED cut
    BY <1>4, <2>1, ConvertLeaves DEF EachYield
  <2>3. CASE fly' = "none"
    <3>1. Goto("ruby")
      BY <1>4, <2>3 DEF EachYield
    <3> QED BY <2>1, <2>2, <2>3, <3>1, CGoesOn DEF LeftByC
  <2>4. CASE fly' # "none"
    BY <1>4, <2>1, <2>2, <2>4, CReturns DEF EachYield
  <2> QED BY <2>3, <2>4
<1>5. CASE EachNext
  <2>1. Top.kind = "each" /\ Top.kind \in CKind /\ Goto("python") /\ UNCHANGED <<ind, fly, cut>>
    BY <1>5 DEF EachNext, In, CKind
  <2> QED BY <1>0, <1>5, <2>1, QuietTop, CGoesOn DEF EachNext, InC
<1>6. CASE SetterEnter
  <2>1. CASE cut
    <3>1. /\ UNCHANGED <<cut, depth, frame, ind>> /\ fly' = "RubyError"
          /\ Top.pc \in {"ruby"} \cup Waiting
      BY <1>0, <1>6, <2>1 DEF SetterEnter, stack
    <3>2. LeftTyped' /\ (Careful => ind' = "none")
          /\ (NoStop => ind' # "StopIteration" /\ fly' # "StopIteration")
      BY <1>0, <1>6, <3>1, QuietTop DEF SetterEnter, LeftTyped, Flight
    <3> QED BY <1>0, <1>6, <3>1, <3>2, AfterSame DEF SetterEnter
  <2>2. CASE ~cut
    BY <1>0, <1>6, <2>2, QuietTop, CallsPython DEF SetterEnter, CKind
  <2> QED BY <2>1, <2>2
<1> QED BY <1>1, <1>2, <1>3, <1>4, <1>5, <1>6 DEF CEnter

-----------------------------------------------------------------------------
(* Python, and the callbacks.                                              *)

\* Python code runs for a function of pycall only.
LEMMA PcTellsKind ==
  ASSUME ErrorsInv
  PROVE  /\ Top.pc \in InC => Top.kind \in CKind
         /\ Top.pc \in {"args", "result"} => Top.kind = "callback"
<1>1. Top \in Frame /\ FrameOK(Top) /\ Top.kind # "idle"
  BY StackFacts DEF ErrorsInv
<1> QED BY <1>1 DEF Frame, FrameOK, CKind, RubyKind, InC

\* Nothing flies out of a conversion in a careful program.
LEMMA ConvertQuiet ==
  ASSUME ErrorsInv, Top.pc \notin {"raised", "failing"}, ConvertResult, Careful
  PROVE  fly' = "none"
BY QuietTop DEF ConvertResult, MisjudgedClass, FetchAndRaise, Leave, Careful, LeavesError

\* A callback refuses its call: the Python code below it goes on with an error.
LEMMA RefuseStep ==
  ASSUME ErrorsInv, CallbackRefuse, UNCHANGED <<prog, open>>
  PROVE  ErrorsInv'
<1>1. /\ Top.kind = "callback" /\ fly = "none" /\ fly' = "none" /\ ind' = "Error"
      /\ cut' = cut /\ cut \in BOOLEAN /\ PopTo("failing")
  BY PcTellsKind DEF CallbackRefuse, Running, Leave, ErrorsInv, Typed
<1>2. /\ depth \in Nat /\ MaxDepth \in Nat /\ depth <= MaxDepth /\ depth > 0
      /\ frame \in [0..MaxDepth -> Frame] /\ StackTyped
      /\ frame[depth - 1] \in Frame /\ FrameOK(frame[depth - 1])
      /\ frame[depth - 1].pc = "python"
  BY <1>1, StackFacts DEF ErrorsInv, OnTop
<1>3. frame[depth - 1].kind \in CKind
  <2>1. frame[depth - 1].kind # "idle"
    BY <1>2 DEF StackTyped
  <2> QED BY <1>2, <2>1 DEF FrameOK, Frame, RubyKind
<1>4. depth - 1 \in 1..depth /\ depth - 1 \in 0..depth /\ depth - 1 # depth
  BY <1>2, <1>3 DEF ErrorsInv, Shape, CKind
<1> DEFINE fr == [frame[depth - 1] EXCEPT !.pc = "failing"]
<1>5. fr \in Frame /\ fr.kind = frame[depth - 1].kind /\ fr.pc = "failing" /\ FrameOK(fr)
  BY <1>2, <1>3 DEF Frame, FrameOK, CKind, InC
<1>6. depth' = depth - 1 /\ frame' = [frame EXCEPT ![depth] = IdleFrame, ![depth - 1] = fr]
  BY <1>1, <1>2, <1>4 DEF PopTo
<1> HIDE DEF fr
<1>7. /\ frame' \in [0..MaxDepth -> Frame] /\ frame'[depth - 1] = fr
      /\ frame'[depth].kind = "idle"
      /\ \A d \in 0..MaxDepth : d # depth /\ d # depth - 1 => frame'[d] = frame[d]
  BY <1>2, <1>4, <1>5, <1>6 DEF IdleFrame, Frame, Flight
<1>8. /\ \A d \in 0..MaxDepth : d < depth - 1 => frame'[d] = frame[d]
      /\ \A d \in 0..MaxDepth : d > depth - 1 => frame'[d].kind = "idle"
  BY <1>2, <1>7 DEF StackTyped
<1>9. StackTyped' /\ Shape' /\ Top' = fr
  BY <1>4, <1>5, <1>6, <1>7, <1>8, ChangeShape DEF ErrorsInv
<1>10. Typed'
  BY <1>1, <1>9 DEF Typed, StackTyped, ErrorsInv, PyExc, Flight
<1>11. Pending'
  BY <1>1, <1>5, <1>9 DEF Pending, IndicatorClear, Running
<1>12. StopOnlyEndsLoops'
  BY <1>1 DEF StopOnlyEndsLoops
<1>13. NameRestored'
  <2> SUFFICES ASSUME Protected, cut
               PROVE  \E d \in 1..depth - 1 : frame'[d].kind = "setter"
    BY <1>1, <1>6 DEF NameRestored, Protected, Careful
  <2>1. PICK d \in 1..depth : frame[d].kind = "setter"
    BY DEF ErrorsInv, NameRestored, Protected
  <2>2. d # depth /\ d \in 0..MaxDepth
    BY <1>1, <1>2, <2>1 DEF Top
  <2>3. frame'[d].kind = "setter"
    BY <1>5, <1>7, <2>1, <2>2
  <2> QED BY <1>2, <2>1, <2>2, <2>3
<1>14. Contexts'
  <2>1. open' \subseteq 0..MaxDepth
    BY DEF ErrorsInv, Contexts
  <2>2. ASSUME "throw" \notin prog, NEW d \in open
        PROVE  d <= depth - 1 /\ frame'[d].kind = "with" /\ frame'[d].pc # "exit"
    <3>1. d <= depth /\ frame[d].kind = "with" /\ frame[d].pc # "exit" /\ d \in 0..MaxDepth
      BY <2>2 DEF ErrorsInv, Contexts, ContextsClosed, AtExit
    <3>2. d # depth /\ d # depth - 1
      BY <1>1, <1>3, <3>1 DEF Top, CKind
    <3> QED BY <1>2, <1>7, <3>1, <3>2
  <2>3. ASSUME NEW d \in 0..depth - 1, frame'[d].kind = "with"
        PROVE  d < MaxDepth /\ (frame'[d].pc = "ruby" => d \in open)
    <3>1. d # depth - 1 /\ d # depth /\ d \in 0..depth /\ d \in 0..MaxDepth
      BY <1>2, <1>3, <1>5, <1>7, <2>3 DEF CKind
    <3> QED BY <1>7, <2>3, <3>1 DEF ErrorsInv, Contexts
  <2> QED BY <1>6, <2>1, <2>2, <2>3 DEF Contexts, ContextsClosed, AtExit
<1> QED BY <1>9, <1>10, <1>11, <1>12, <1>13, <1>14 DEF ErrorsInv

\* The frame of a callback, of other Ruby code or of a loop goes on.
LEMMA RubyGoesOn ==
  ASSUME ErrorsInv, UNCHANGED <<prog, open, cut>>, Top.kind \in {"callback", "loop"},
         NEW at \in {"ruby", "result"}, Goto(at), at = "result" => Top.kind = "callback",
         ind' \in PyExc \cup {"none"}, fly' = "none",
         Careful => ind' = "none", NoStop => ind' # "StopIteration"
  PROVE  ErrorsInv'
<1> DEFINE fr == [Top EXCEPT !.pc = at]
<1>1. fr \in Frame /\ fr.kind = Top.kind /\ fr.pc = at /\ fr.err = Top.err
  BY GoesOn
<1>2. FrameOK(Top) /\ Top.kind \notin {"main", "with"}
  BY StackFacts DEF ErrorsInv
<1> HIDE DEF fr
<1>3. FrameOK(fr)
  BY <1>1, <1>2 DEF FrameOK, CKind
<1>4. LeftTyped' /\ (fly' = "throw" => "throw" \in prog) /\ (NoStop => fly' # "StopIteration")
  BY DEF LeftTyped, Flight, ErrorsInv, Typed
<1> QED BY <1>1, <1>2, <1>3, <1>4, AfterGoto DEF fr

LEMMA PythonStepKeeps ==
  ASSUME ErrorsInv, PythonStep, UNCHANGED <<prog, open>>
  PROVE  ErrorsInv'
<1>1. ASSUME NEW e \in CanRaise, PyRaise(e)
      PROVE  ErrorsInv'
  <2>1. Top.kind \in CKind /\ UNCHANGED cut /\ Goto("raised") /\ ind' = e /\ fly' = "none"
    BY <1>1, PcTellsKind DEF PyRaise, InPython, InC, Leave
  <2>2. e \in PyExc /\ (NoStop => e # "StopIteration")
    BY <1>1 DEF CanRaise, PyExc, NoStop
  <2> QED BY <2>1, <2>2, CGoesOn DEF InC, PyExc
<1>2. CASE PyReturn
  <2>1. /\ Top.kind \in CKind /\ UNCHANGED <<ind, cut>> /\ Goto("returned") /\ fly' = "none"
        /\ Top.pc = "python"
    BY <1>2, PcTellsKind DEF PyReturn, InPython, Running, InC
  <2> QED BY <2>1, QuietTop, CGoesOn DEF InC
<1>3. CASE PyHandle
  <2>1. /\ UNCHANGED <<cut, depth, frame>> /\ ind' = "none" /\ fly' = "none"
        /\ Top.pc = "python"
    BY <1>3 DEF PyHandle, Leave, InPython, stack
  <2>2. LeftTyped'
    BY <2>1 DEF LeftTyped, Flight, ErrorsInv, Typed
  <2> QED BY <2>1, <2>2, AfterSame
<1>4. CASE PyFail
  <2>1. /\ Top.kind \in CKind /\ UNCHANGED cut /\ fly = "none" /\ ind # "none"
        /\ ind \in PyExc \cup {"none"} /\ (NoStop => ind # "StopIteration")
    BY <1>4, PcTellsKind
       DEF PyFail, Running, InC, ErrorsInv, Typed, Pending, StopOnlyEndsLoops, NoStop
  <2>2. CASE Goto("raised") /\ UNCHANGED <<ind, fly>>
    BY <2>1, <2>2, CGoesOn DEF InC
  <2>3. CASE Goto("python") /\ Leave("none", "none")
    BY <2>1, <2>3, CGoesOn DEF InC, Leave
  <2> QED BY <1>4, <2>2, <2>3 DEF PyFail
<1>5. ASSUME NEW k \in {"callback", "slot"}, NEW at \in {"args", "ruby"}, CallbackEnter(k, at),
             k = "callback" <=> at = "args"
      PROVE  ErrorsInv'
  <2>1. /\ Push(k, at) /\ UNCHANGED <<ind, cut>> /\ fly' = "none" /\ Top.pc = "python" /\ k \in prog
    BY <1>5 DEF CallbackEnter, InPython, Running
  <2>2. FrameOK(NewFrame(k, at)) /\ OnTop(NewFrame(k, at), Top)
    BY <1>5, <2>1 DEF FrameOK, OnTop, NewFrame, CKind, Waiting
  <2>3. LeftTyped'
    BY <2>1, QuietTop DEF LeftTyped, Flight
  <2> QED BY <2>1, <2>2, <2>3, QuietTop, AfterPush
<1>6. CASE CallbackRefuse
  BY <1>6, RefuseStep
<1>7. CASE CallbackArgs
  <2>1. Top.kind = "callback" /\ UNCHANGED cut /\ cut \in BOOLEAN /\ Top.pc = "args" /\ LeftByC
    BY <1>7, PcTellsKind, ConvertLeaves DEF CallbackArgs, ErrorsInv, Typed
  <2>2. CASE fly' = "none"
    <3>1. Goto("ruby")
      BY <1>7, <2>2 DEF CallbackArgs
    <3> QED BY <2>1, <2>2, <3>1, RubyGoesOn DEF LeftByC
  <2>3. CASE fly' # "none"
    <3>1. UNCHANGED <<depth, frame>> /\ ~Careful /\ ~Protected
      BY <1>7, <2>1, <2>3, ConvertQuiet DEF CallbackArgs, stack, Protected
    <3>2. fly' \in {"none", "RubyError", ind} /\ ind \in PyExc \cup {"none"}
          /\ (NoStop => ind # "StopIteration")
      BY <2>1, QuietTop DEF LeftByC
    <3>3. LeftTyped' /\ fly' # "throw" /\ (NoStop => fly' # "StopIteration")
      BY <2>1, <3>2 DEF LeftByC, LeftTyped, Flight, PyExc
    <3> QED BY <2>1, <3>1, <3>3, AfterSame DEF LeftByC
  <2> QED BY <2>2, <2>3
<1>8. CASE CallbackDone
  <2>1. /\ Top.kind = "callback" /\ Goto("result") /\ UNCHANGED <<ind, fly, cut>>
        /\ Top.pc = "ruby" /\ fly = "none"
    BY <1>8 DEF CallbackDone, InRuby, Running, In
  <2> QED BY <2>1, QuietTop, RubyGoesOn
<1>9. CASE CallbackConvertHash
  <2>1. /\ Top.pc = "result" /\ "hash_result" \in prog /\ Push("todict", "python")
        /\ UNCHANGED <<ind, fly, cut>> /\ fly = "none" /\ Top.pc \notin Waiting
    BY <1>9 DEF CallbackConvertHash, Running, Waiting
  <2> QED BY <2>1, QuietTop, CallsPython DEF CKind
<1>10. CASE CallbackSwallow
  <2>1. /\ Top.kind = "callback" /\ Pop /\ UNCHANGED <<ind, cut>> /\ fly' = "none"
        /\ Top.pc = "ruby"
    BY <1>10 DEF CallbackSwallow, Leave, In
  <2>2. LeftTyped'
    BY <2>1, QuietTop DEF LeftTyped, Flight
  <2> QED BY <2>1, <2>2, QuietTop, AfterPop
<1>11. CASE CallbackReturn
  <2>1. /\ Top.kind \in {"callback", "slot"} /\ Pop /\ UNCHANGED <<ind, cut>> /\ fly' = "none"
        /\ Top.pc \in {"ruby", "result"}
    BY <1>11 DEF CallbackReturn, Running, In
  <2>2. LeftTyped'
    BY <2>1, QuietTop DEF LeftTyped, Flight
  <2> QED BY <2>1, <2>2, QuietTop, AfterPop
<1>12. CASE CallbackEnter("callback", "args") \/ CallbackEnter("slot", "ruby")
  BY <1>5, <1>12
<1> QED BY <1>1, <1>2, <1>3, <1>4, <1>6, <1>7, <1>8, <1>9, <1>10, <1>11, <1>12 DEF PythonStep

-----------------------------------------------------------------------------
(* Ruby.                                                                   *)

LEMMA RubyStepKeeps ==
  ASSUME ErrorsInv, RubyStep, UNCHANGED <<prog, open>>
  PROVE  ErrorsInv'
<1>1. CASE RubyRaise \/ RubyThrow \/ RubyRescue
  <2>1. /\ UNCHANGED <<ind, cut, depth, frame>> /\ Top.pc = "ruby"
        /\ fly' \in {"none", "RubyError", "throw"} /\ (fly' = "throw" => "throw" \in prog)
    BY <1>1 DEF RubyRaise, RubyThrow, RubyRescue, InRuby, stack
  <2>2. LeftTyped'
    BY <2>1, QuietTop DEF LeftTyped, Flight
  <2> QED BY <2>1, <2>2, QuietTop, AfterSame
<1>2. CASE Unwind
  <2>1. /\ Pop /\ UNCHANGED <<ind, fly, cut>> /\ fly # "none"
        /\ \/ Top.kind \in CKind \cup {"slot"}
           \/ Top.kind = "callback" /\ Top.pc \in {"args", "result"}
    BY <1>2 DEF Unwind, In
  <2>2. /\ Top.kind # "main" /\ Top.kind # "with" /\ Top.kind # "loop" /\ FrameOK(Top)
        /\ OnTop(Top, frame[depth - 1]) /\ Top.pc \notin {"raised", "failing"}
    BY <2>1, StackFacts DEF ErrorsInv, Pending, Running, CKind
  <2>3. LeftTyped' /\ (Careful => ind' = "none")
    BY <2>1, <2>2, QuietTop DEF LeftTyped, ErrorsInv, Typed
  <2>4. Protected => Top.kind = "each" /\ Top.pc = "ruby"
    <3> SUFFICES ASSUME Protected
                 PROVE  Top.kind = "each" /\ Top.pc = "ruby"
      OBVIOUS
    <3>1. Top.pc \in {"ruby"} \cup Waiting /\ Top.kind # "slot"
      BY <2>1, <2>2 DEF ErrorsInv, Pending, FrameOK, Protected, Unprotected
    <3> QED BY <2>1, <2>2, <3>1 DEF FrameOK, InC, Waiting
  <2>5. Protected /\ fly' # "none" => frame[depth - 1].pc \in {"ruby"} \cup Waiting
    BY <2>2, <2>4 DEF OnTop, CKind, Protected, Unprotected
  <2>6. fly' = "throw" => "throw" \in prog
    BY <2>1 DEF ErrorsInv, Pending
  <2>7. NoStop => ind' # "StopIteration" /\ (fly' = "StopIteration" => NextOf(depth - 1))
    BY <2>1, <2>2, QuietTop DEF ErrorsInv, StopOnlyEndsLoops, NoStop
  <2>8. cut' => cut /\ (Top.kind = "setter" => ~Protected)
    BY <2>1, <2>4
  <2> QED BY <2>1, <2>2, <2>3, <2>5, <2>6, <2>7, <2>8, AfterPop
<1> QED BY <1>1, <1>2 DEF RubyStep

-----------------------------------------------------------------------------
(* The methods of PyProtocols.                                             *)

\* A method starts: its frame and the one of its first call.
LEMMA BeginStep ==
  ASSUME ErrorsInv, UNCHANGED prog,
         NEW k \in {"with", "loop"}, NEW at \in {"enter", "iter"},
         at = "enter" <=> k = "with", Begin(k, at)
  PROVE  ErrorsInv'
<1> DEFINE fr == NewFrame(k, at)
           call == NewFrame("call", "python")
<1>1. /\ depth \in Nat /\ MaxDepth \in Nat /\ depth + 2 <= MaxDepth
      /\ frame \in [0..MaxDepth -> Frame] /\ StackTyped
      /\ fly = "none" /\ Top.pc = "ruby" /\ UNCHANGED <<ind, fly, cut, open>>
      /\ depth' = depth + 2 /\ depth + 1 \in 0..MaxDepth /\ depth + 2 \in 0..MaxDepth
      /\ frame' = [frame EXCEPT ![depth + 1] = fr, ![depth + 2] = call]
  BY StackFacts DEF Begin, InRuby, Running, ErrorsInv
<1>2. /\ fr \in Frame /\ fr.kind = k /\ fr.pc = at /\ fr.err = "none"
      /\ call \in Frame /\ call.kind = "call" /\ call.pc = "python" /\ call.err = "none"
  BY NewFrameType DEF NewFrame, CKind, RubyKind
<1> HIDE DEF fr, call
<1>3. FrameOK(fr) /\ FrameOK(call) /\ OnTop(fr, Top) /\ OnTop(call, fr)
  BY <1>1, <1>2 DEF FrameOK, OnTop, CKind, InC, Waiting
<1>4. /\ frame' \in [0..MaxDepth -> Frame]
      /\ frame'[depth + 1] = fr /\ frame'[depth + 2] = call
      /\ \A d \in 0..MaxDepth : d # depth + 1 /\ d # depth + 2 => frame'[d] = frame[d]
  BY <1>1, <1>2
<1>5. /\ \A d \in 0..MaxDepth : d < depth + 1 => frame'[d] = frame[d]
      /\ \A d \in 0..MaxDepth : d > depth + 2 => frame'[d].kind = "idle"
  BY <1>1, <1>4 DEF StackTyped
<1>6. ASSUME NEW d \in depth + 1..depth + 2
      PROVE  /\ frame'[d].kind # "idle" /\ FrameOK(frame'[d])
             /\ OnTop(frame'[d], frame'[d - 1])
  <2>1. CASE d = depth + 1
    <3>1. d - 1 = depth /\ frame'[d - 1] = Top
      BY <1>1, <1>5, <2>1 DEF Top
    <3> QED BY <1>2, <1>3, <1>4, <2>1, <3>1
  <2>2. CASE d = depth + 2
    <3>1. d - 1 = depth + 1
      BY <1>1, <2>2
    <3> QED BY <1>2, <1>3, <1>4, <2>2, <3>1
  <2> QED BY <1>1, <2>1, <2>2
<1>7. StackTyped' /\ Shape'
  <2>1. /\ depth + 1 \in Nat /\ depth + 1 # 0
        /\ depth + 1 <= depth + 1 /\ depth + 1 <= depth + 2 + 1
    BY <1>1
  <2> QED BY <1>1, <1>4, <1>5, <1>6, <2>1, ShapeAfter DEF ErrorsInv
<1>8. Top' = call /\ \A d \in 0..depth : frame'[d] = frame[d]
  BY <1>1, <1>4 DEF Top
<1>9. Typed'
  BY <1>1, <1>7 DEF Typed, StackTyped, ErrorsInv
<1>10. Pending' /\ StopOnlyEndsLoops'
  BY <1>1, <1>2, <1>8, QuietTop
     DEF Pending, IndicatorClear, Running, StopOnlyEndsLoops, Careful, NoStop
<1>11. NameRestored'
  <2> SUFFICES ASSUME Protected, cut
               PROVE  \E d \in 1..depth + 2 : frame'[d].kind = "setter"
    BY <1>1 DEF NameRestored, Protected, Careful
  <2>1. PICK d \in 1..depth : frame[d].kind = "setter"
    BY DEF ErrorsInv, NameRestored, Protected
  <2> QED BY <1>1, <1>8, <2>1
<1>12. Contexts'
  <2>1. open' \subseteq 0..MaxDepth
    BY <1>1 DEF ErrorsInv, Contexts
  <2>2. ASSUME "throw" \notin prog, NEW d \in open
        PROVE  d <= depth + 2 /\ frame'[d].kind = "with" /\ frame'[d].pc # "exit"
    <3>1. d <= depth /\ frame[d].kind = "with" /\ frame[d].pc # "exit" /\ d \in 0..MaxDepth
      BY <2>2 DEF ErrorsInv, Contexts, ContextsClosed, AtExit
    <3> QED BY <1>1, <1>8, <3>1
  <2>3. ASSUME NEW d \in 0..depth + 2, frame'[d].kind = "with"
        PROVE  d < MaxDepth /\ (frame'[d].pc = "ruby" => d \in open)
    <3>1. CASE d \in 0..depth
      BY <1>8, <2>3, <3>1 DEF ErrorsInv, Contexts
    <3>2. CASE d = depth + 1
      BY <1>1, <1>2, <1>4, <3>2
    <3>3. d # depth + 2
      BY <1>2, <1>4, <2>3
    <3> QED BY <1>1, <3>1, <3>2, <3>3
  <2> QED BY <1>1, <2>1, <2>2, <2>3 DEF Contexts, ContextsClosed, AtExit
<1> QED BY <1>7, <1>9, <1>10, <1>11, <1>12 DEF ErrorsInv

\* A method calls Python again; a `with' does so to exit its context.
LEMMA AwaitStep ==
  ASSUME ErrorsInv, UNCHANGED <<prog, ind, cut>>, fly' = "none",
         Top.kind \in {"with", "loop"}, depth < MaxDepth, NEW fr \in Frame,
         fr.kind = Top.kind, fr.pc \in {"exit", "next"}, FrameOK(fr),
         depth' = depth + 1,
         frame' = [frame EXCEPT ![depth] = fr, ![depth + 1] = NewFrame("call", "python")],
         open' = IF Top.kind = "with" THEN open \ {depth} ELSE open
  PROVE  ErrorsInv'
<1> DEFINE call == NewFrame("call", "python")
<1>1. /\ depth \in 1..depth /\ depth \in Nat /\ MaxDepth \in Nat /\ depth - 1 \in 0..depth
      /\ frame \in [0..MaxDepth -> Frame] /\ StackTyped /\ FrameOK(Top)
      /\ OnTop(Top, frame[depth - 1]) /\ depth + 1 \in 0..MaxDepth /\ depth \in 0..MaxDepth
  BY StackFacts DEF ErrorsInv
<1>2. /\ call \in Frame /\ call.kind = "call" /\ call.pc = "python" /\ call.err = "none"
      /\ frame' = [frame EXCEPT ![depth] = fr, ![depth + 1] = call]
  BY NewFrameType DEF NewFrame, CKind
<1> HIDE DEF call
<1>3. FrameOK(call) /\ OnTop(call, fr) /\ OnTop(fr, frame[depth - 1]) /\ fr.kind # "idle"
  BY <1>1, <1>2 DEF FrameOK, OnTop, CKind, InC, Waiting
<1>4. /\ frame' \in [0..MaxDepth -> Frame]
      /\ frame'[depth] = fr /\ frame'[depth + 1] = call
      /\ \A d \in 0..MaxDepth : d # depth /\ d # depth + 1 => frame'[d] = frame[d]
  BY <1>1, <1>2
<1>5. /\ \A d \in 0..MaxDepth : d < depth => frame'[d] = frame[d]
      /\ \A d \in 0..MaxDepth : d > depth + 1 => frame'[d].kind = "idle"
  BY <1>1, <1>4 DEF StackTyped
<1>6. ASSUME NEW d \in depth..depth + 1
      PROVE  /\ frame'[d].kind # "idle" /\ FrameOK(frame'[d])
             /\ OnTop(frame'[d], frame'[d - 1])
  <2>1. CASE d = depth
    <3>1. frame'[d - 1] = frame[depth - 1]
      BY <1>1, <1>5, <2>1
    <3> QED BY <1>3, <1>4, <2>1, <3>1
  <2>2. CASE d = depth + 1
    <3>1. d - 1 = depth
      BY <1>1, <2>2
    <3> QED BY <1>2, <1>3, <1>4, <2>2, <3>1
  <2> QED BY <1>1, <2>1, <2>2
<1>7. StackTyped' /\ Shape'
  <2>1. depth # 0 /\ depth <= depth + 1 /\ depth <= depth + 1 + 1
    BY <1>1
  <2> QED BY <1>1, <1>4, <1>5, <1>6, <2>1, ShapeAfter DEF ErrorsInv
<1>8. Top' = call /\ Top.pc \notin {"raised", "failing"}
  BY <1>1, <1>4 DEF Top, FrameOK
<1>9. Typed'
  BY <1>7 DEF Typed, StackTyped, ErrorsInv, Flight
<1>10. Pending' /\ StopOnlyEndsLoops'
  BY <1>2, <1>8, QuietTop
     DEF Pending, IndicatorClear, Running, StopOnlyEndsLoops, Careful, NoStop
<1>11. NameRestored'
  <2> SUFFICES ASSUME Protected, cut
               PROVE  \E d \in 1..depth + 1 : frame'[d].kind = "setter"
    BY DEF NameRestored, Protected, Careful
  <2>1. PICK d \in 1..depth : frame[d].kind = "setter"
    BY DEF ErrorsInv, NameRestored, Protected
  <2>2. d # depth
    BY <2>1 DEF Top
  <2> QED BY <1>1, <1>5, <2>1, <2>2
<1>12. Contexts'
  <2>1. open' \subseteq open /\ open' \subseteq 0..MaxDepth
    BY DEF ErrorsInv, Contexts
  <2>2. ASSUME "throw" \notin prog, NEW d \in open'
        PROVE  d <= depth + 1 /\ frame'[d].kind = "with" /\ frame'[d].pc # "exit"
    <3>1. d <= depth /\ frame[d].kind = "with" /\ frame[d].pc # "exit" /\ d \in 0..MaxDepth
      BY <2>1, <2>2 DEF ErrorsInv, Contexts, ContextsClosed, AtExit
    <3>2. d # depth
      BY <2>2, <3>1 DEF Top
    <3> QED BY <1>1, <1>5, <3>1, <3>2
  <2>3. ASSUME NEW d \in 0..depth + 1, frame'[d].kind = "with"
        PROVE  d < MaxDepth /\ (frame'[d].pc = "ruby" => d \in open')
    <3>1. d # depth + 1
      BY <1>2, <1>4, <2>3
    <3>2. CASE d = depth
      BY <1>4, <3>2
    <3>3. CASE d # depth
      <4>1. d \in 0..depth /\ frame'[d] = frame[d]
        BY <1>1, <1>5, <3>1, <3>3
      <4> QED BY <2>3, <3>3, <4>1 DEF ErrorsInv, Contexts
    <3> QED BY <3>2, <3>3
  <2> QED BY <2>1, <2>2, <2>3 DEF Contexts, ContextsClosed, AtExit
<1> QED BY <1>7, <1>9, <1>10, <1>11, <1>12 DEF ErrorsInv

\* The block of a `with' starts, with the context open.
LEMMA YieldStep ==
  ASSUME ErrorsInv, WithYield, UNCHANGED prog
  PROVE  ErrorsInv'
<1> DEFINE fr == [Top EXCEPT !.pc = "ruby"]
<1>1. /\ Top.kind = "with" /\ Top.pc = "enter" /\ fly = "none" /\ Goto("ruby")
      /\ UNCHANGED <<ind, fly, cut>> /\ open' = open \cup {depth}
  BY DEF WithYield, Got, Running, In
<1>2. fr \in Frame /\ fr.kind = "with" /\ fr.pc = "ruby" /\ fr.err = Top.err /\ FrameOK(Top)
  BY <1>1, GoesOn, StackFacts DEF ErrorsInv
<1> HIDE DEF fr
<1>3. FrameOK(fr)
  BY <1>1, <1>2 DEF FrameOK, CKind
<1>4. /\ StackTyped' /\ Shape' /\ depth' = depth /\ Top' = fr
      /\ \A d \in 0..depth : d # depth => frame'[d] = frame[d]
  BY <1>1, <1>2, <1>3, GotoShape DEF fr, ErrorsInv
<1>5. /\ depth \in Nat /\ depth \in 0..MaxDepth /\ depth \in 0..depth
      /\ frame'[depth] = fr /\ frame[depth] = Top
  BY <1>4, StackFacts DEF ErrorsInv, Top
<1>6. Typed'
  BY <1>1, <1>4 DEF Typed, StackTyped, ErrorsInv
<1>7. Pending' /\ StopOnlyEndsLoops'
  BY <1>1, <1>2, <1>4, QuietTop
     DEF Pending, IndicatorClear, Running, StopOnlyEndsLoops, Careful, NoStop
<1>8. NameRestored'
  <2> SUFFICES ASSUME Protected, cut
               PROVE  \E d \in 1..depth : frame'[d].kind = "setter"
    BY <1>1, <1>4 DEF NameRestored, Protected, Careful
  <2>1. PICK d \in 1..depth : frame[d].kind = "setter"
    BY DEF ErrorsInv, NameRestored, Protected
  <2>2. d # depth /\ d \in 0..depth
    BY <1>1, <1>5, <2>1
  <2> QED BY <1>4, <2>1, <2>2
<1>9. Contexts'
  <2>1. open' \subseteq 0..MaxDepth
    BY <1>1, <1>5 DEF ErrorsInv, Contexts
  <2>2. ASSUME "throw" \notin prog, NEW d \in open'
        PROVE  d <= depth /\ frame'[d].kind = "with" /\ frame'[d].pc # "exit"
    <3>1. CASE d = depth
      BY <1>2, <1>5, <3>1
    <3>2. CASE d # depth
      <4>1. d <= depth /\ frame[d].kind = "with" /\ frame[d].pc # "exit" /\ d \in 0..MaxDepth
        BY <1>1, <2>2, <3>2 DEF ErrorsInv, Contexts, ContextsClosed, AtExit
      <4> QED BY <1>4, <1>5, <3>2, <4>1
    <3> QED BY <3>1, <3>2
  <2>3. ASSUME NEW d \in 0..depth, frame'[d].kind = "with"
        PROVE  d < MaxDepth /\ (frame'[d].pc = "ruby" => d \in open')
    <3>1. CASE d = depth
      BY <1>1, <1>5, <3>1 DEF ErrorsInv, Contexts
    <3>2. CASE d # depth
      BY <1>1, <1>4, <2>3, <3>2 DEF ErrorsInv, Contexts
    <3> QED BY <3>1, <3>2
  <2> QED BY <1>4, <2>1, <2>2, <2>3 DEF Contexts, ContextsClosed, AtExit
<1> QED BY <1>4, <1>6, <1>7, <1>8, <1>9 DEF ErrorsInv

\* A method of this module ends, with or without an exception.
LEMMA MethodReturns ==
  ASSUME ErrorsInv, UNCHANGED <<prog, ind, cut, open>>, Top.kind \in {"with", "loop"}, Pop,
         fly' \in Flight, fly' = "throw" => "throw" \in prog,
         NoStop => fly' # "StopIteration",
         "throw" \notin prog /\ Top.kind = "with" => Top.pc = "exit"
  PROVE  ErrorsInv'
<1>1. FrameOK(Top) /\ OnTop(Top, frame[depth - 1]) /\ Top.kind # "main"
  BY StackFacts DEF ErrorsInv
<1>2. Top.pc \notin {"raised", "failing"}
  BY <1>1 DEF FrameOK
<1>3. LeftTyped'
  BY <1>2, QuietTop DEF LeftTyped
<1>4. frame[depth - 1].pc \in {"ruby"} \cup Waiting
  BY <1>1 DEF OnTop
<1> QED BY <1>1, <1>2, <1>3, <1>4, QuietTop, AfterPop

LEMMA ProtocolStepKeeps ==
  ASSUME ErrorsInv, ProtocolStep, UNCHANGED prog
  PROVE  ErrorsInv'
<1>0. /\ Top \in Frame /\ FrameOK(Top) /\ depth \in Nat /\ MaxDepth \in Nat /\ fly \in Flight
      /\ depth \in 0..depth /\ frame \in [0..MaxDepth -> Frame] /\ depth \in 0..MaxDepth
  BY StackFacts DEF ErrorsInv, Typed
<1>1. CASE WithEnter \/ LoopIter
  BY <1>1, BeginStep DEF WithEnter, LoopIter
<1>2. CASE WithYield
  BY <1>2, YieldStep
<1>3. CASE WithElse
  <2> DEFINE fr == [Top EXCEPT !.pc = "exit"]
  <2>1. /\ Top.kind = "with" /\ UNCHANGED <<ind, cut>> /\ fly' = "none" /\ depth < MaxDepth
        /\ depth' = depth + 1 /\ open' = open \ {depth}
        /\ frame' = [frame EXCEPT ![depth] = fr, ![depth + 1] = NewFrame("call", "python")]
    BY <1>0, <1>3 DEF WithElse, InRuby, Running, In, Await, Top
  <2>2. fr \in Frame /\ fr.kind = "with" /\ fr.pc = "exit" /\ fr.err = Top.err
    BY <2>1, GoesOn
  <2> HIDE DEF fr
  <2>3. FrameOK(fr)
    BY <1>0, <2>1, <2>2 DEF FrameOK, CKind
  <2> QED BY <2>1, <2>2, <2>3, AwaitStep
<1>4. CASE WithRescue
  <2> DEFINE fr == [Top EXCEPT !.pc = "exit", !.err = fly]
  <2>1. /\ Top.kind = "with" /\ UNCHANGED <<ind, cut>> /\ fly' = "none"
        /\ depth' = depth + 1 /\ open' = open \ {depth}
        /\ frame' = [frame EXCEPT ![depth] = fr, ![depth + 1] = NewFrame("call", "python")]
        /\ fly # "throw"
    BY <1>0, <1>4 DEF WithRescue, In, AwaitWith, Top
  <2>2. fr \in Frame /\ fr.kind = "with" /\ fr.pc = "exit" /\ fr.err = fly
    BY <1>0, <2>1 DEF Frame
  <2> HIDE DEF fr
  <2>3. fly = "StopIteration" => prog \cap {"stop", "interrupt"} # {}
    BY <2>1 DEF ErrorsInv, StopOnlyEndsLoops
  <2>4. FrameOK(fr) /\ depth < MaxDepth
    BY <1>0, <2>1, <2>2, <2>3 DEF FrameOK, CKind, ErrorsInv, Contexts, Top
  <2> QED BY <2>1, <2>2, <2>4, AwaitStep
<1>5. CASE WithEnd
  <2>1. /\ Top.kind = "with" /\ Top.pc = "exit" /\ Pop /\ UNCHANGED <<ind, cut, open>>
        /\ fly' \in {"none", Top.err}
    BY <1>5 DEF WithEnd, Got, In
  <2>2. fly' \in Flight /\ (fly' = "throw" => "throw" \in prog) /\ (NoStop => fly' # "StopIteration")
    BY <1>0, <2>1 DEF Frame, FrameOK, Flight, NoStop
  <2> QED BY <2>1, <2>2, MethodReturns
<1>6. CASE WithLeave
  <2>1. /\ Top.kind = "with" /\ Pop /\ UNCHANGED <<ind, fly, cut, open>>
        /\ fly = "throw" \/ Top.pc = "exit"
    BY <1>6 DEF WithLeave, In
  <2>2. (fly = "throw" => "throw" \in prog) /\ (NoStop => fly # "StopIteration")
    BY <2>1 DEF ErrorsInv, Pending, StopOnlyEndsLoops, NoStop
  <2> QED BY <1>0, <2>1, <2>2, MethodReturns
<1>7. CASE LoopNext
  <2> DEFINE fr == [Top EXCEPT !.pc = "next"]
  <2>1. /\ Top.kind = "loop" /\ UNCHANGED <<ind, cut, open>> /\ fly' = "none" /\ depth < MaxDepth
        /\ depth' = depth + 1
        /\ frame' = [frame EXCEPT ![depth] = fr, ![depth + 1] = NewFrame("call", "python")]
    BY <1>0, <1>7 DEF LoopNext, Got, Running, In, Await, Top
  <2>2. fr \in Frame /\ fr.kind = "loop" /\ fr.pc = "next" /\ fr.err = Top.err
    BY <2>1, GoesOn
  <2> HIDE DEF fr
  <2>3. FrameOK(fr)
    BY <1>0, <2>1, <2>2 DEF FrameOK, CKind
  <2> QED BY <2>1, <2>2, <2>3, AwaitStep
<1>8. CASE LoopYield
  <2>1. /\ Top.kind = "loop" /\ Top.pc = "next" /\ fly = "none" /\ Goto("ruby")
        /\ UNCHANGED <<ind, fly, cut, open>>
    BY <1>8 DEF LoopYield, Got, Running, In
  <2> QED BY <2>1, QuietTop, RubyGoesOn
<1>9. CASE LoopRescue
  <2>1. /\ Top.kind = "loop" /\ Pop /\ UNCHANGED <<ind, cut, open>>
        /\ fly' \in {"none", "Error"}
    BY <1>9 DEF LoopRescue, In, PyExc
  <2> QED BY <2>1, MethodReturns DEF Flight, PyExc
<1>10. CASE LoopLeave
  <2>1. /\ Top.kind = "loop" /\ Pop /\ UNCHANGED <<ind, fly, cut, open>>
        /\ fly \in {"RubyError", "throw"} \/ Top.pc = "iter"
    BY <1>10 DEF LoopLeave, In
  <2>2. (fly = "throw" => "throw" \in prog) /\ (NoStop => fly # "StopIteration")
    BY <2>1 DEF ErrorsInv, Pending, StopOnlyEndsLoops, NoStop
  <2> QED BY <1>0, <2>1, <2>2, MethodReturns
<1>11. CASE Exhausted
  <2>1. /\ depth > 0 /\ NextOf(depth - 1) /\ UNCHANGED <<cut, open>> /\ Goto("raised")
        /\ ind' = "StopIteration" /\ fly' = "none" /\ Top.kind \in CKind
    BY <1>0, <1>11, PcTellsKind DEF Exhausted, PyRaise, InPython, NextOf, Leave, InC
  <2>2. Top.kind = "call"
    <3>1. Top.kind # "main"
      BY <2>1 DEF CKind
    <3> QED BY <2>1, <3>1, StackFacts DEF ErrorsInv, OnTop, NextOf, Waiting
  <2> QED BY <2>1, <2>2, CGoesOn DEF InC, PyExc
<1> QED BY <1>1, <1>2, <1>3, <1>4, <1>5, <1>6, <1>7, <1>8, <1>9, <1>10, <1>11 DEF ProtocolStep

-----------------------------------------------------------------------------
(* The theorems.                                                           *)

LEMMA ErrorsInit == InitP => ErrorsInv
<1> SUFFICES ASSUME InitP
             PROVE  ErrorsInv
  OBVIOUS
<1>1. /\ prog \in Programs /\ ind = "none" /\ fly = "none" /\ cut = FALSE /\ depth = 0 /\ open = {}
      /\ frame = [d \in 0..MaxDepth |-> IF d = 0 THEN NewFrame("main", "ruby") ELSE IdleFrame]
  BY DEF InitP, Init
<1>2. MaxDepth \in Nat /\ 0 \in 0..MaxDepth
  BY ErrorsAssumption
<1>3. /\ NewFrame("main", "ruby") \in Frame /\ IdleFrame \in Frame
      /\ NewFrame("main", "ruby").kind = "main" /\ NewFrame("main", "ruby").pc = "ruby"
      /\ NewFrame("main", "ruby").err = "none" /\ IdleFrame.kind = "idle"
  BY NewFrameType DEF NewFrame, IdleFrame, Frame, Flight, RubyKind
<1>4. /\ frame \in [0..MaxDepth -> Frame] /\ frame[0] = NewFrame("main", "ruby")
      /\ \A d \in 0..MaxDepth : d # 0 => frame[d] = IdleFrame
  BY <1>1, <1>2, <1>3
<1>5. Typed
  <2>1. \A d \in 0..MaxDepth : frame[d].kind = "idle" <=> d > depth
    BY <1>1, <1>2, <1>3, <1>4
  <2> QED BY <1>1, <1>2, <1>4, <2>1 DEF Typed, Flight
<1>6. Shape
  BY <1>1, <1>3, <1>4 DEF Shape, FrameOK, CKind
<1>7. Pending /\ StopOnlyEndsLoops /\ NameRestored
  BY <1>1, <1>3, <1>4 DEF Pending, IndicatorClear, Running, Top, StopOnlyEndsLoops, NameRestored
<1>8. Contexts
  BY <1>1, <1>3, <1>4 DEF Contexts, ContextsClosed
<1> QED BY <1>5, <1>6, <1>7, <1>8 DEF ErrorsInv

LEMMA ErrorsNext == ErrorsInv /\ [NextP]_varsP => ErrorsInv'
<1> SUFFICES ASSUME ErrorsInv, [NextP]_varsP
             PROVE  ErrorsInv'
  OBVIOUS
<1>1. CASE CStep /\ UNCHANGED <<prog, open>>
  BY <1>1, CReturnStep, CEnterStep DEF CStep, CReturn, CEnter, EnterK
<1>2. CASE PythonStep /\ UNCHANGED <<prog, open>>
  BY <1>2, PythonStepKeeps
<1>3. CASE RubyStep /\ UNCHANGED <<prog, open>>
  BY <1>3, RubyStepKeeps
<1>4. CASE ProtocolStep /\ UNCHANGED prog
  BY <1>4, ProtocolStepKeeps
<1>5. CASE UNCHANGED varsP
  <2>1. Top' = Top /\ UNCHANGED <<prog, ind, fly, cut, depth, frame, open>>
    BY <1>5 DEF varsP, vars, Top
  <2> QED BY <2>1 DEF ErrorsInv, Typed, Shape, FrameOK, OnTop, Pending, IndicatorClear, Running,
                      Protected, Careful, StopOnlyEndsLoops, NameRestored, Contexts,
                      ContextsClosed, AtExit
<1> QED BY <1>1, <1>2, <1>3, <1>4, <1>5 DEF NextP, Next

\* The inductive invariant: types, the shape of the stack, and what can be
\* pending, flying, cut or open given that shape.
THEOREM ErrorsInvariance == SpecP => []ErrorsInv
BY ErrorsInit, ErrorsNext, PTL DEF SpecP

\* The types, the bound on the stack and the idle frames above it; and no
\* function fails without an exception.
THEOREM ErrorsTyped == SpecP => []TypeOK
<1>1. ErrorsInv => TypeOK
  BY DEF ErrorsInv, Pending, TypeOK, Top
<1> QED BY <1>1, ErrorsInvariance, PTL

\* In a program without the features that leave an error behind, an error is
\* pending only while Python or the function it returned to deals with it.
THEOREM NoStaleErrors == SpecP => []IndicatorClear
<1>1. ErrorsInv => IndicatorClear
  BY DEF ErrorsInv, Pending
<1> QED BY <1>1, ErrorsInvariance, PTL

\* The name of a setter has its '=' again when no setter runs.
THEOREM SetterNamesRestored == SpecP => []NameRestored
<1>1. ErrorsInv => NameRestored
  BY DEF ErrorsInv
<1> QED BY <1>1, ErrorsInvariance, PTL

\* Without break and throw, every context that was entered is exited before
\* its `with' is left.
THEOREM ContextsAreClosed == SpecP => []ContextsClosed
<1>1. ErrorsInv => ContextsClosed
  BY DEF ErrorsInv, Contexts
<1> QED BY <1>1, ErrorsInvariance, PTL

-----------------------------------------------------------------------------
(* What a step may not do.                                                 *)

\* The steps that take frames off the stack.
LEMMA Pops ==
  ASSUME ErrorsInv, NextP, depth' < depth
  PROVE  CReturn \/ EachYield \/ CallbackRefuse \/ CallbackSwallow \/ CallbackReturn
           \/ Unwind \/ WithEnd \/ WithLeave \/ LoopRescue \/ LoopLeave
<1>1. depth \in Nat
  BY StackFacts DEF ErrorsInv
<1>2. ASSUME NEW k, NEW at, Push(k, at)
      PROVE  FALSE
  BY <1>1, <1>2 DEF Push
<1>3. ASSUME UNCHANGED stack
      PROVE  FALSE
  BY <1>1, <1>3 DEF stack
<1>4. ASSUME NEW at, Goto(at) \/ Await(at)
      PROVE  FALSE
  BY <1>1, <1>4 DEF Goto, Await
<1>5. ASSUME CStep
      PROVE  CReturn \/ EachYield
  BY <1>2, <1>3, <1>4, <1>5
     DEF CStep, CReturn, Enter, BadText, CallKwargs, EachNext, SetterEnter
<1>6. ASSUME PythonStep
      PROVE  CallbackRefuse \/ CallbackSwallow \/ CallbackReturn
  <2>1. ~(\E e \in CanRaise : PyRaise(e)) /\ ~PyReturn /\ ~PyHandle /\ ~PyFail
    BY <1>3, <1>4 DEF PyRaise, PyReturn, PyHandle, PyFail
  <2>2. /\ ~CallbackEnter("callback", "args") /\ ~CallbackEnter("slot", "ruby")
        /\ ~CallbackArgs /\ ~CallbackDone /\ ~CallbackConvertHash
    BY <1>2, <1>3, <1>4 DEF CallbackEnter, CallbackArgs, CallbackDone, CallbackConvertHash
  <2> QED BY <1>6, <2>1, <2>2 DEF PythonStep
<1>7. ASSUME RubyStep
      PROVE  Unwind
  BY <1>3, <1>7 DEF RubyStep, RubyRaise, RubyThrow, RubyRescue
<1>8. ASSUME ProtocolStep
      PROVE  WithEnd \/ WithLeave \/ LoopRescue \/ LoopLeave
  <2>1. ~WithEnter /\ ~LoopIter
    BY <1>1 DEF WithEnter, LoopIter, Begin
  <2>2. ~WithYield /\ ~WithElse /\ ~LoopNext /\ ~LoopYield /\ ~Exhausted
    BY <1>4 DEF WithYield, WithElse, LoopNext, LoopYield, Exhausted, PyRaise
  <2>3. ~WithRescue
    BY <1>1 DEF WithRescue, AwaitWith
  <2> QED BY <1>8, <2>1, <2>2, <2>3 DEF ProtocolStep
<1> QED BY <1>5, <1>6, <1>7, <1>8 DEF NextP, Next

\* The steps that put one frame on the stack.
LEMMA Pushes ==
  ASSUME ErrorsInv, NextP, depth' = depth + 1
  PROVE  \/ Top.pc \in {"ruby", "python", "result"} /\ frame'[depth] = Top
         \/ WithElse \/ WithRescue \/ LoopNext
<1>1. /\ depth \in Nat /\ depth \in 0..MaxDepth /\ depth # depth + 1
      /\ frame \in [0..MaxDepth -> Frame]
  BY StackFacts DEF ErrorsInv
<1>2. ASSUME NEW k, NEW at, Push(k, at)
      PROVE  frame'[depth] = Top
  BY <1>1, <1>2 DEF Push, Top
<1>3. ASSUME UNCHANGED stack
      PROVE  FALSE
  BY <1>1, <1>3 DEF stack
<1>4. /\ ~Pop
      /\ \A at : ~Goto(at) /\ ~PopTo(at)
  <2>1. depth' # depth - 1 /\ depth' # depth
    BY <1>1
  <2> QED BY <2>1 DEF Pop, Goto, PopTo
<1>5. ASSUME CStep
      PROVE  Top.pc = "ruby" /\ frame'[depth] = Top
  <2>1. ~CReturn /\ ~EachYield /\ ~EachNext
    BY <1>4 DEF CReturn, GetattrReturn, CheckedReturn, ProbeReturn, KindOfReturn, BlindReturn,
                CallReturn, CallInterrupted, DictFromRubyReturn, EachEnd, SetterReturn,
                EachYield, EachNext
  <2>2. CASE \E k \in EnterK : Enter(k)
    BY <1>2, <2>2 DEF Enter, InRuby
  <2>3. CASE BadText \/ CallKwargs \/ SetterEnter
    BY <1>2, <1>3, <2>3 DEF BadText, CallKwargs, SetterEnter, InRuby
  <2> QED BY <1>5, <2>1, <2>2, <2>3 DEF CStep, CReturn, EnterK
<1>6. ASSUME PythonStep
      PROVE  Top.pc \in {"python", "result"} /\ frame'[depth] = Top
  <2>1. ~(\E e \in CanRaise : PyRaise(e)) /\ ~PyReturn /\ ~PyHandle /\ ~PyFail
    BY <1>3, <1>4 DEF PyRaise, PyReturn, PyHandle, PyFail
  <2>2. /\ ~CallbackRefuse /\ ~CallbackArgs /\ ~CallbackDone
        /\ ~CallbackSwallow /\ ~CallbackReturn
    BY <1>3, <1>4 DEF CallbackRefuse, CallbackArgs, CallbackDone, CallbackSwallow, CallbackReturn
  <2>3. CASE CallbackEnter("callback", "args") \/ CallbackEnter("slot", "ruby")
    BY <1>2, <2>3 DEF CallbackEnter, InPython
  <2>4. CASE CallbackConvertHash
    BY <1>2, <2>4 DEF CallbackConvertHash
  <2> QED BY <1>6, <2>1, <2>2, <2>3, <2>4 DEF PythonStep
<1>7. ASSUME RubyStep
      PROVE  FALSE
  BY <1>3, <1>4, <1>7 DEF RubyStep, RubyRaise, RubyThrow, RubyRescue, Unwind
<1>8. ASSUME ProtocolStep
      PROVE  WithElse \/ WithRescue \/ LoopNext
  <2>1. ~WithEnter /\ ~LoopIter
    BY <1>1 DEF WithEnter, LoopIter, Begin
  <2>2. ~WithYield /\ ~LoopYield /\ ~Exhausted
    BY <1>4 DEF WithYield, LoopYield, Exhausted, PyRaise
  <2>3. ~WithEnd /\ ~WithLeave /\ ~LoopRescue /\ ~LoopLeave
    BY <1>4 DEF WithEnd, WithLeave, LoopRescue, LoopLeave
  <2> QED BY <1>8, <2>1, <2>2, <2>3 DEF ProtocolStep
<1> QED BY <1>5, <1>6, <1>7, <1>8 DEF NextP, Next

\* A function that saw Python fail returns with an exception, unless failing
\* is one of its answers.
THEOREM NoErrorLost == SpecP => ErrorsReported
<1> DEFINE Step == (Failed /\ Running /\ depth' < depth /\ fly' = "none")
                     => Top.kind \in {"getattr", "probe", "blind"}
<1>1. ErrorsInv /\ [NextP]_varsP => [Step]_vars
  <2> SUFFICES ASSUME ErrorsInv, [NextP]_varsP
               PROVE  [Step]_vars
    OBVIOUS
  <2>1. CASE UNCHANGED varsP
    BY <2>1 DEF varsP
  <2>2. CASE NextP
    <3> SUFFICES ASSUME Top.pc = "raised", fly = "none", depth' < depth, fly' = "none"
                 PROVE  Top.kind \in {"getattr", "probe", "blind"}
      BY DEF Failed, Running
    <3>1. ind # "none" /\ Top.kind \in CKind
      BY PcTellsKind DEF ErrorsInv, Pending, InC
    <3>2. ~FetchAndRaise
      BY FetchLeaves
    <3>3. CASE CReturn
      BY <3>1, <3>2, <3>3
         DEF CReturn, GetattrReturn, CheckedReturn, ProbeReturn, KindOfReturn, BlindReturn,
             CallReturn, CallInterrupted, DictFromRubyReturn, EachEnd, SetterReturn,
             Back, In, Failed, Leave
    <3>4. CASE EachYield \/ CallbackRefuse \/ CallbackSwallow \/ CallbackReturn \/ Unwind
      BY <3>1, <3>4
         DEF EachYield, CallbackRefuse, CallbackSwallow, CallbackReturn, Unwind, Failed, In, CKind
    <3>5. CASE WithEnd \/ WithLeave \/ LoopRescue \/ LoopLeave
      BY <3>1, <3>5 DEF WithEnd, WithLeave, LoopRescue, LoopLeave, Got, In, CKind
    <3> QED BY <2>2, <3>3, <3>4, <3>5, Pops
  <2> QED BY <2>1, <2>2
<1> QED BY <1>1, ErrorsInvariance, PTL DEF SpecP, ErrorsReported

\* Python code that calls Ruby is resumed, whatever the callback does, unless
\* a slot or the result of a callback raises.
THEOREM PythonIsResumed == SpecP => PythonResumed
<1> DEFINE Step == (Careful /\ prog \cap Unprotected = {} /\ Top.pc = "python") => depth' >= depth
<1>1. ErrorsInv /\ [NextP]_varsP => [Step]_vars
  <2> SUFFICES ASSUME ErrorsInv, [NextP]_varsP
               PROVE  [Step]_vars
    OBVIOUS
  <2>1. CASE UNCHANGED varsP
    BY <2>1 DEF varsP
  <2>2. CASE NextP
    <3> SUFFICES ASSUME Protected, Top.pc = "python"
                 PROVE  ~(depth' < depth)
      <4>1. depth \in Nat /\ depth' \in Nat
        <5>1. Typed'
          BY <2>2, ErrorsNext DEF ErrorsInv
        <5> QED BY <5>1, ErrorsAssumption DEF ErrorsInv, Typed
      <4> QED BY <4>1 DEF Protected
    <3> SUFFICES ASSUME depth' < depth
                 PROVE  FALSE
      OBVIOUS
    <3>1. fly = "none" /\ Top.kind \in CKind
      BY PcTellsKind DEF ErrorsInv, Pending, InC, Waiting
    <3>2. CASE CReturn
      BY <3>1, <3>2
         DEF CReturn, GetattrReturn, CheckedReturn, ProbeReturn, KindOfReturn, BlindReturn,
             CallReturn, CallInterrupted, DictFromRubyReturn, EachEnd, SetterReturn, Back
    <3>3. CASE EachYield \/ CallbackRefuse \/ CallbackSwallow \/ CallbackReturn \/ Unwind
      BY <3>1, <3>3
         DEF EachYield, CallbackRefuse, CallbackSwallow, CallbackReturn, Unwind, Back
    <3>4. CASE WithEnd \/ WithLeave \/ LoopRescue \/ LoopLeave
      BY <3>1, <3>4 DEF WithEnd, WithLeave, LoopRescue, LoopLeave, Got, In, CKind
    <3> QED BY <2>2, <3>2, <3>3, <3>4, Pops
  <2> QED BY <2>1, <2>2
<1> QED BY <1>1, ErrorsInvariance, PTL DEF SpecP, PythonResumed

\* __exit__ is called on an entered context, or after __enter__ failed.
THEOREM ExitsArePaired == SpecP => ExitPaired
<1> DEFINE Step == \A d \in 1..MaxDepth :
                     (depth = d /\ depth' = d + 1 /\ AtExit(d)') => (d \in open \/ Top.pc = "enter")
<1>1. ErrorsInv /\ [NextP]_varsP => [Step]_varsP
  <2> SUFFICES ASSUME ErrorsInv, [NextP]_varsP
               PROVE  [Step]_varsP
    OBVIOUS
  <2>1. CASE UNCHANGED varsP
    BY <2>1
  <2>2. CASE NextP
    <3> SUFFICES ASSUME depth' = depth + 1, frame'[depth].kind = "with", frame'[depth].pc = "exit"
                 PROVE  depth \in open \/ Top.pc = "enter"
      BY DEF AtExit
    <3>1. /\ depth \in 0..depth /\ FrameOK(Top) /\ depth \in 0..MaxDepth /\ depth # depth + 1
          /\ frame \in [0..MaxDepth -> Frame]
      BY StackFacts DEF ErrorsInv
    <3>2. ~(Top.pc \in {"ruby", "python", "result"} /\ frame'[depth] = Top)
      OBVIOUS
    <3>3. CASE WithElse \/ WithRescue
      <4>1. Top.kind = "with" /\ Top.pc \in {"enter", "ruby"}
        BY <3>3 DEF WithElse, WithRescue, InRuby, In
      <4> QED BY <3>1, <4>1 DEF ErrorsInv, Contexts, Top
    <3>4. CASE LoopNext
      <4>1. frame'[depth] = [Top EXCEPT !.pc = "next"]
        BY <3>1, <3>4 DEF LoopNext, Await, Top
      <4> QED BY <4>1, GoesOn
    <3> QED BY <2>2, <3>2, <3>3, <3>4, Pushes
  <2> QED BY <2>1, <2>2
<1> QED BY <1>1, ErrorsInvariance, PTL DEF SpecP, ExitPaired

\* A loop ends as if it were complete only when __next__ said so.
THEOREM LoopsRun == SpecP => LoopsRunToTheEnd
<1> DEFINE Step == ("stop" \notin prog /\ "interrupt" \notin prog /\ In("loop")
                     /\ depth' < depth /\ fly' = "none") => Top.pc = "next"
<1>1. ErrorsInv /\ [NextP]_varsP => [Step]_varsP
  <2> SUFFICES ASSUME ErrorsInv, [NextP]_varsP
               PROVE  [Step]_varsP
    OBVIOUS
  <2>1. CASE UNCHANGED varsP
    BY <2>1
  <2>2. CASE NextP
    <3> SUFFICES ASSUME NoStop, Top.kind = "loop", depth' < depth, fly' = "none"
                 PROVE  Top.pc = "next"
      BY DEF NoStop, In
    <3>1. FrameOK(Top)
      BY StackFacts DEF ErrorsInv
    <3>2. CASE CReturn
      BY <3>2
         DEF CReturn, GetattrReturn, CheckedReturn, ProbeReturn, KindOfReturn, BlindReturn,
             CallReturn, CallInterrupted, DictFromRubyReturn, EachEnd, SetterReturn, Back, In
    <3>3. CASE EachYield \/ CallbackRefuse \/ CallbackSwallow \/ CallbackReturn \/ Unwind
      BY <3>1, <3>3
         DEF EachYield, CallbackRefuse, CallbackSwallow, CallbackReturn, Unwind, Back, In,
             FrameOK, CKind
    <3>4. CASE LoopRescue
      BY <3>4 DEF LoopRescue, PyExc, ErrorsInv, StopOnlyEndsLoops, NoStop
    <3>5. CASE WithEnd \/ WithLeave \/ LoopLeave
      BY <3>5 DEF WithEnd, WithLeave, LoopLeave, Got, In
    <3> QED BY <2>2, <3>2, <3>3, <3>4, <3>5, Pops
  <2> QED BY <2>1, <2>2
<1> QED BY <1>1, ErrorsInvariance, PTL DEF SpecP, LoopsRunToTheEnd

=============================================================================
