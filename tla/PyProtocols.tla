---------------------------- MODULE PyProtocols ----------------------------
(***************************************************************************)
(* The Ruby methods that speak a Python protocol, on top of PyErrors:      *)
(* PyCall.with, which enters and exits a context manager, and the each of  *)
(* PyCall.iterable, which calls __next__ until StopIteration. Each calls   *)
(* Python through a "call" frame above its own, and its rescue clauses see *)
(* what that call, or the block, lets fly.                                 *)
(***************************************************************************)
EXTENDS PyErrors

VARIABLE open   \* the depths whose `with' has a context that is entered

varsP == <<vars, open>>

InitP == Init /\ open = {}

\* The top frame calls Python and waits at `at' for the call to end.
Await(at) ==
  /\ depth < MaxDepth
  /\ depth' = depth + 1
  /\ frame' = [frame EXCEPT ![depth].pc = at, ![depth + 1] = NewFrame("call", "python")]

\* The same from a rescue clause, which keeps its exception.
AwaitWith(at, e) ==
  /\ depth' = depth + 1
  /\ frame' = [frame EXCEPT ![depth].pc = at, ![depth].err = e,
                            ![depth + 1] = NewFrame("call", "python")]

\* A method of this module starts with a call. Room is kept for its calls.
Begin(k, at) ==
  /\ InRuby /\ k \in prog
  /\ depth + 2 <= MaxDepth
  /\ depth' = depth + 2
  /\ frame' = [frame EXCEPT ![depth + 1] = NewFrame(k, at),
                            ![depth + 2] = NewFrame("call", "python")]
  /\ UNCHANGED <<ind, fly, cut, open>>

\* The call that the top frame, of kind k, awaited at `at' has returned.
Got(k, at) == Running /\ In(k) /\ Top.pc = at

-----------------------------------------------------------------------------
(* PyCall.with(ctx) { ... }                                                *)

WithEnter == Begin("with", "enter")

\* The value of __enter__ is yielded.
WithYield ==
  /\ Got("with", "enter")
  /\ Goto("ruby")
  /\ open' = open \cup {depth}
  /\ UNCHANGED <<ind, fly, cut>>

\* else: the block has ended, ctx.__exit__(nil, nil, nil).
WithElse ==
  /\ InRuby /\ In("with")
  /\ Await("exit")
  /\ open' = open \ {depth}
  /\ UNCHANGED <<ind, fly, cut>>

\* Mutant: rescue clauses around everything, the else clause too.
WithRescueAll ==
  /\ In("with") /\ fly \in Flight \ {"none", "throw"}
  /\ AwaitWith("exit", fly)
  /\ fly' = "none"
  /\ open' = open \ {depth}
  /\ UNCHANGED <<ind, cut>>

\* Mutant: only the exceptions of Python are told to the context.
WithRescuePyError ==
  /\ In("with") /\ Top.pc \in {"enter", "ruby"}
  /\ \/ /\ fly \in PyExc
        /\ AwaitWith("exit", fly)
        /\ fly' = "none" /\ open' = open \ {depth}
     \/ /\ fly = "RubyError"
        /\ Pop /\ UNCHANGED <<fly, open>>
  /\ UNCHANGED <<ind, cut>>

\* rescue PyError and rescue Exception: ctx.__exit__ is told the exception,
\* also that of __enter__.
WithRescue ==
  /\ In("with") /\ Top.pc \in {"enter", "ruby"}
  /\ fly \in Flight \ {"none", "throw"}
  /\ AwaitWith("exit", fly)
  /\ fly' = "none"
  /\ open' = open \ {depth}
  /\ UNCHANGED <<ind, cut>>

\* __exit__ has returned: the exception, if there was one, is raised again
\* unless the result is true.
WithEnd ==
  /\ Got("with", "exit")
  /\ fly' \in {"none", Top.err}
  /\ Pop /\ UNCHANGED <<ind, cut, open>>

\* No ensure clause: a break or a throw, and an exception of __exit__, go on.
WithLeave ==
  /\ In("with")
  /\ fly = "throw" \/ (fly # "none" /\ Top.pc = "exit")
  /\ Pop /\ UNCHANGED <<ind, fly, cut, open>>

-----------------------------------------------------------------------------
(* PyCall.iterable(obj).each { ... }                                       *)

LoopIter == Begin("loop", "iter")

\* __iter__ has returned, or the block has ended: the next __next__.
LoopNext ==
  /\ Got("loop", "iter") \/ Got("loop", "ruby")
  /\ Await("next") /\ UNCHANGED <<ind, fly, cut, open>>

LoopYield ==
  /\ Got("loop", "next")
  /\ Goto("ruby") /\ UNCHANGED <<ind, fly, cut, open>>

\* Mutant: any Python exception ends the loop.
LoopRescueAll ==
  /\ In("loop") /\ Top.pc \in {"next", "ruby"}
  /\ fly \in PyExc
  /\ Pop /\ fly' = "none"
  /\ UNCHANGED <<ind, cut, open>>

\* The rescue clause is around __next__ and the block: StopIteration ends the
\* loop, any other PyError is raised again. (Comparing the types calls Python
\* once more, for its own types without effect.)
LoopRescue ==
  /\ In("loop") /\ Top.pc \in {"next", "ruby"}
  /\ fly \in PyExc
  /\ Pop /\ fly' = IF fly = "StopIteration" THEN "none" ELSE fly
  /\ UNCHANGED <<ind, cut, open>>

LoopLeave ==
  /\ In("loop")
  /\ fly \in {"RubyError", "throw"} \/ (fly # "none" /\ Top.pc = "iter")
  /\ Pop /\ UNCHANGED <<ind, fly, cut, open>>

\* The __next__ of an iterator that has no more items.
Exhausted ==
  /\ depth > 0 /\ frame[depth - 1].kind = "loop" /\ frame[depth - 1].pc = "next"
  /\ PyRaise("StopIteration") /\ UNCHANGED open

-----------------------------------------------------------------------------
ProtocolStep ==
  \/ WithEnter \/ WithYield \/ WithElse \/ WithRescue \/ WithEnd \/ WithLeave
  \/ LoopIter \/ LoopNext \/ LoopYield \/ LoopRescue \/ LoopLeave \/ Exhausted

NextP == (Next /\ UNCHANGED open) \/ (ProtocolStep /\ UNCHANGED prog)

SpecP == InitP /\ [][NextP]_varsP

-----------------------------------------------------------------------------
(* Properties.                                                             *)

AtExit(d) == frame[d].kind = "with" /\ frame[d].pc = "exit"

\* Every context that was entered is exited before its `with' is left, by
\* the end of the block or by an exception; only break and throw skip it.
ContextsClosed ==
  "throw" \notin prog =>
    \A d \in open : d <= depth /\ frame[d].kind = "with" /\ ~AtExit(d)

\* __exit__ is called on an entered context, so never twice for one entry;
\* only a `with' whose __enter__ failed exits what it did not enter.
ExitPaired ==
  [][\A d \in 1..MaxDepth :
       (depth = d /\ depth' = d + 1 /\ AtExit(d)') => (d \in open \/ Top.pc = "enter")]_varsP

\* A loop ends as if it were complete only when __next__ said so: nothing
\* raised in its block, and no error left over from before, cuts it short.
LoopsRunToTheEnd ==
  [][("stop" \notin prog /\ "interrupt" \notin prog /\ In("loop")
       /\ depth' < depth /\ fly' = "none") => Top.pc = "next"]_varsP

=============================================================================
