----------------------------- MODULE IdentityMap -----------------------------
(***************************************************************************)
(* What the wrapper caches promise: a Python object has at most one Ruby   *)
(* wrapper at a time, everyone who asks for the object is given that one,  *)
(* and it is forgotten only when nobody has it. No addresses, no order of  *)
(* look-up and store: asking and being answered is all there is.           *)
(***************************************************************************)
CONSTANTS Object, Wrapper, Thread, NULL

VARIABLES
  wrapperOf,   \* the wrapper of each object that has one
  asked,       \* the object each thread waits for the wrapper of
  answer       \* the wrapper it has been given

idVars == <<wrapperOf, asked, answer>>

Init ==
  /\ wrapperOf = [o \in Object |-> NULL]
  /\ asked  = [t \in Thread |-> NULL]
  /\ answer = [t \in Thread |-> NULL]

Ask(t, o) ==
  /\ asked[t] = NULL
  /\ asked' = [asked EXCEPT ![t] = o]
  /\ UNCHANGED <<wrapperOf, answer>>

AnswerKnown(t) ==
  /\ asked[t] # NULL /\ answer[t] = NULL
  /\ wrapperOf[asked[t]] # NULL
  /\ answer' = [answer EXCEPT ![t] = wrapperOf[asked[t]]]
  /\ UNCHANGED <<wrapperOf, asked>>

\* The new wrapper is nobody else's.
AnswerNew(t, w) ==
  /\ asked[t] # NULL /\ answer[t] = NULL
  /\ wrapperOf[asked[t]] = NULL
  /\ \A o \in Object : wrapperOf[o] # w
  /\ wrapperOf' = [wrapperOf EXCEPT ![asked[t]] = w]
  /\ answer' = [answer EXCEPT ![t] = w]
  /\ UNCHANGED asked

Take(t) ==
  /\ answer[t] # NULL
  /\ asked' = [asked EXCEPT ![t] = NULL]
  /\ answer' = [answer EXCEPT ![t] = NULL]
  /\ UNCHANGED wrapperOf

Forget(o) ==
  /\ wrapperOf[o] # NULL
  /\ \A t \in Thread : answer[t] # wrapperOf[o]
  /\ wrapperOf' = [wrapperOf EXCEPT ![o] = NULL]
  /\ UNCHANGED <<asked, answer>>

Next ==
  \/ \E t \in Thread, o \in Object : Ask(t, o)
  \/ \E t \in Thread : AnswerKnown(t) \/ Take(t)
  \/ \E t \in Thread, w \in Wrapper : AnswerNew(t, w)
  \/ \E o \in Object : Forget(o)

=============================================================================
