--------------------------- MODULE MCWrapperCache ---------------------------
(* WrapperCache for TLC: a type, a subclass and a subclass of both.        *)
EXTENDS WrapperCache, TLC

CONSTANTS base, sub, leaf

Superclasses == (base :> {}) @@ (sub :> {base}) @@ (leaf :> {base, sub})

Considered == {{}, {"threads"}, {"decref"}}

Symmetric == Permutations(Wrapper) \cup Permutations(Thread)

=============================================================================
