--------------------------- MODULE MCPyRefsBorrow ---------------------------
(* PyRefsBorrow for TLC. PtrNew names the PyPtr it reads from and the one  *)
(* it makes, both bound by \E: the sets stay symmetric.                    *)
EXTENDS PyRefsBorrow, MCPrograms, TLC

\* A program that uses whatever releases what it takes, when Python raises
\* too, finalizers included; dict_each is left out, since a finalizer may take
\* its borrowed value.
BalancedOps == AllOps \ (Leaky \cup {"dict_each"})

Symmetric == Permutations(Ptr) \cup Permutations(Cell)
                \cup Permutations(Obj \ ByValue)

=============================================================================
