------------------------------ MODULE MCPyRefs ------------------------------
(* PyRefs for TLC: the programs of the runs, and symmetry: no definition   *)
(* PyRefs or PyHeap names a member of the sets.                            *)
EXTENDS PyRefs, MCPrograms, TLC

\* A program that reads attributes of wrapped objects, and does nothing else.
ReadAttribute == {"wrapper_get"}

Symmetric == Permutations(Ptr) \cup Permutations(Cell)
                \cup Permutations(Obj \ ByValue)

=============================================================================
