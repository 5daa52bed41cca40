--------------------------- MODULE MCPyProtocols ---------------------------
(* PyProtocols for TLC: the programs considered.                           *)
EXTENDS PyProtocols

AllFeatures == CKind \cup RubyKind \cup LeavesError \cup Unprotected
                 \cup {"stop", "throw"}

\* One that stays inside rb_protect and leaves no error, the same with all
\* that unwinds Python, one that neither throws nor is interrupted, and one
\* with every feature.
Considered == {AllFeatures \ (LeavesError \cup Unprotected \cup {"stop", "throw"}),
               AllFeatures \ LeavesError,
               AllFeatures \ {"stop", "throw", "interrupt"},
               AllFeatures}

=============================================================================
