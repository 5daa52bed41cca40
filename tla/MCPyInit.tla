------------------------------ MODULE MCPyInit ------------------------------
(* PyInit for TLC: machines with and without a Python and a libpython.     *)
EXTENDS PyInit

Machine(pythons, linked, directories) ==
  [pythons |-> pythons, linked |-> linked, directories |-> directories, conda |-> FALSE]

Environments ==
  { Machine(<<"raises", "empty">>, "none", <<>>),
    Machine(<<"raises", "config">>, "none", <<"absent", "broken">>),
    Machine(<<"config">>, "none", <<"absent", "library">>),
    Machine(<<"config">>, "foreign", <<"library">>),
    [Machine(<<"config">>, "library", <<>>) EXCEPT !.conda = TRUE] }

=============================================================================
