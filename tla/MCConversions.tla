---------------------------- MODULE MCConversions ----------------------------
(* Conversions and Values for TLC: longs of four bits, and integers up to   *)
(* one more on either side.                                                 *)
EXTENDS Values

Numbers == MinLong - 1..MaxLong + 1

=============================================================================
