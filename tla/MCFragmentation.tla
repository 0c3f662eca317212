--------------------------- MODULE MCFragmentation ---------------------------
(* Fragmentation with fields of two to four bits, and options on both      *)
(* sides of every limit.                                                   *)
EXTENDS Fragmentation

MCLengths         == 1..9
MCFragSizes       == 0..5
MCRedundancies    == 0..1
MCMulticastGroups == {0, 2, 4}
=============================================================================
