------------------------------ MODULE MCHotKey ------------------------------
(* The threshold 6 lies between two multiples of the stride 4, as 100 does *)
(* between two multiples of 64.                                            *)
EXTENDS HotKey
=============================================================================
