---------------------------- MODULE MCProduction ----------------------------
(* Small instances of Production for TLC. *)
EXTENDS Production

CONSTANTS o1, l1, l2, w1, w2    \* model values
=============================================================================
