------------------------------ MODULE MCMapReduce -------------------------------
(***************************************************************************)
(* Instances of MapReduce for TLC.                                          *)
(***************************************************************************)
EXTENDS MapReduce, TLC

CONSTANTS w1, w2   \* workers, as model values
=================================================================================
