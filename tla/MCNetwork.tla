-------------------------------- MODULE MCNetwork -------------------------------
(***************************************************************************)
(* Instances of Network for TLC.                                            *)
(***************************************************************************)
EXTENDS Network, TLC

CONSTANT c1   \* a call, as a model value
=================================================================================
