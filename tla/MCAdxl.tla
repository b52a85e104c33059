-------------------------------- MODULE MCAdxl --------------------------------
(***************************************************************************)
(* Adxl with three users who are alike.                                      *)
(***************************************************************************)
EXTENDS Adxl, TLC

Alike == Permutations(Users)
=============================================================================
