---------------------------- MODULE MCLab23Nurse ----------------------------
(* Lab23Nurse for TLC.  Philosophers are positions of a circle and ids that main
   hands out, so there is no symmetry to use. *)
EXTENDS Lab23Nurse
=============================================================================
