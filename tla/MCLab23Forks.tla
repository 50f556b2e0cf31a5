---------------------------- MODULE MCLab23Forks ----------------------------
(* LockOrder for TLC, with the five philosophers of both Lab_23 programs. *)
EXTENDS LockOrder
=============================================================================
