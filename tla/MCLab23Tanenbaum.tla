-------------------------- MODULE MCLab23Tanenbaum --------------------------
(* Lab23Tanenbaum for TLC, with the five philosophers of the program. *)
EXTENDS Lab23Tanenbaum
=============================================================================
