------------------------------- MODULE MCLab10 -------------------------------
(* Lab10Semaphore for TLC.  Thread ids are positions of the creation loop, so
   there is no symmetry to use; two permits let two releases overlap. *)
EXTENDS Lab10Semaphore
=============================================================================
