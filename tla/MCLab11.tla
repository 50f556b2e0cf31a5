------------------------------- MODULE MCLab11 -------------------------------
(* Lab11BoundedBuffer for TLC: the BUFFER_SIZE of lab11.cpp and enough items to
   take both indices round the ring more than twice. *)
EXTENDS Lab11BoundedBuffer
=============================================================================
