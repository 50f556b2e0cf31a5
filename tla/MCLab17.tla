------------------------------- MODULE MCLab17 -------------------------------
(* Lab17HexViewer for TLC: the header, footer and least height of the program,
   lines of four bytes, and a file of ten rows of which reading may give any part. *)
EXTENDS Lab17HexViewer
=============================================================================
