------------------------------- MODULE MCLab20 -------------------------------
(* Lab20Devices for TLC: two interchangeable paths, and texts that hold the quit
   character or a zero byte, are as long as the block, or are longer. *)
EXTENDS Lab20Devices, TLC

MCInputs == {<<"q", "a">>, <<"a", "0">>, <<"b", "a", "b">>, <<"b", "a", "b", "a">>}

PathSymmetry == Permutations(Paths)
=============================================================================
