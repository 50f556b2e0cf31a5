------------------------------- MODULE FileLabs -------------------------------
(***************************************************************************)
(* Labs 13 to 16, one of them run again and again on its own files.        *)
(***************************************************************************)
EXTENDS Lab13Sequential, Lab14RandomAccess, Lab15Fixture, Lab16Inodes

vars == <<runVars, vars13, vars14, vars15, vars16>>

Init == RunInit /\ Init13 /\ Init14 /\ Init15 /\ Init16

Program13 == (Start13 \/ Step13) /\ UNCHANGED <<vars14, vars15, vars16>>
Program14 == (Start14 \/ Step14) /\ UNCHANGED <<vars13, vars15, vars16>>
Program15 == (Start15 \/ Remove \/ Step15) /\ UNCHANGED <<vars13, vars14, vars16>>
Program16 == (Start16 \/ Step16) /\ UNCHANGED <<vars13, vars14, vars15>>

Killed == Kill /\ UNCHANGED <<vars13, vars14, vars15, vars16>>

\* The last run is over.
Rest == ~Running /\ runs = MaxRuns /\ UNCHANGED vars

Next == Program13 \/ Program14 \/ Program15 \/ Program16 \/ Killed \/ Rest

\* A program that runs goes on.
Spec ==
    /\ Init /\ [][Next]_vars
    /\ WF_vars(Running /\ (Program13 \/ Program14 \/ Program15 \/ Program16))
=============================================================================
