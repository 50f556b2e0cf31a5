------------------------------ MODULE FileRuns ------------------------------
(***************************************************************************)
(* What the file programs, Labs 13 to 16, have in common: a program is run *)
(* again and again on the files its earlier runs left.  In a healthy run   *)
(* every operation succeeds; in another any may fail.  A run may be killed *)
(* between any two steps, and what its streams had buffered is lost.  A    *)
(* file that is written and closed, or flushed, in a run that is not       *)
(* healthy may end up with part of the data.                               *)
(***************************************************************************)
EXTENDS Integers, Sequences

CONSTANTS
    Missing,      \* no such file
    TornLengths,  \* lengths a write may be cut to
    MaxRuns,      \* bound on the runs of the program
    FaultyRuns    \* how many of them, the first ones, need not be healthy

ASSUME FileRunsAssumption == TornLengths \subseteq Nat /\ MaxRuns \in Nat /\ FaultyRuns \in Nat

VARIABLES
    program,  \* the number of the lab that is run
    runs,     \* how often it has been started
    pc,       \* where the run is; "ended" when main has returned
    n,        \* its loop variable
    healthy   \* is it a run in which nothing fails?

runVars == <<program, runs, pc, n, healthy>>

RunInit ==
    /\ program \in 13 .. 16
    /\ runs = 0
    /\ pc = "idle"
    /\ n = 0
    /\ healthy = TRUE

Running == pc \notin {"idle", "ended", "killed"}

Ended(lab) == program = lab /\ pc = "ended"

\* A new run begins at first.
Start(lab, first) ==
    /\ program = lab
    /\ ~Running
    /\ runs < MaxRuns
    /\ runs' = runs + 1
    /\ pc' = first
    /\ n' = 1
    /\ healthy' \in IF runs < FaultyRuns THEN BOOLEAN ELSE {TRUE}
    /\ UNCHANGED program

Kill ==
    /\ Running
    /\ pc' = "killed"
    /\ UNCHANGED <<program, runs, n, healthy>>

\* A step of the run: it goes on at place with n = i.
Goto(place, i) ==
    /\ pc' = place
    /\ n' = i
    /\ UNCHANGED <<program, runs, healthy>>

\* What data may become on its way to the file.
Written(data) ==
    {data} \cup IF healthy THEN {} ELSE {SubSeq(data, 1, k) : k \in {l \in TornLengths : l < Len(data)}}

\* What is between the old end of a file and an offset beyond it.
NUL == <<"nul", 0>>

\* contents after data has been written at offset, counted from 0.
Overwrite(contents, offset, data) ==
    LET end == offset + Len(data)
    IN [i \in 1 .. (IF Len(contents) < end THEN end ELSE Len(contents)) |->
           IF i \in offset + 1 .. end THEN data[i - offset]
           ELSE IF i <= Len(contents) THEN contents[i] ELSE NUL]
=============================================================================
