------------------------------ MODULE LockOrder ------------------------------
(***************************************************************************)
(* The three programs that do nothing but lock mutexes in some order: the  *)
(* two of Lab23Forks and that of Lab22Deadlock.  program says which of the *)
(* labs runs; the other one's variables stay as they are.                  *)
(***************************************************************************)
EXTENDS Lab23Forks, Lab22Deadlock

VARIABLE program   \* "lab22" or "lab23"

lockVars == <<forkVars, lab22Vars, program>>

LockInit ==
    /\ program \in {"lab22", "lab23"}
    /\ ForksInit
    /\ Lab22Init
    /\ program = "lab22" => ~ordered

LockNext ==
    \/ program = "lab22" /\ Lab22Next /\ UNCHANGED <<forkVars, program>>
    \/ program = "lab23" /\ ForksNext /\ UNCHANGED <<lab22Vars, program>>

\* A thread that can go on does.
LockFairness ==
    /\ WF_lockVars(program = "lab22" /\ CreateWorker /\ UNCHANGED <<forkVars, program>>)
    /\ \A w \in Workers : WF_lockVars(program = "lab22" /\ Worker(w) /\ UNCHANGED <<forkVars, program>>)
    /\ \A i \in Philosophers :
           WF_lockVars(program = "lab23" /\ philosopher(i) /\ UNCHANGED <<lab22Vars, program>>)

LockSpec == LockInit /\ [][LockNext]_lockVars /\ LockFairness

-----------------------------------------------------------------------------

\* The sequence Lab_22 enforces reaches the circular wait whatever the schedule, in
\* whatever order the workers are created, woken and put to sleep, and stays there:
\* neither worker ends, and main, which joins them, does not either.
AlwaysDeadlocks == program = "lab22" => <>[]Deadlocked
=============================================================================
