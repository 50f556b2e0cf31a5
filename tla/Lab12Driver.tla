----------------------------- MODULE Lab12Driver -----------------------------
(***************************************************************************)
(* A trace of lab12.cpp: scheduler and semaphore called in any order until *)
(* they go out of scope.  The semaphore's queue is there twice, as the     *)
(* sequence Lab12Semaphore reasons about and as the linked list it is; the *)
(* list moves with every call of En_Q and De_Q.                            *)
(***************************************************************************)
EXTENDS Lab12Semaphore, LinkedQueue, FiniteSets

\* A task waits in one place at most: there is memory for a node each.
ASSUME DriverAssumption == IsFiniteSet(Nodes) /\ Cardinality(Nodes) >= MAX_TASKS

VARIABLE destroyed   \* the trace has returned and its objects are gone

driverVars == <<vars, list, destroyed>>

DriverInit ==
    /\ Init
    /\ ListInit
    /\ destroyed = FALSE

-----------------------------------------------------------------------------

\* Only the semaphore touches the queue.
SchedulerCall(call) ==
    /\ ~destroyed
    /\ call
    /\ UNCHANGED <<list, destroyed>>

Down(t) ==
    /\ ~destroyed
    /\ down(t)
    /\ IF value > 0 THEN UNCHANGED list ELSE En_Q(t)
    /\ UNCHANGED destroyed

Up(t) ==
    /\ ~destroyed
    /\ up(t)
    /\ IF isEmpty THEN UNCHANGED list ELSE De_Q
    /\ UNCHANGED destroyed

\* The trace returns, with tasks in the queue or without.
Destroy ==
    /\ ~destroyed
    /\ Reset
    /\ destroyed' = TRUE
    /\ UNCHANGED vars

Terminated == destroyed /\ UNCHANGED driverVars

DriverNext ==
    \/ SchedulerCall(Create)
    \/ SchedulerCall(Start)
    \/ SchedulerCall(Yield)
    \/ \E delta \in WorkSlices : SchedulerCall(Work(delta))
    \/ \E q \in Quanta : SchedulerCall(SetQuantum(q))
    \/ \E t \in Tasks : Down(t) \/ Up(t)
    \/ Destroy
    \/ Terminated

\* What cooperating tasks and their driver do: an idle CPU is started, the running
\* task works and yields, and an owner that gets the CPU again and again calls up().
Fairness ==
    /\ WF_driverVars(SchedulerCall(Start))
    /\ WF_driverVars(SchedulerCall(Yield))
    /\ WF_driverVars(\E delta \in WorkSlices : SchedulerCall(Work(delta)))
    /\ \A t \in Tasks : SF_driverVars(current_task = t /\ Up(t))

DriverSpec == DriverInit /\ [][DriverNext]_driverVars /\ Fairness

-----------------------------------------------------------------------------

\* The linked list is the semaphore's queue after every mix of calls that empty and
\* refill it: no node is lost, reached twice or read after its delete, and once the
\* semaphore is destroyed, with waiters or without, none is left on the heap.
ListIsQueue ==
    IF destroyed THEN heap = [node \in {} |-> {}] /\ isEmpty ELSE Represents(wait_queue)

\* Every waiter on an owned semaphore is handed it in the end, because READY tasks
\* get the CPU in turn and the hand-off goes to the longest waiter; the exceptions
\* are an owner that queued behind itself, and the end of the trace.
WaiterGetsSemaphore ==
    \A t \in Tasks :
        (InQueue(t) /\ owner # NoTask) ~> (owner = t \/ InQueue(owner) \/ destroyed)
=============================================================================
