--------------------------- MODULE Lab12Semaphore ---------------------------
(***************************************************************************)
(* Lab_12 as a whole: the binary semaphore of lab12_Semaphore.cpp, with    *)
(* its FIFO queue of waiting tasks, attached to the cooperative scheduler. *)
(* The driver calls down(t) and up(t) for any task t that can run, that    *)
(* is, is READY or RUNNING; the semaphore itself never checks who calls.   *)
(***************************************************************************)
EXTENDS Lab12Scheduler, FifoQueue

CONSTANT
    ReentrantDown   \* may the owner of the semaphore call down() again?

ASSUME SemaphoreAssumption == ReentrantDown \in BOOLEAN

VARIABLES
    value,       \* value_
    owner,       \* owner_, NoTask when nobody owns the semaphore
    wait_queue   \* wait_queue_

semVars == <<value, owner, wait_queue>>
vars == <<task_state, current_task, current_quantum, elapsed, value, owner, wait_queue>>

TypeOK ==
    /\ SchedTypeOK
    /\ value \in {0, 1}
    /\ owner \in Tasks \cup {NoTask}
    /\ wait_queue \in Seq(Tasks)

\* The constructor throws on any initial value but these.
Init ==
    /\ SchedInit
    /\ value \in {0, 1}
    /\ owner = NoTask
    /\ wait_queue = <<>>

CanRun(t) == task_state[t] \in {"READY", "RUNNING"}
InQueue(t) == Holds(wait_queue, t)

-----------------------------------------------------------------------------

DownGranted(t) ==
    /\ value > 0
    /\ value' = 0
    /\ owner' = t
    /\ UNCHANGED <<wait_queue, schedVars>>

DownBlocked(t) ==
    /\ value = 0
    /\ wait_queue' = Append(wait_queue, t)
    /\ block_task(t)
    /\ UNCHANGED <<value, owner>>

down(t) ==
    /\ CanRun(t)
    /\ owner = t => ReentrantDown
    /\ DownGranted(t) \/ DownBlocked(t)

UpFree ==
    /\ wait_queue = <<>>
    /\ value' = 1
    /\ owner' = NoTask
    /\ UNCHANGED <<wait_queue, schedVars>>

\* (Bug) hands off without telling the scheduler.
Bug_HandOffNoUnblock ==
    /\ wait_queue # <<>>
    /\ owner' = Head(wait_queue)
    /\ value' = 0
    /\ wait_queue' = Tail(wait_queue)
    /\ UNCHANGED schedVars

\* (Bug) hands off to the last task that joined.
Bug_LastInFirstOut ==
    LET last == wait_queue[Len(wait_queue)] IN
    /\ wait_queue # <<>>
    /\ owner' = last
    /\ value' = 0
    /\ wait_queue' = SubSeq(wait_queue, 1, Len(wait_queue) - 1)
    /\ unblock_task(last)

UpHandOff ==
    /\ wait_queue # <<>>
    /\ owner' = Head(wait_queue)
    /\ value' = 0
    /\ wait_queue' = Tail(wait_queue)
    /\ unblock_task(Head(wait_queue))

\* up() by anyone but the owner is ignored: it changes nothing.
up(t) ==
    /\ CanRun(t)
    /\ owner = t
    /\ UpFree \/ UpHandOff

Create == create_task /\ UNCHANGED semVars
Start == start /\ UNCHANGED semVars
Yield == yield /\ UNCHANGED semVars
Work(delta) == simulate_cpu_work(delta) /\ UNCHANGED semVars
SetQuantum(q) == set_quantum(q) /\ UNCHANGED semVars

Next ==
    \/ Create
    \/ Start
    \/ Yield
    \/ \E delta \in WorkSlices : Work(delta)
    \/ \E q \in Quanta : SetQuantum(q)
    \/ \E t \in Tasks : down(t) \/ up(t)

Spec == Init /\ [][Next]_vars

-----------------------------------------------------------------------------

\* The CPU runs what the current-task pointer names, and nothing else: after
\* any mix of creations, yields, blocks and hand-offs the table has a RUNNING
\* entry exactly at current_task_ (yield and block_task each write two entries).
RunningIsCurrent ==
    \A t \in Tasks : task_state[t] = "RUNNING" <=> t = current_task

\* The scheduler's and the semaphore's records agree: a task is BLOCKED exactly
\* while it waits in the semaphore's queue, where it stands once, so no task sleeps
\* with nobody to wake it, runs while still queued, or is handed the semaphore twice.
WaitersAreBlocked ==
    /\ \A t \in Tasks : task_state[t] = "BLOCKED" <=> InQueue(t)
    /\ Distinct(wait_queue)

\* The task table, the current-task pointer, the semaphore's queue and, through
\* them, both classes have one picture of who runs and who waits.
RecordsAgree == RunningIsCurrent /\ WaitersAreBlocked

\* Every created task can be BLOCKED at once for two reasons only: the owner
\* called down() on the semaphore it holds, or the semaphore started at 0, which
\* nobody can raise because up() wants an owner.  Otherwise some task can run.
StuckOnlyBySelfWait ==
    LET live == {t \in Tasks : task_state[t] # "DEAD"} IN
    (live # {} /\ \A t \in live : task_state[t] = "BLOCKED")
        => \/ owner # NoTask /\ InQueue(owner) /\ ReentrantDown
           \/ owner = NoTask /\ value = 0

\* Round robin: whenever the CPU passes from one task to another, every task
\* that is READY before and after is strictly nearer in the scan order, so a
\* READY task is overtaken fewer than MAX_TASKS times (find_next_ready_from).
RoundRobin ==
    [][\A t \in Tasks :
          /\ current_task # NoTask /\ current_task' \notin {NoTask, current_task}
          /\ task_state[t] = "READY" /\ task_state'[t] = "READY"
          => Distance(current_task', t) < Distance(current_task, t)]_vars

\* The semaphore never passes a waiter by: while tasks wait, it changes hands
\* only to the first of them, who is READY from that step on, and each of the
\* others keeps its place relative to the rest.
NoBarging ==
    [][wait_queue # <<>> =>
          \/ /\ owner' = owner
             /\ SubSeq(wait_queue', 1, Len(wait_queue)) = wait_queue
          \/ /\ owner' = Head(wait_queue)
             /\ wait_queue' = Tail(wait_queue)
             /\ task_state'[Head(wait_queue)] = "READY"]_vars
=============================================================================
