--------------------------- MODULE Lab12Scheduler ---------------------------
(***************************************************************************)
(* The cooperative scheduler of Lab_12 (lab12_Scheduler.cpp): a fixed task *)
(* table, a current-task pointer, a quantum, and a simulated clock that    *)
(* moves only when simulate_cpu_work is called.  One operator per public   *)
(* member function; Lab12Semaphore composes them with the semaphore, which *)
(* is the only caller of block_task and unblock_task.                      *)
(*                                                                         *)
(* Time is kept as elapsed, the value elapsed_time(current_task_) returns: *)
(* simulated_time_ms_ minus the start_time of the running task.  The code  *)
(* reads no other start_time, and compares this one only with a quantum,   *)
(* so elapsed saturates at the largest quantum.                            *)
(***************************************************************************)
EXTENDS Integers

CONSTANTS
    MAX_TASKS,        \* slots of the task table
    DEFAULT_QUANTUM,  \* the quantum before any set_quantum
    Quanta,           \* arguments given to set_quantum
    MaxQuantum,       \* the largest of them
    WorkSlices        \* arguments given to simulate_cpu_work

ASSUME SchedulerAssumption ==
    /\ MAX_TASKS \in Nat \ {0}
    /\ MaxQuantum \in Nat \ {0}
    /\ Quanta \subseteq 1..MaxQuantum
    /\ DEFAULT_QUANTUM \in 1..MaxQuantum
    /\ WorkSlices \subseteq Nat

VARIABLES
    task_state,       \* task_table_[t].state of every slot
    current_task,     \* current_task_, NoTask when the CPU is idle
    current_quantum,  \* current_quantum_
    elapsed           \* elapsed_time(current_task_)

schedVars == <<task_state, current_task, current_quantum, elapsed>>

NoTask == -1
Tasks == 0 .. MAX_TASKS - 1
TaskStates == {"DEAD", "READY", "RUNNING", "BLOCKED"}

SchedTypeOK ==
    /\ task_state \in [Tasks -> TaskStates]
    /\ current_task \in Tasks \cup {NoTask}
    /\ current_quantum \in 1 .. MaxQuantum
    /\ elapsed \in 0 .. MaxQuantum

SchedInit ==
    /\ task_state = [t \in Tasks |-> "DEAD"]
    /\ current_task = NoTask
    /\ current_quantum = DEFAULT_QUANTUM
    /\ elapsed = 0

-----------------------------------------------------------------------------

Ready(st) == {t \in Tasks : st[t] = "READY"}

\* The offset at which a scan that starts after slot c reaches slot t; the scan
\* reaches c itself last, at offset MAX_TASKS.
Distance(c, t) == IF t > c THEN t - c ELSE t - c + MAX_TASKS

\* The slots find_free_slot, find_first_ready and find_next_ready_from return,
\* each as a set: empty where the code returns -1, and otherwise one slot.
find_free_slot ==
    {t \in Tasks : task_state[t] = "DEAD" /\ \A u \in Tasks : u < t => task_state[u] # "DEAD"}

find_first_ready ==
    {t \in Ready(task_state) : \A u \in Ready(task_state) : t <= u}

\* (Bug) the scan restarts at slot 0 on every switch.
Bug_ScanFromZero(st, c) ==
    {t \in Ready(st) : \A u \in Ready(st) : t <= u}

find_next_ready_from(st, c) ==
    {t \in Ready(st) : \A u \in Ready(st) : Distance(c, t) <= Distance(c, u)}

\* st is the table the code has reached when it calls schedule_task.
schedule_task(st, t) ==
    /\ current_task' = t
    /\ task_state' = [st EXCEPT ![t] = "RUNNING"]
    /\ elapsed' = 0

create_task ==
    /\ \/ \E t \in find_free_slot : task_state' = [task_state EXCEPT ![t] = "READY"]
       \/ find_free_slot = {} /\ UNCHANGED task_state
    /\ UNCHANGED <<current_task, current_quantum, elapsed>>

\* The calls start() ignores (already running, or nothing READY) change nothing.
start ==
    /\ current_task = NoTask
    /\ \E t \in find_first_ready : schedule_task(task_state, t)
    /\ UNCHANGED current_quantum

\* (Bug) dispatches the next task and leaves the old one RUNNING.
Bug_YieldNoDemotion ==
    /\ current_task # NoTask
    /\ elapsed >= current_quantum
    /\ \E t \in find_next_ready_from(task_state, current_task) : schedule_task(task_state, t)
    /\ UNCHANGED current_quantum

\* yield() by the running task once its quantum has expired; an earlier call,
\* and one made when the CPU is idle, change nothing.
yield ==
    /\ current_task # NoTask
    /\ elapsed >= current_quantum
    /\ \/ /\ Ready(task_state) = {}
          /\ elapsed' = 0
          /\ UNCHANGED <<task_state, current_task>>
       \/ \E t \in find_next_ready_from(task_state, current_task) :
              schedule_task([task_state EXCEPT ![current_task] = "READY"], t)
    /\ UNCHANGED current_quantum

simulate_cpu_work(delta) ==
    /\ elapsed' = IF current_task = NoTask THEN 0
                  ELSE IF elapsed + delta < MaxQuantum THEN elapsed + delta ELSE MaxQuantum
    /\ UNCHANGED <<task_state, current_task, current_quantum>>

set_quantum(q) ==
    /\ current_quantum' = q
    /\ UNCHANGED <<task_state, current_task, elapsed>>

block_task(t) ==
    LET blocked == [task_state EXCEPT ![t] = "BLOCKED"] IN
    /\ \/ /\ current_task # t
          /\ task_state' = blocked
          /\ UNCHANGED <<current_task, elapsed>>
       \/ /\ current_task = t
          /\ Ready(blocked) = {}
          /\ task_state' = blocked
          /\ current_task' = NoTask
          /\ elapsed' = 0
       \/ /\ current_task = t
          /\ \E u \in find_next_ready_from(blocked, t) : schedule_task(blocked, u)
    /\ UNCHANGED current_quantum

\* No dispatch here, not even when the CPU is idle.
unblock_task(t) ==
    /\ task_state' = [task_state EXCEPT ![t] = "READY"]
    /\ UNCHANGED <<current_task, current_quantum, elapsed>>
=============================================================================
