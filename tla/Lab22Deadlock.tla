---------------------------- MODULE Lab22Deadlock ----------------------------
(***************************************************************************)
(* Lab_22: two workers take two mutexes in opposite orders, in a sequence  *)
(* that sequenceStep, a mutex and a condition enforce.  A worker is a      *)
(* script of calls, each a step; a step of wait_for_step or                *)
(* advance_to_step is its critical section under sequenceMutex.            *)
(***************************************************************************)
EXTENDS Integers, Sequences

VARIABLES
    sequenceStep,   \* sequenceStep
    mutexHolder,    \* who holds firstMutex and secondMutex, 0 if free
    created,        \* workers main has created
    place,          \* the call of its script each worker is at
    asleep          \* workers in pthread_cond_wait

lab22Vars == <<sequenceStep, mutexHolder, created, place, asleep>>

Workers == 1 .. 2

call(op, arg) == [op |-> op, arg |-> arg]

script == <<
    << call("advance", 1), call("wait", 2), call("lock", "first"), call("advance", 3),
       call("wait", 4), call("lock", "second"), call("unlock", "second"), call("unlock", "first") >>,
    << call("wait", 1), call("advance", 2), call("wait", 3), call("lock", "second"),
       call("advance", 4), call("lock", "first"), call("unlock", "first"), call("unlock", "second") >> >>

Lab22Init ==
    /\ sequenceStep = 0
    /\ mutexHolder = [m \in {"first", "second"} |-> 0]
    /\ created = 0
    /\ place = [w \in Workers |-> 1]
    /\ asleep = {}

-----------------------------------------------------------------------------

\* main creates the workers in turn and then waits for them.
CreateWorker ==
    /\ created < 2
    /\ created' = created + 1
    /\ UNCHANGED <<sequenceStep, mutexHolder, place, asleep>>

At(w, op) ==
    /\ w <= created
    /\ w \notin asleep
    /\ place[w] <= Len(script[w])
    /\ script[w][place[w]].op = op

Arg(w) == script[w][place[w]].arg

GoOn(w) == place' = [place EXCEPT ![w] = @ + 1]

\* Passes, or goes to sleep; a woken worker looks at sequenceStep again.
wait_for_step(w) ==
    /\ At(w, "wait")
    /\ IF sequenceStep < Arg(w) THEN asleep' = asleep \cup {w} /\ UNCHANGED place
                                ELSE GoOn(w) /\ UNCHANGED asleep
    /\ UNCHANGED <<sequenceStep, mutexHolder, created>>

\* (Bug) the new step is not broadcast.
Bug_NoBroadcast(w) ==
    /\ At(w, "advance")
    /\ sequenceStep' = Arg(w)
    /\ GoOn(w)
    /\ UNCHANGED <<mutexHolder, created, asleep>>

advance_to_step(w) ==
    /\ At(w, "advance")
    /\ sequenceStep' = Arg(w)
    /\ asleep' = {}
    /\ GoOn(w)
    /\ UNCHANGED <<mutexHolder, created>>

\* Locks or unlocks one of the two mutexes.
UseMutex(w) ==
    /\ \E op \in {"lock", "unlock"} :
          /\ At(w, op)
          /\ op = "lock" => mutexHolder[Arg(w)] = 0
          /\ mutexHolder' = [mutexHolder EXCEPT ![Arg(w)] = IF op = "lock" THEN w ELSE 0]
    /\ GoOn(w)
    /\ UNCHANGED <<sequenceStep, created, asleep>>

\* A spurious wakeup.
Wakeup(w) ==
    /\ w \in asleep
    /\ asleep' = asleep \ {w}
    /\ UNCHANGED <<sequenceStep, mutexHolder, created, place>>

Worker(w) == wait_for_step(w) \/ advance_to_step(w) \/ UseMutex(w)

Lab22Next == CreateWorker \/ \E w \in Workers : Worker(w) \/ Wakeup(w)

-----------------------------------------------------------------------------

\* Each worker holds the mutex the other is about to lock.
Deadlocked ==
    /\ mutexHolder = [m \in {"first", "second"} |-> IF m = "first" THEN 1 ELSE 2]
    /\ At(1, "lock") /\ Arg(1) = "second"
    /\ At(2, "lock") /\ Arg(2) = "first"
=============================================================================
