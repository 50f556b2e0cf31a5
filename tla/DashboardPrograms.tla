-------------------------- MODULE DashboardPrograms --------------------------
(***************************************************************************)
(* The dashboard in use, by one of three kinds of program:                 *)
(*   "threads"   lab10.cpp: workers report what they do, inside the        *)
(*               semaphore's critical sections too, while main creates and *)
(*               joins them, or gives up when a creation fails;            *)
(*   "commands"  Lab18_System_Time.cpp: measurements, and a prompt between *)
(*               them; a measurement is the lines it logs;                 *)
(*   "plain"     any other lab, as far as the layout is concerned.         *)
(***************************************************************************)
EXTENDS Dashboard

CONSTANTS
    THREAD_COUNT, SEMAPHORE_PERMITS, CRITICAL_SECTION_ROUNDS,
    Terminals,    \* what terminal may be, for each kind of program
    TaskCounts,   \* what taskCount may be, for each kind of program
    MaxInputs     \* bound: commands that log something

Main == -1
Workers == 0 .. THREAD_COUNT - 1

ASSUME ProgramsAssumption ==
    /\ THREAD_COUNT \in Nat \ {0}
    /\ SEMAPHORE_PERMITS \in Nat /\ CRITICAL_SECTION_ROUNDS \in Nat /\ MaxInputs \in Nat
    /\ Threads = {Main} \cup Workers
    /\ \A kind \in {"threads", "commands", "plain"} :
         Terminals[kind] \subseteq Terms /\ TaskCounts[kind] \subseteq Nat \ {0}
    /\ \A n \in TaskCounts["commands"] : n >= 3

VARIABLES
    program,     \* the kind of program
    holdOnExit,  \* holdOnExit_
    selection,   \* determineMeasurementSelection
    main,        \* where main is
    created,     \* workers created
    gaveUp,      \* has pthread_create failed?
    at,          \* where each worker is
    lock,        \* the semaphore's lock_
    value,       \* its value_
    waitQueue,   \* its waitQueue_
    inputs,      \* commands counted against MaxInputs
    left         \* has the user asked to leave?

progVars == <<program, holdOnExit, selection, main, created, gaveUp, at, lock, value,
              waitQueue, inputs, left>>
semaphoreVars == <<lock, value, waitQueue>>
allVars == <<dashVars, progVars>>

Times(n, pane) == [i \in 1 .. n |-> pane]

ProgInit ==
    /\ program \in {"threads", "commands", "plain"}
    /\ terminal \in Terminals[program]
    /\ taskCount \in TaskCounts[program]
    /\ DashInit
    /\ holdOnExit \in BOOLEAN
    /\ selection \in IF program = "commands" THEN {"All", "WallOnly", "CpuOnly"} ELSE {"All"}
    /\ main = "construct"
    /\ created = 0
    /\ gaveUp = FALSE
    /\ at = [t \in Workers |-> "unborn"]
    /\ lock = Nobody
    /\ value = SEMAPHORE_PERMITS
    /\ waitQueue = <<>>
    /\ inputs = 0
    /\ left = FALSE

-----------------------------------------------------------------------------
(* main *)

\* Only main's place and the lines it has to write change.
Goto(there, lines) ==
    /\ main' = there
    /\ Log(Main, lines)

StaysMain == UNCHANGED <<program, selection, at, semaphoreVars>>

Construct ==
    /\ main = "construct"
    /\ InitializeCurses
    /\ main' = "layout"
    /\ StaysMain /\ UNCHANGED <<holdOnExit, created, gaveUp, inputs, left>>

Layout ==
    /\ main = "layout"
    /\ buildLayout(Main)
    /\ main' = "begin"
    /\ StaysMain /\ UNCHANGED <<holdOnExit, created, gaveUp, inputs, left>>

\* What runMeasurements logs; wallOk says whether time and localtime succeeded.
measurement(wallOk) ==
    LET wall == Times(IF wallOk THEN 9 ELSE 2, task(0))
        cpu == Times(5, task(1)) \o Times(7, task(2)) \o Times(2, queue)
    IN <<system, queue>>
       \o (IF selection = "CpuOnly" THEN <<>> ELSE wall)
       \o (IF selection = "WallOnly" THEN <<>> ELSE cpu)
       \o <<system, console>>

Begin ==
    /\ main = "begin" /\ Quiet(Main)
    /\ \/ program = "threads" /\ Goto("create", <<system, system>>)
       \/ program = "commands" /\ \E wallOk \in BOOLEAN : Goto("command", measurement(wallOk))
       \/ program = "plain" /\ Goto("finish", <<>>)
    /\ StaysMain /\ UNCHANGED <<holdOnExit, created, gaveUp, inputs, left>>

CreateWorker ==
    /\ main = "create" /\ Quiet(Main)
    /\ created < THREAD_COUNT
    /\ at' = [at EXCEPT ![created] = "start"]
    /\ created' = created + 1
    /\ UNCHANGED <<dashVars, main, program, selection, semaphoreVars, holdOnExit, gaveUp, inputs, left>>

\* pthread_create fails: main returns, which destroys the semaphore and the dashboard.
GiveUp ==
    /\ main = "create" /\ Quiet(Main)
    /\ created < THREAD_COUNT
    /\ gaveUp' = TRUE
    /\ main' = "destroy"
    /\ StaysMain /\ UNCHANGED <<dashVars, holdOnExit, created, inputs, left>>

Wait ==
    /\ main = "create" /\ Quiet(Main)
    /\ created = THREAD_COUNT
    /\ Goto("join", <<system>>)
    /\ StaysMain /\ UNCHANGED <<holdOnExit, created, gaveUp, inputs, left>>

Join ==
    /\ main = "join" /\ Quiet(Main)
    /\ \A t \in Workers : at[t] = "done" /\ Quiet(t)
    /\ Goto("finish", <<>>)
    /\ StaysMain /\ UNCHANGED <<holdOnExit, created, gaveUp, inputs, left>>

finish ==
    /\ main = "finish" /\ Quiet(Main)
    /\ IF interactive /\ holdOnExit THEN Goto("hold", <<system, console>>)
                                    ELSE Goto("destroy", <<system>>)
    /\ StaysMain /\ UNCHANGED <<holdOnExit, created, gaveUp, inputs, left>>

\* finish waits for a key, with the mutex held.
Hold ==
    /\ main = "hold" /\ Quiet(Main)
    /\ Await(Main, screen)
    /\ main' = "key"
    /\ StaysMain /\ UNCHANGED <<holdOnExit, created, gaveUp, inputs, left>>

promptInput ==
    /\ main = "command" /\ Quiet(Main)
    /\ IF interactive /\ holdOnExit THEN Await(Main, promptLine) /\ main' = "typed"
                                    ELSE Goto("finish", <<>>)
    /\ StaysMain /\ UNCHANGED <<holdOnExit, created, gaveUp, inputs, left>>

Destroy ==
    /\ main = "destroy" /\ Quiet(Main)
    /\ DestroyPanes
    /\ main' = "exit"
    /\ StaysMain /\ UNCHANGED <<holdOnExit, created, gaveUp, inputs, left>>

\* The process ends, and with it every worker there still is.
Exit ==
    /\ main = "exit"
    /\ main' = "ended"
    /\ StaysMain /\ UNCHANGED <<dashVars, holdOnExit, created, gaveUp, inputs, left>>

MainStep ==
    \/ WriteLine(Main) /\ main # "ended" /\ UNCHANGED progVars
    \/ Construct \/ Layout \/ Begin \/ CreateWorker \/ GiveUp \/ Wait \/ Join
    \/ finish \/ Hold \/ promptInput \/ Destroy \/ Exit

-----------------------------------------------------------------------------
(* The user.  Other keys are read and forgotten; so is ERR, on which both     *)
(* loops go round for ever, as they do on no input at all.                    *)

LeaveKey ==
    /\ main = "key"
    /\ Answered(Main, screen, <<>>)
    /\ main' = "destroy"
    /\ left' = TRUE
    /\ StaysMain /\ UNCHANGED <<holdOnExit, created, gaveUp, inputs>>

EmptyCommand ==
    /\ main = "typed"
    /\ Answered(Main, refreshConsole, <<>>)
    /\ main' = "command"
    /\ StaysMain /\ UNCHANGED <<holdOnExit, created, gaveUp, inputs, left>>

\* (Bug) the session ends with another wait for a key.
Bug_HoldKept ==
    /\ main = "typed"
    /\ Answered(Main, refreshConsole, <<>>)
    /\ main' = "finish"
    /\ left' = TRUE
    /\ StaysMain /\ UNCHANGED <<holdOnExit, created, gaveUp, inputs>>

QuitCommand ==
    /\ main = "typed"
    /\ Answered(Main, refreshConsole, <<>>)
    /\ main' = "finish"
    /\ left' = TRUE
    /\ holdOnExit' = FALSE
    /\ StaysMain /\ UNCHANGED <<created, gaveUp, inputs>>

RunAgain ==
    /\ main = "typed" /\ inputs < MaxInputs
    /\ \E wallOk \in BOOLEAN : Answered(Main, refreshConsole, measurement(wallOk))
    /\ main' = "command"
    /\ inputs' = inputs + 1
    /\ StaysMain /\ UNCHANGED <<holdOnExit, created, gaveUp, left>>

UnknownCommand ==
    /\ main = "typed" /\ inputs < MaxInputs
    /\ Answered(Main, refreshConsole, <<console>>)
    /\ main' = "command"
    /\ inputs' = inputs + 1
    /\ StaysMain /\ UNCHANGED <<holdOnExit, created, gaveUp, left>>

User == LeaveKey \/ EmptyCommand \/ QuitCommand \/ RunAgain \/ UnknownCommand

-----------------------------------------------------------------------------
(* The workers.  Down and Up write lines while they hold the semaphore's     *)
(* lock, so renderMutex is taken inside it.  Once main has given up the      *)
(* semaphore is gone and a call of it undefined: workers stop there.         *)

At(t, place) == at[t] = place /\ Quiet(t)
Go(t, there) == at' = [at EXCEPT ![t] = there]
next(t) == (t + 1) % THREAD_COUNT
StaysWorker == UNCHANGED <<program, holdOnExit, selection, main, created, gaveUp, inputs, left>>

Report(t) ==
    /\ At(t, "start")
    /\ Log(t, logTask(t) \o sendTaskMessage(t, next(t)) \o logTask(t))
    /\ Go(t, "down")
    /\ StaysWorker /\ UNCHANGED semaphoreVars

Lock(t) ==
    /\ At(t, "down") \/ At(t, "woken") \/ At(t, "up")
    /\ ~gaveUp
    /\ lock = Nobody
    /\ lock' = t
    /\ Log(t, IF at[t] = "down" THEN <<queue>> ELSE <<>>)
    /\ Go(t, CASE at[t] = "down" -> "test" [] at[t] = "woken" -> "recheck" [] OTHER -> "raise")
    /\ StaysWorker /\ UNCHANGED <<value, waitQueue>>

\* With no permit value_ is still 0 at the first test of the wait loop.
Test(t) ==
    /\ At(t, "test")
    /\ IF value > 0
       THEN /\ value' = value - 1
            /\ Log(t, <<queue>>)
            /\ Go(t, "enter")
            /\ UNCHANGED waitQueue
       ELSE /\ waitQueue' = Append(waitQueue, t)
            /\ Log(t, logTask(t) \o <<queue>> \o logTask(t))
            /\ Go(t, "sleep")
            /\ UNCHANGED value
    /\ StaysWorker /\ UNCHANGED lock

Recheck(t) ==
    /\ At(t, "recheck")
    /\ IF value > 0 /\ Head(waitQueue) = t
       THEN /\ waitQueue' = Tail(waitQueue)
            /\ value' = value - 1
            /\ Log(t, logTask(t) \o <<queue, queue>>)
            /\ Go(t, "enter")
       ELSE /\ Log(t, logTask(t))
            /\ Go(t, "sleep")
            /\ UNCHANGED <<value, waitQueue>>
    /\ StaysWorker /\ UNCHANGED lock

Sleep(t) ==
    /\ At(t, "sleep")
    /\ lock' = Nobody
    /\ Log(t, <<>>)
    /\ Go(t, "asleep")
    /\ StaysWorker /\ UNCHANGED <<value, waitQueue>>

\* The end of Down, and the critical section.
Enter(t) ==
    /\ At(t, "enter")
    /\ lock' = Nobody
    /\ \E peers \in [1 .. THREAD_COUNT - 1 -> Workers \ {t}] :
          /\ \A i, j \in DOMAIN peers : i < j => peers[i] < peers[j]
          /\ LET sent == [i \in 1 .. 3 * (THREAD_COUNT - 1) |->
                            sendTaskMessage(t, peers[((i - 1) \div 3) + 1])[((i - 1) % 3) + 1]]
             IN Log(t, logTask(t) \o sent \o Times(CRITICAL_SECTION_ROUNDS, task(clampTaskId(t))) \o logTask(t))
    /\ Go(t, "up")
    /\ StaysWorker /\ UNCHANGED <<value, waitQueue>>

Raise(t) ==
    /\ At(t, "raise")
    /\ value' = value + 1
    /\ Log(t, <<queue>> \o (IF waitQueue = <<>> THEN <<queue>>
                            ELSE sendTaskMessage(t, Head(waitQueue)) \o <<queue>>))
    /\ Go(t, "broadcast")
    /\ StaysWorker /\ UNCHANGED <<lock, waitQueue>>

Broadcast(t) ==
    /\ At(t, "broadcast")
    /\ lock' = Nobody
    /\ Log(t, sendTaskMessage(t, next(t)) \o logTask(t))
    /\ at' = [u \in Workers |-> IF u = t THEN "done"
                                ELSE IF waitQueue # <<>> /\ at[u] = "asleep" THEN "woken" ELSE at[u]]
    /\ StaysWorker /\ UNCHANGED <<value, waitQueue>>

WorkerStep(t) ==
    /\ main # "ended"
    /\ \/ WriteLine(t) /\ UNCHANGED progVars
       \/ Report(t) \/ Lock(t) \/ Test(t) \/ Recheck(t) \/ Sleep(t) \/ Enter(t)
       \/ Raise(t) \/ Broadcast(t)

SpuriousWakeup(t) ==
    /\ main # "ended"
    /\ at[t] = "asleep"
    /\ Go(t, "woken")
    /\ StaysWorker /\ UNCHANGED <<dashVars, semaphoreVars>>

-----------------------------------------------------------------------------

Terminated == main = "ended" /\ UNCHANGED allVars

ProgNext ==
    \/ MainStep
    \/ User
    \/ \E t \in Workers : WorkerStep(t) \/ SpuriousWakeup(t)
    \/ Terminated

\* A thread that can go on again and again does: a mutex that is given back again and
\* again, as by a thread that spurious wakeups keep busy, starves nobody.  Nothing is
\* assumed of the user.
ProgSpec ==
    /\ ProgInit /\ [][ProgNext]_allVars
    /\ SF_allVars(MainStep)
    /\ \A t \in Workers : SF_allVars(WorkerStep(t))

-----------------------------------------------------------------------------

Overlap(p, q) ==
    /\ p.y < q.y + q.height /\ q.y < p.y + p.height
    /\ p.x < q.x + q.width /\ q.x < p.x + p.width

Covers(p, y, x) == y \in p.y .. p.y + p.height - 1 /\ x \in p.x .. p.x + p.width - 1

\* On every terminal and for every number of tasks the windows lie on the screen,
\* apart, none below the least size, and fill it but for the places right of the last
\* task; a terminal without room leaves the transcript, and curses is always ended.
PanesTile ==
    /\ main \in {"exit", "ended"} => ~cursesReady
    /\ interactive => Fits
    /\ ~interactive /\ main \notin {"construct", "layout"} => ~cursesReady
    /\ cursesReady /\ interactive =>
        LET bottom == panes[task(taskCount - 1)]
        IN /\ \A p \in Panes :
                /\ panes[p].y >= 0 /\ panes[p].y + panes[p].height <= terminal.lines
                /\ panes[p].x >= 0 /\ panes[p].x + panes[p].width <= terminal.cols
                /\ panes[p].height >= kMinPaneHeight /\ panes[p].width >= kMinPaneWidth
                /\ \A q \in Panes \ {p} : ~Overlap(panes[p], panes[q])
           /\ \A y \in 0 .. terminal.lines - 1, x \in 0 .. terminal.cols - 1 :
                \/ \E p \in Panes : Covers(panes[p], y, x)
                \/ y >= bottom.y /\ x >= bottom.x + bottom.width

\* The dashboard's header promises serialized window writes.  A pane shows one thing,
\* whole: the latest line logged to it or what the layout or a prompt put there since,
\* never nothing and never two threads' lines side by side, but for the pane of a thread
\* that is between erasing it and putting its line there.  And while main waits, the
\* console shows what it waits for: the prompt, or the line that asks for a key, which
\* finish logs under another hold of the mutex than the one it waits with.
WritesSerialized ==
    /\ \A p \in DOMAIN panes :
          IF \E t \in drawing : Head(toLog[t]) = p THEN screen[p] = <<>> ELSE Len(screen[p]) = 1
    /\ main = "typed" => screen[console] = <<prompt>>
    /\ main = "key" => screen[console] = <<line(Main)>>

\* A session never stops by itself except to wait for the user, in spite of the two
\* locks taken inside each other, and ends once the user asks for it, without a
\* second question.
SessionEnds ==
    /\ []<>(main \in {"key", "typed", "ended"})
    /\ left ~> main = "ended"
=============================================================================
