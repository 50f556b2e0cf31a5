# Stewart_EC in TLA+

Stewart_EC is a collection of operating-systems labs in C++. Most of them are
small concurrent programs, each built around one synchronisation mechanism that
it implements itself; the others are sequential programs over files, devices and
clocks. This directory holds TLA+ models of all of them, the TLC configurations
that check them, and TLAPS proofs of every safety property the configurations check.

## 1. Inventory

Paths are relative to `src/`.

| Part | State | Operations | What is hard | What makes it correct |
|---|---|---|---|---|
| **Queue template** `queue.h` | linked list `head_`, `tail_`, `size_` | `En_Q`, `De_Q`, `Front`, `isEmpty`, destruction | nodes deleted and allocated anew; a dangling `tail_`; `Front`/`De_Q` throw on an empty queue | the list is a FIFO sequence, every node reachable once, none left behind |
| **Lab 12 scheduler** `Lab_12/lab12_Scheduler.*` | task table, `current_task_`, quantum, simulated clock | `create_task`, `start`, `yield`, `simulate_cpu_work`, `set_quantum`, `block_task`, `unblock_task` | long sequences of legal calls; two records rewritten per switch | one RUNNING task, the current one; round robin |
| **Lab 12 semaphore** `Lab_12/lab12_Semaphore.*`, `lab12.cpp` | `value_`, `owner_`, `wait_queue_` | `down`, `up` | two classes record who waits; ownership is handed to a task that is not running; `down` does not check the owner | records agree; FIFO; no barging; nobody waits for ever |
| **Lab 10 semaphore** `Lab_10/lab10_semaphore.*`, `lab10.cpp` | `value_`, `waitQueue_`, mutex, condition | `Down`, `Up`; workers; main creates and joins | interleavings, spurious wakeups, broadcast to all with only the front allowed to go, newcomers that overtake | permits conserved; queue order; no lost wakeup; everybody joins |
| **Lab 11 bounded buffer** `Lab_11/lab11.cpp` | ring `buffer`, `in`, `out`, `count`; two conditions | `producer`, `consumer`, main | index wrap-around, lost or wrong signals, stale predicate after a wakeup | a FIFO channel; both loops end |
| **Lab 21 message passing** `Lab_21/lab21_Message_Passing.cpp` | mailbox deque, mutex, condition | `enqueue`, `dequeue`, `tryDequeue`; two senders, a receiver | two senders race with one receiver; blocking and non-blocking reads | reliable, in order per sender; blocks exactly when it must |
| **Lab 23 nurse** `Lab_23/lab23.cpp` | `forkInUse_`, `requestQueue_`, `mealsServed_`, mutex, condition | `requestMeal`, `finishMeal`; philosophers | notify after the unlock; granting wakes nobody; strict queue order and forks together | neighbours exclude; order; everybody is served |
| **Lab 23 state-based** `Lab_23/lab23c_*.cpp` | `state[]`, one condition per philosopher | `test`, `take_forks`, `put_forks` | one thread changes another's state while that one sleeps | neighbours exclude; no hungry philosopher forgotten |
| **Lab 23 mutex per fork** `Lab_23/lab23a_*.cpp` | one mutex per fork | lock, lock, unlock, unlock | circular wait | neighbours exclude; the ordered program makes progress |
| **Lab 22 deadlock** `Lab_22/lab22_Deadlock.cpp` | two mutexes; `sequenceStep` under a mutex and a condition | `wait_for_step`, `advance_to_step`, locks in opposite orders | the enforced sequence must itself not stop early | it deadlocks, as announced, under every schedule |
| **Dashboard** `Lab_10/lab10_dashboard.*` | windows, `interactive_`, `cursesReady_`, `renderMutex_` | construction and layout, `sendTaskMessage` and the other log functions, `promptInput`, `finish`, destruction | ncurses is not thread-safe; log calls inside the semaphore's lock; prompt and hold keep `renderMutex_` over a read; layout arithmetic | panes tile the terminal; window writes are serialized; a session ends when the user asks |
| **Lab 13** sequential file I/O | four files | write and read characters and numbers, with streams and with stdio | three different loop conditions; files left by earlier runs; failing or torn writes | what is read back is what was written; every loop ends |
| **Lab 14** random-access file I/O | two files, file positions | `random_file_write`, `random_file_read`, two record writers | seeks past the end; a file opened without truncation; buffered writes that fail late | each record in its place, every other byte as it was |
| **Lab 15** file metadata | a directory with hard and symbolic links | fixture creation, `createHardLinkIfMissing`, `collectSnapshot` | a fixture left half made; links that outlive their file | existing entries are kept, new ones whole; `stat`, `lstat`, `fstat` agree |
| **Lab 16** i-node file | file of fixed-size records, text dump | `init_inode`, `write_inode`, `read_inode`, `dump_inode`, `write_text_dump` | data written by destructors after the last check | what is reported is what is in the file |
| **Lab 17** hex viewer | file bytes, cursor, viewport | keys, `clampViewport` | last page, empty file, resized screen | the cursor is in the file and on the screen |
| **Lab 18** time measurement | selection, command loop | `runMeasurements`, prompt | quitting must skip the wait for a key | the session ends |
| **Lab 20** device drivers (`Lab_20`, `Phase 20`) | a character and a block device backed by files | read and write of each | partial transfers, padding | what is read is what was written |
| Build files, `build/`, `tmp/`, artifacts | generated | – | – | – |

The parts interact little: `queue.h` serves the semaphores of Lab 10 and 12 and the
nurse; the semaphore of Lab 12 calls the scheduler's `block_task` and `unblock_task`;
most labs write to the dashboard, Lab 10's workers do so from inside the semaphore's
critical sections, and Labs 18 and 20 take commands from it. The file labs meet their
own earlier runs through the files. Everything else in a lab is shared memory under a
mutex and, mostly, a condition variable.

The hazards that came out of the survey are listed, each at its line and with
the properties that cover it, under `hazards` in `PROJECT.json`.

## 2. Modules

```
FifoQueue ── Lab12Scheduler ── Lab12Semaphore ─┬─ Lab12Driver ── Lab12_proofs, MCLab12
    │                            LinkedQueue ──┘
    ├─────── Lab10Semaphore ── Lab10_proofs, MCLab10
    └─────── Lab23Nurse ────── Lab23Nurse_proofs, MCLab23Nurse
                  └─ implements Dining
Lab11BoundedBuffer ── implements FifoChannel ──┬─ Channels_proofs, MCLab11, MCLab21
Lab21Mailboxes ────────────────────────────────┘
Lab23Philosophers ─┬─ Lab23Tanenbaum ── implements Dining ─┬─ Philosophers_proofs,
                   └─ Lab23Forks ── implements Dining ──┐  │  MCLab23Tanenbaum, MCLab23Forks
Lab22Deadlock ───────────────────────────── LockOrder ──┴──┘
FileRuns ── Lab13Sequential, Lab14RandomAccess, Lab15Fixture, Lab16Inodes
                  └─ FileLabs ─┬─ Files_proofs, MCFileLabs, MCLab17
Lab17HexViewer ────────────────┘
Dashboard ── DashboardPrograms (Lab 10, Lab 18) ─┬─ Programs_proofs, MCDashboard, MCLab20
Lab20Devices ────────────────────────────────────┘
DataLemmas: lemmas about queues and the naturals, used by all but two of the proof modules
```

(In the first line `Lab12Semaphore` extends both `Lab12Scheduler` and `FifoQueue`. A proof
module that covers several programs extends the modules of each, whose constants and
variables have different names; a run extends its own program only, but for `LockOrder`
and `FileLabs`, which put several side by side.)

### How the code becomes actions

* **A step is a critical section.** In every threaded lab the shared state is touched
  only under one mutex (the exceptions are named below), so an action runs from taking
  the mutex to giving it back, which is either the unlock or the start of a wait on a
  condition. What a thread does without the mutex (sleeping, printing, waiting for I/O)
  is a value of its `pc`, so that others can run in between.
* **Condition variables.** A thread in a wait is `asleep`; a signal, a
  broadcast or a spurious wakeup makes it `woken`; a woken thread still has to get
  the mutex and evaluates its predicate again, in competition with all others.
  `SpuriousWakeup` is part of every `Next` and of no fairness condition.
* **`pthread_cond_signal`** wakes the one thread that can be waiting: in Lab 11 and
  21 and the state-based philosophers each condition has one possible waiter.
* **Names** are those of the source. Logging (but for `DashboardPrograms`), colours, sleeping times and the text
  of messages are left out: no state depends on them.
* **`main`** is modelled: threads appear one after another while earlier ones
  already run, and the end of a run is main's join.
* **Exceptions.** In `DashboardPrograms`, `Lab23Forks` and `Lab22Deadlock` a lock is held
  over several steps, so locks are variables; in the file labs there are no threads,
  and a step ends where a kill leaves different files behind.
* **Failing `pthread_*` calls** are modelled where they do more than end the
  program: `GiveUp` in `DashboardPrograms`.

### What each module stands for

**`FifoQueue`** – `queue.h` as the sequence of its values. `Front` and `De_Q` throw
on an empty queue, so `Head` and `Tail` appear only where the code calls
those, and the properties `QueueIsWaiters` and `BooksAgree` show that a thread
that reaches them stands in the queue itself.

**`LinkedQueue`** – the same template as it is built: nodes on a heap, `head_`, `tail_` and
`size_`. `new` may return an address deleted before, and reading a deleted node
gives nothing one can rely on. `Lab12Driver` moves the list with each `En_Q` and `De_Q` of
the semaphore and destroys it at the end of a trace; `ListIsQueue` says that the list
represents the sequence the other modules reason about.

**`Lab12Scheduler`, `Lab12Semaphore`, `Lab12Driver`** – one operator per member function of the
scheduler, composed with `down` and `up`. `task_table_[t].state` is `task_state[t]`,
`current_task_` is `current_task`. The simulated clock is represented by
`elapsed`, what `elapsed_time(current_task_)` returns; the code compares it only
with a quantum, so it saturates at the largest one. The driver's traces
call the operations in four fixed orders; `Next` allows any order in which a
task that calls `down` or `up` can run. `ReentrantDown` says whether an owner may call
`down` again, which the code does not prevent.

**`Lab10Semaphore`** – `DownAtOnce`, `DownEnqueue`, `DownLeave` and `DownSleepAgain` are
the four stretches of `Down`: through with a permit, into the queue and to
sleep, out of the wait loop, and back to sleep. `Up` broadcasts.

**`Lab11BoundedBuffer`, `FifoChannel`** – the ring with its three indices; `bufferItems`
is the list `bufferItemsLocked` builds, and maps the ring to the
channel's pending items. `consumed` is a history variable.

**`Lab21Mailboxes`** – the mailbox the two senders fill and the receiver reads; the
options `blockDemo` and `receiverReads` are chosen in `Init`. The mailboxes of the
two senders are never written to and are left out.

**`Dining`** – the abstract table: a set of eaters, neighbours never together.
**`Lab23Nurse`**, **`Lab23Tanenbaum`** and **`Lab23Forks`** each implement it.
What `Lab23Tanenbaum` and `Lab23Forks` share, the number at the table, is in
`Lab23Philosophers`.
`Lab23Nurse` has `NotifyAll` as a step of its own because `finishMeal` notifies after
giving the mutex back. `Lab23Tanenbaum` keeps `state[]` apart from the place
of the thread, because `test` marks a philosopher `EATING` before it has woken up;
a philosopher eats when it has left `take_forks`. `Lab23Forks` holds both
programs with a mutex per fork: `Init` chooses between the naive order and
the one in which the last philosopher reverses it.

**`Lab17HexViewer`** – the program waits for input in two places only, `read` and
`getch`, and a step runs from one to the next; ncurses notices a new terminal size
in `getch`, which then returns `KEY_RESIZE`. A file is its size and a byte its index.
`LoadChunk` may return less than a chunk anywhere: at the end of the file or for a
read error, which `loadFile` does not tell apart. `screen` is the set of rows drawn, `key`
the key that led to the next drawing, `printed` the lines of the transcript.
Whether the viewer or the transcript runs depends on options, TTYs and ncurses, and is
left open.

**`Lab20Devices`** – one step per function that opens a device. `Lab_20/lab20.cpp` and
the dashboard of `Phase 20/lab20.cpp` have the same control flow (`dashboard`), the
transcript of Phase 20 returns at the first failure. A run is `healthy` or its
operations may fail; a failed write leaves the file as it was, or truncated with some
prefix of the new contents, because the stream buffers. `Kill` ends a run at any point.
Contents stay for the next run, which may use other options.

**`Lab22Deadlock`, `LockOrder`** – a worker of Lab 22 is a script of calls; each call is
a step, `wait_for_step` and `advance_to_step` being critical sections under
`sequenceMutex`. `sleep(1)` is any delay. `LockOrder` puts the programs that only lock
mutexes side by side, one of them running.

**`Dashboard`** – what is on the terminal is the set of windows with their places. A thread
holds the panes it still has lines for in `toLog`. `screen` is what each window shows: a
pane's body is a `derwin` of its frame, so that `renderTitle`, with which every
`appendLine` begins, erases the earlier lines, and a pane shows its latest line
alone; the prompt and `refreshConsole` erase the console the same way. Writing a line is
two steps, `renderTitle` and the rest of `appendLine`, because ncurses does not lock:
what another thread drew in between would stay beside the line. `layout` is the
constructor's arithmetic. **`DashboardPrograms`** uses it: Lab 10's workers, with
every log call of `Down`, `Up` and the worker routine in its place and inside the same
locks; Lab 18's command loop; and, for the layout, any other lab. After `GiveUp` main
returns and destroys the semaphore and the dashboard while workers may still be
running; what they then draw goes to windows that are gone and changes nothing, and a
worker that would call the semaphore stops, because that call is undefined.

**`FileRuns`** – a program runs, ends or is killed between two steps, and runs again on
the files it finds. In a run that is not `healthy` any operation may fail, and what is
written on close may be cut short (`TornLengths`). **`Lab13Sequential`** – a file is a
sequence of one-character tokens; the readers differ in what ends their loop, and
`fscanf` that meets no number ends none. **`Lab14RandomAccess`** – bytes are named by
the piece they belong to, offsets and lengths are the program's; a piece reaches the
file at the next seek or flush, and a failed one is tried again by the file buffer. In a
failing run `ensureFileExists` may empty a file that is there but cannot be read.
**`Lab15Fixture`** – a directory maps names to i-node numbers or to the symbolic link; a
new file takes a free number, perhaps that of a file removed. `Remove` is somebody who
deletes an entry between two runs. **`Lab16Inodes`** – `n` is the step of `runLab16`;
the data of a function leaves the buffer in its stream's destructor, after the function
has looked at the stream. **`FileLabs`** composes the four, one of them running.

## 3. Runs

All passing runs check for deadlock except `lab23_forks`, whose naive program and Lab 22 do
deadlock; the end of a program is a self-loop (`Terminated`, `Rest`) where there is one.

| Run | Instance | Distinct states | Question |
|---|---|---|---|
| `lab12` | 4 slots, the driver's three quanta and work slice, re-entrant `down` allowed, 4 node addresses | 22566 | Do scheduler, semaphore and linked queue agree under every order of calls, and is anybody starved? |
| `lab10` | 5 workers, 2 permits | 3386 | Permits, queue order, wakeups, end of the run |
| `lab11` | 3 slots, 8 items | 262 | Does the ring implement a channel, and does the run end? |
| `lab21` | 3 + 2 messages, 0–7 reads, both modes | 36212 | Reliability, order, exact condition for blocking |
| `lab23_nurse` | 4 philosophers, 2 meals | 23682 | Exclusion, order, wakeups, service |
| `lab23_tanenbaum` | 5 philosophers | 631 | Exclusion, nobody forgotten, progress |
| `lab23_starvation` | 5 philosophers | – | Is there starvation? (a counterexample, section 5) |
| `lab23_forks` | 5 philosophers, both programs; Lab 22's two workers | 2750 | Exclusion; exactly when it deadlocks; that Lab 22 always does |
| `lab17` | files of up to 10 rows of 4 bytes, 3 terminal heights | 26558 | Cursor, page and rows under every sequence of keys and sizes |
| `lab20` | 2 paths, 4 texts, blocks of 3 bytes | 526181 | What is read back and what the exit status says, run after run |
| `files` | 3 runs, the first with failures, kills between any two steps | 133466 | What the file labs leave, find and report |
| `console` | 2 workers, 1 permit; 156 terminal sizes, 1–7 tasks; 2 commands | 68360 | Panes, what they show, locks and the end of a session |

Why the bounds are enough to be interesting:

* *Lab 12*: with four slots one task can own the semaphore, two wait in order
  and a fourth come between; the scan wraps. The work slice exceeds the short quanta
  and stays below the long one, so that `yield` has both outcomes. The queue holds at
  most one node per task, so four addresses make `new` reuse deleted ones.
* *Lab 10*: two permits are needed for two releases to overlap with a front that
  sleeps beside a free permit; five workers leave three in the queue, so that order
  and overtaking both occur.
* *Lab 11*: `BUFFER_SIZE` is the program's; eight items take both indices round
  the ring more than twice, and full and empty rings both occur.
* *Lab 21*: the message counts are the program's; seven reads is one more than the
  default of six, which itself is one more than there are messages.
* *Nurse*: four philosophers have pairs that may and pairs that may not eat
  together; two meals let a philosopher queue again behind those it kept waiting.
* *Tanenbaum, forks, Lab 22*: the five philosophers and two workers of the programs. All
  have finitely many states, so nothing is cut off.
* *Hex viewer*: header, footer and least height are the program's. The heights are one
  too small, the smallest that is enough (3 rows shown) and a larger one (5
  rows); ten rows are two to three pages with a remainder, and since reading may stop
  anywhere every smaller file occurs, the empty one included.
* *Devices*: two paths give separate and shared devices; the texts hold the quit
  character at the start, a zero byte, as much as the block has places and more than that; leftovers of a
  block image on a character device and the reverse occur through runs with
  exchanged paths. Runs follow each other without end in finitely many states.
* *Files*: `MaxRuns` is 3 and `FaultyRuns` 1, so a run with failures can be followed by one
  killed at any point and that by one that must put things right.
  `TornLengths` is one length, shorter than every piece: it leaves the middle of a
  record, a table or a text. Leftovers are nothing, foreign text, and files
  shorter and longer than the records. Lab 15's fixture has two of its three files; the
  third is made like the first. Lab 16 has the program's eight slots, a record being
  four pieces.
* *Console*: the dashboard's constants are the program's, and the terminals lie on both
  sides of each limit of the layout (one, two and three rows of tasks; two and three
  columns; the width of the upper panes). `THREAD_COUNT` is 2 and `SEMAPHORE_PERMITS` 1, so
  that one worker queues while the other logs; three workers pass too, in 567837
  states. `MaxInputs` bounds the commands that log something; empty commands and
  the wait for a key go on without bound. The semaphore itself is examined with more
  workers and permits in `lab10`.

The paths of Lab 20 are interchangeable and `lab20` uses their symmetry; no property of
it is a liveness property. The other models have none: threads are slots, creation
orders or seats of a circle.

### Fairness

Weak fairness of each thread's steps, and of main's: the kernel schedules runnable
threads, a critical section is short, sleeps and meals end. A thread in a wait is
not runnable, so nothing is assumed about it. Spurious wakeups need not come.
Between two steps of most of these models the one mutex is free, so weak fairness of a
thread's steps includes that a runnable thread gets the mutex in the end. In
`LockOrder` a mutex stays locked across steps and weak fairness lets a philosopher
lose the race for a fork for ever; the property, that somebody eats again and
again, holds all the same. In `DashboardPrograms` two locks are taken inside each other
and a spurious wakeup can send a worker back to `lock_` again and again, so
strong fairness of each thread is assumed: a mutex that is given back infinitely
often is got by whoever waits for it. Of the user nothing is assumed. In `FileLabs` a
program that runs goes on (weak fairness), and nothing is said about being started or
killed. Lab 12 has no threads: `Fairness` in `Lab12Driver` says
what a driver of cooperating tasks does – start an idle CPU, let the running task
work and yield, and let an owner that gets the CPU again and again call `up()`
(strong fairness, because it is not always running).

### What the properties say

* **Agreement of records** – `RecordsAgree`, `QueueIsWaiters`, `BooksAgree`: two pieces of
  state that different functions update say the same thing. `ListIsQueue`: the nodes,
  links, `tail_` and count are one sequence, and nothing is left on the heap.
* **Conservation** – `PermitsConserved`, `NothingLostOrReordered`, `ImplementsChannel`.
* **Serialized drawing** – `WritesSerialized`: a pane nobody is drawing shows one thing
  whole, and while main waits for a command or a key, the console shows its prompt or the
  line that asks for the key. Nothing is said of how long a line stays: the next one erases it.
* **No lost wakeup** – `FrontWillWake` (Lab 10 and the nurse), `SleepsOnlyIfEmpty`,
  `HungryIsHeldUp`. In Lab 10 with two permits, and with the nurse, the
  front of a queue *can* sleep although it could go, because leaving a wait
  wakes nobody; the property says who will wake it.
* **Order** – `RoundRobin`, `NoBarging`, `QueuedInOrder`, `ServedInOrder`: action
  properties about who may overtake whom. `QueuedInOrder` is about threads that
  are in the queue: `Down` lets a newcomer take a free permit past it.
* **Deadlock** – `StuckOnlyBySelfWait`, `OnlyCircularWait`: the exact situations in which
  nothing can run, each a thing the code does permit. `AlwaysDeadlocks`: Lab 22's
  sequence always reaches its circular wait and never leaves it.
* **Refinement** – `NeighboursExclude` and, for the programs with a mutex per fork,
  `ForksExclude` (they all implement `Dining`); `ImplementsChannel`.
* **Layout and viewport** – `PanesTile`: windows on the terminal, apart, and every position of
  the terminal in one of them but for those right of the last task; curses ended on every
  path. `CursorOnScreen`, `NoRowSkipped`: cursor, page and
  terminal change at different moments; `NoRowSkipped` compares one screen with the next.
* **What was read is what was there** – `TranscriptCoversFile`, `ReadBackIsOwn`,
  `ExitStatusTells`, `ReadsBackAndEnds13`, `RecordsInPlace`, `FixtureComplete`,
  `ReportsTheFile`. Each says what a program promises when nothing fails, whatever
  earlier runs left, and several what it still promises when something does. The
  character device's read loop of Lab 20 takes an error for the end of the file, so in a
  run with failures `ReadBackIsOwn` promises a prefix only. Lab 16 does not notice a
  write that fails in a destructor: `ReportsTheFile` says that it then reports what is
  in the file and not what it meant to write. In Lab 13 the one way not to end is
  `fscanf` on foreign text in a file that could not be opened for writing.
* **Liveness** – `WaiterGetsSemaphore`, `AllJoined`, `EventuallyDestroyed`,
  `BlocksExactlyWhenShort`, `AllMealsServed`, `SomebodyEats`, `OrderedMakesProgress`,
  `SessionEnds`, and the ending of every reader in `ReadsBackAndEnds13`.

Each property has a mutant in `PROJECT.json`: a variant of one operation, defined as
`Bug_…` in the same module, under which TLC finds the property violated.

## 4. Proofs

Every invariant the passing runs check, every action property and the safety part of
every refinement is a theorem. They hold for every value of the constants allowed by
the assumptions in the modules: any number of task slots, quanta, workers, permits, ring
slots, items, messages, philosophers or meals, any file, line length and terminal, any
succession of runs.

| Module | Theorems |
|---|---|
| `Lab12_proofs` | `Invariance`, `TypeCorrect`, `RecordsKept`, `NeverStuck`, `RoundRobinDispatch`, `Fifo`, `DriverImplements`, `ListKeepsQueue` |
| `Lab10_proofs` | `Invariance`, `Conservation`, `MutualExclusion`, `QueueMatchesWaiters`, `NoLostWakeup`, `ServedInOrder` |
| `Channels_proofs` (Labs 11, 21) | `Lab11Invariance`, `InOrder`, `ImplementsSafely`; `Lab21Invariance`, `ReliableAndOrdered`, `NoLostWakeup` |
| `Lab23Nurse_proofs` | `Invariance`, `BooksKept`, `NoLostWakeup`, `InOrder`, `Implements` |
| `Philosophers_proofs` (Labs 23, 22) | `Invariance`, `NobodyForgotten`, `Implements`; `ForksInvariance`, `OnlyWait`, `ForksImplement`; `Lab22Invariance`, `Lab22NeverPasses`, `Lab22StaysDeadlocked` |
| `Files_proofs` (Labs 13–17) | `Lab16Invariance`, `Lab16Reports`; `Lab13Invariance`, `Lab13ReadsBack`; `Lab14Invariance`, `Lab14Records`; `Lab15Invariance`, `Lab15Fixtures`; `Lab17Invariance`, `HighlightVisible`, `NothingSkipped`, `TranscriptComplete` |
| `Programs_proofs` (dashboard, Lab 20) | `DashInvariance`, `DashTiles`, `DashSerializes`; `Lab20Invariance`, `Lab20ReadsItsOwn`, `Lab20StatusTells` |

### Assumptions

What the assumptions say beyond the types of the constants:

* `SchedulerAssumption`, `SemaphoreAssumption`, `Lab10Assumption`, `Lab11Assumption`,
  `Lab21Assumption`, `NurseAssumption`, `TableAssumption`, `HexViewerAssumption`: ranges the
  programs' constants lie in (a ring has a slot, a table two seats, a line a byte).
* `LinkedQueueAssumption`: the null pointer is no address. `DriverAssumption`: there are at
  least as many addresses as task slots, so that `new` finds one; a task waits in one
  place at most and the number of slots is fixed, and running out of memory ends the program.
* `FileRunsAssumption`, `Lab13Assumption`, `Lab14Assumption`, `Lab15Assumption`,
  `DevicesAssumption`: the markers for "no file" and "nothing read" are not contents a file
  could have; Lab 15's fixture has distinct names, `i-nodes` the last of them
  (`Lab_15/lab15.cpp`), and none is that of a link.
* `Lab16Assumption`: the table has the slots 0 to 3 the program writes and reads.
* `DashboardAssumption`: the least pane fits the header and the upper row, and the least
  width is no more than the console's, as the constants of `lab10_dashboard.h` do;
  without it `PanesTile` is false of the fixed rows. `ProgramsAssumption`: the threads are
  main and the workers, a dashboard has a pane, and the command loop at least the
  three its measurements write to.

### Arguments

Every invariance theorem states `Spec => []IInv` and includes the type invariant, or as
much of it as its program needs. The argument is always the same: `InitInv`, one lemma per
action (or per group of actions), `StepInv`, and a temporal step. What makes `IInv`
inductive:

* *Lab 12*: type, `RunningIsCurrent`, `WaitersAreBlocked`, and `SemaphoreConsistent`: a free
  semaphore has neither owner nor waiters, an owner is a live task, and it waits
  only for itself. The last two rule every other deadlock out (`NeverStuck`).
  `DriverImplements` carries all of it over to the driver that the run checks, whose
  steps are steps of `Lab12Semaphore` or leave its variables alone.
* *The linked list*: `chain` follows the pointers from `head_`. The proof never computes
  it: `Linked(s, values)` says of a sequence `s` of addresses, given, that the heap is
  exactly these nodes, distinct, each with its value and pointing at the next, `tail_` at
  the last. `En_Q` appends to such an `s` (`Enqueued`; the address `new` returns is none
  of its members), `De_Q` drops its first (`Dequeued`), and once, at the end, `ChainFollows`
  shows by induction over the places of `s` that `chain` is `s`. The queue of the semaphore
  never holds more values than there are slots, so `new` finds an address
  (`FreeNode`, which needs that the waiters are distinct: `IInv`).
* *Lab 10*: `CreatedInOrder` (a thread just created is not counted yet) and
  `QueueIsWaiters`. Conservation needs that the number of threads in the critical
  section changes by one, for which `FiniteSetTheorems` is used; `FrontWillWake`
  needs that the front of the queue is one of those a broadcast wakes.
* *Lab 11*: `RingAgrees` (`in` is `count` slots after `out`), `Contents` (the full slots
  hold the items that come after those consumed) and `InLoop`. Four lemmas reduce `%` on
  slots to a comparison (`GoingRound`) and say how places shift when `out` moves
  (`OneFurther`, `NextPlace`) and that the first free slot is none of the full ones
  (`OtherSlot`). `ImplementsSafely` shows that `Produce` appends to what
  `bufferItemsLocked` lists, `Consume` takes its head, and nothing else shows.
* *Lab 21*: the property is about `history`, what went through the mailbox; `Take`
  leaves it as it is (`HistoryStays`) and `enqueue` adds at its end (`HistoryGrows`).
  `InLoop` keeps the receiver's loop variable in its range.
* *Nurse*: `BooksAgree` says which forks are in use, `ForksApart` that eaters share none –
  without it the end of a meal could free a neighbour's fork – and `MealsLeft` keeps
  the meal counter in its range. A grant needs both forks free, and `BooksAgree`
  turns that into "no neighbour eats".
* *Philosophers with states*: exclusion is about the marks in `state[]`, which are set
  for sleeping threads; `PlacesAgree` and `HungryIsHeldUp` tie the marks to where the
  threads are. The lemma `Testing` says what `test` does to any table that satisfies
  the rule, and `put_forks` applies it twice.
* *A mutex per fork*: `HandsAgree` says that a philosopher's place in the program
  determines the forks it holds. Exclusion follows because two neighbours share a fork
  and both would hold it. For `OnlyWait`, let nobody be able to move: then every fork that is
  taken is in the hand of somebody who waits for its second one. In the naive program
  that leaves each left fork with its own philosopher. In the ordered one it leaves nobody to
  hold fork N - 1, so the last philosopher waits for fork 0, every other one has its
  left fork, and the one before last finds its right one, N - 1, free: a contradiction
  that needs no induction round the table.
* *Lab 22*: `Lab22IInv` ties the place of one worker in its script to that of the other,
  `sequenceStep` to both, and a mutex to the worker past its lock. Neither is ever past
  its second lock (`NeitherGetsBoth`), and when both are there no step is left
  (`Lab22StaysDeadlocked`). That they get there is liveness: `AlwaysDeadlocks`.
* *Hex viewer*: `PageDrawn` (what is on the screen) and `CursorNear` (a scrolling key
  leaves the cursor within a page of some row shown) carry `NoRowSkipped` from the key
  to the drawing; `Clamped` says what `clampViewport` does. The transcript rests on
  two lemmas about rounded-up division: every byte has a row among those
  counted (`RowOfByte`), and every row counted has a byte (`RowHasByte`).
* *Labs 13 to 16*: all invariants have the form "at this place of the program, the file
  holds this". They must not say anything of the file at the start of a run, since killed
  and failed runs leave anything; so they say what the run has already put right.
  *Lab 13*: `Begins13`, a file this run emptied holds a beginning of the run's own text,
  so `fscanf` cannot meet foreign text in it. *Lab 14*: `File1Has(k)` and
  `File2Has(k)` give every byte after `k` pieces; `PutPiece` says what writing a piece
  does to any file, `Apart` that the records do not overlap. *Lab 15*: `Entries(k)` says that
  the first k files are there and old ones as they were, `Later(k)` what has not been
  touched yet; a number a new file takes belongs to no other entry (`NewInodeIs`). *Lab 16*:
  `InPlace16(step)` says what the file holds before each step of `runLab16`, but for what a
  destructor has lost; `Overwriting` and `SlotBytes` place a record's bytes by multiplication.
* *Dashboard*: `Drawing` (who is between erasing a pane and putting a line there holds
  `renderMutex_`), `Shown` (a pane being drawn is empty, any other shows one thing),
  `Waiting` (a worker in the wait loop is in the queue, so `Front` has something to
  return), `Locked` (the semaphore's lock is held by the worker whose place is inside
  `Down` or `Up`, and by nobody else), `LaidOut` (the windows are those of `layout` from the
  layout to the destructor), `MainAlone` (outside creation and joining no worker has a line
  to write, unless main gave up) and `Asking` (what main waits for is on the console).
  `PanesTile` is arithmetic: `Bands` says that a length
  cut into equal bands, the last of which takes the remainder, is covered by them, each
  position once; `Columns` and `Places` say which row and column each task has,
  `TasksApart` and `BodyCovered` put them together.
* *Lab 20*: `IInv20` carries what is on each device from the step that wrote it to the one
  that reads it, with the case of one path for both; `Blocks` shows that each of the
  copies in a block image is the block, and `TrimmedBlock` that reading up to the first
  zero byte gives back the payload up to its first.

`DataLemmas` holds the facts about queues the first ones rest on, what `En_Q` and `De_Q` do
to the set of values held and to their distinctness, and induction over the naturals in
a form that needs no operator as parameter: a non-empty set of naturals has a least element
(`LeastElement`, from well-foundedness), so a set that has 0 and with each number its
successor is `Nat` (`SetInduction`).

Only model-checked: the liveness properties and the liveness parts of `ImplementsChannel` and
`ReadsBackAndEnds13`, because temporal reasoning about `ENABLED` is out of the prover's
reach. The safety part of the latter is `Lab13ReadsBack`. No module has a RECURSIVE operator.

## 5. Finding

`Lab_23/lab23c_Dining_Philosopher_Starvation_Free.cpp:18` says "Solves deadlock and
starvation for the purposes of this lab". The first half holds:
`SomebodyEats` and the absence of deadlock are checked, `HungryIsHeldUp` and exclusion
are proved. The second does not hold without conditions on timing: `test` looks only at
whether a neighbour is `EATING`, so two philosophers who take turns can keep the one
between them `HUNGRY` for ever, with every runnable thread scheduled. Run `lab23_starvation`
shows the cycle. (The nurse program of the same lab, `lab23.cpp`, has
no such behaviour: `AllMealsServed`, `ServedInOrder`.)

## 6. Not modelled

* *Build files and generated output* (`CMakeLists.txt`, `build/`, `tmp/`, artifacts): no
  behaviour.
* *Threads*: failing `pthread_*` calls other than Lab 10's creation; where they end the
  program at once nothing is left to go wrong. Log lines written after an unlock
  (Lab 21's queue dumps, `lab21_Message_Passing.cpp:258`) may be out of order or
  stale; they are written for a reader and nothing reads them back.
* *Lab 12*: the overflow of the simulated clock (`lab12_Scheduler.cpp:91`) after some
  24 days of simulated work.
* *Dashboard*: what a line looks like, at which row of its pane it stands and where it
  wraps, and with that scrolling; a terminal resized while it runs, and a terminal that fails: on `ERR` or end of input
  both input loops go round for ever, which the model treats as no input at all.
* *Lab 13–16*: pauses, the text of log lines and table rows, the trace file of Lab 14, and
  other processes that change the files while a program runs.
* *Lab 17, 20*: the layout of a line; how what was read is displayed.
* *Lab 18*: the times measured, which are the system's.

* *Hazards no property covers* (`PROJECT.json` lists them with the reason):
  after `GiveUp` workers use a destroyed semaphore and dashboard, which is undefined, and
  no property could hold there; with `-nb` the receiver of Lab 21 may leave a message in
  its mailbox by design.

## 7. What could be added

Liveness by hand: for the lock-free stretches of Lab 12 and the nurse, a variant (a tuple of
counters that falls with every fair step) would turn `WaiterGetsSemaphore` and
`AllMealsServed` into safety statements the prover can take; the step from there to the
temporal formula would still be TLC's. `NothingLostOrReordered` could be split off into an
abstract mailbox as `FifoChannel` is for Lab 11.
