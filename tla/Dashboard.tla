------------------------------ MODULE Dashboard ------------------------------
(***************************************************************************)
(* The window dashboard the labs share (lab10_dashboard.cpp): the panes it *)
(* lays out on a terminal, the lines threads write to them under           *)
(* renderMutex_, the prompt and the wait for a key on exit.  The body of a *)
(* pane is a derwin of its frame, whose cells it shares, and every line    *)
(* starts with renderTitle's werase of the frame: a pane shows its latest  *)
(* line alone.  ncurses is not thread-safe: the erasure and the line are   *)
(* two steps here, and what another thread draws in between stays beside   *)
(* the line.  A thread that has lines to write holds them in toLog, the    *)
(* panes they go to, and does nothing else until all are written.  Without *)
(* interactive_ lines go to printf, which locks for itself.                *)
(***************************************************************************)
EXTENDS Integers, Sequences, FiniteSets

CONSTANTS
    kHeaderHeight, kUpperPaneHeight, kMinPaneHeight, kMinPaneWidth, kMinConsoleWidth,
    Threads,   \* threads that use the dashboard
    Nobody     \* no thread

ASSUME DashboardAssumption ==
    /\ \A n \in {kHeaderHeight, kUpperPaneHeight, kMinPaneHeight, kMinPaneWidth, kMinConsoleWidth} :
           n \in Nat \ {0}
    /\ kMinPaneHeight <= kHeaderHeight /\ kMinPaneHeight <= kUpperPaneHeight
    /\ kMinPaneWidth <= kMinConsoleWidth
    /\ Nobody \notin Threads

\* What a terminal may be.
Terms == [lines : Nat, cols : Nat, wanted : BOOLEAN, tty : BOOLEAN]

VARIABLES
    terminal,      \* lines and columns, and whether the windows are wanted and there is a TTY
    taskCount,     \* taskCount_
    cursesReady,   \* cursesReady_
    interactive,   \* interactive_
    panes,         \* the windows there are, with their places
    renderMutex,   \* who holds renderMutex_
    toLog,         \* panes each thread has lines for, in order
    drawing,       \* threads that have erased their pane and not yet put their line there
    screen         \* what each pane shows, in the order it was drawn since the last erasure

dashVars == <<terminal, taskCount, cursesReady, interactive, panes,
              renderMutex, toLog, drawing, screen>>

header == <<"header", 0>>
system == <<"system", 0>>
queue == <<"queue", 0>>
console == <<"console", 0>>
task(i) == <<"task", i>>
Panes == {header, system, queue, console} \cup {task(i) : i \in 0 .. taskCount - 1}

\* What a pane may show: the titles alone, the four default lines of the console, a
\* prompt with what is typed after it, a line of thread t.
titles == <<"titles", 0>>
defaultLines == <<"defaults", 0>>
prompt == <<"prompt", 0>>
line(t) == <<"line", t>>

Least(a, b) == IF a < b THEN a ELSE b
Greatest(a, b) == IF a < b THEN b ELSE a
RoundedUp(a, b) == (a + b - 1) \div b

DashInit ==
    /\ cursesReady = FALSE
    /\ interactive = FALSE
    /\ panes = [p \in {} |-> {}]
    /\ renderMutex = Nobody
    /\ toLog = [t \in Threads |-> <<>>]
    /\ drawing = {}
    /\ screen = [p \in {} |-> <<>>]

-----------------------------------------------------------------------------
(* The layout. *)

bodyTop == kHeaderHeight + kUpperPaneHeight
bodyHeight == terminal.lines - bodyTop
preferredCols == IF taskCount = 1 THEN 1 ELSE IF taskCount <= 4 THEN 2 ELSE 3
taskCols == Greatest(1, Least(preferredCols, Greatest(1, terminal.cols \div kMinPaneWidth)))
taskRows == RoundedUp(taskCount, taskCols)
consoleWidth == Greatest(kMinConsoleWidth, Least(28, terminal.cols \div 4))
systemWidth == (terminal.cols - consoleWidth) \div 2
sharedWidth == terminal.cols - consoleWidth - systemWidth

\* (Bug) the height is compared with that of one row of task panes.
Bug_OneRowFits ==
    /\ bodyHeight >= kMinPaneHeight
    /\ systemWidth >= kMinPaneWidth
    /\ sharedWidth >= kMinPaneWidth

\* buildLayout throws unless the terminal has room.
Fits ==
    /\ bodyHeight >= taskRows * kMinPaneHeight
    /\ systemWidth >= kMinPaneWidth
    /\ sharedWidth >= kMinPaneWidth

newwin(h, w, y, x) == [height |-> h, width |-> w, y |-> y, x |-> x]

taskPane(i) ==
    LET row == i \div taskCols
        col == i % taskCols
        paneY == bodyTop + row * (bodyHeight \div taskRows)
        paneX == col * (terminal.cols \div taskCols)
    IN newwin(IF row = taskRows - 1 THEN terminal.lines - paneY ELSE bodyHeight \div taskRows,
              IF col = taskCols - 1 THEN terminal.cols - paneX ELSE terminal.cols \div taskCols,
              paneY, paneX)

layout == [p \in Panes |->
    CASE p = header  -> newwin(kHeaderHeight, terminal.cols, 0, 0)
      [] p = system  -> newwin(kUpperPaneHeight, systemWidth, kHeaderHeight, 0)
      [] p = queue   -> newwin(kUpperPaneHeight, sharedWidth, kHeaderHeight, systemWidth)
      [] p = console -> newwin(kUpperPaneHeight, consoleWidth, kHeaderHeight, systemWidth + sharedWidth)
      [] OTHER       -> taskPane(p[2])]

-----------------------------------------------------------------------------
(* Construction and destruction, by the main thread. *)

\* The constructor up to initscr, where it gets that far.
InitializeCurses ==
    /\ cursesReady' = (terminal.wanted /\ terminal.tty)
    /\ UNCHANGED <<terminal, taskCount, interactive, panes, renderMutex, toLog, drawing, screen>>

\* The rest of it; an exception ends curses and falls back to the transcript.
buildLayout(t) ==
    /\ IF cursesReady /\ Fits
       THEN /\ panes' = layout
            /\ screen' = [p \in Panes |-> IF p = console THEN <<defaultLines>> ELSE <<titles>>]
            /\ interactive' = TRUE
            /\ toLog' = [toLog EXCEPT ![t] = <<system>>]
            /\ UNCHANGED cursesReady
       ELSE /\ cursesReady' = FALSE
            /\ UNCHANGED <<interactive, panes, toLog, screen>>
    /\ UNCHANGED <<terminal, taskCount, renderMutex, drawing>>

\* The destructor.
DestroyPanes ==
    /\ cursesReady => renderMutex = Nobody
    /\ panes' = [p \in {} |-> {}]
    /\ screen' = [p \in {} |-> <<>>]
    /\ cursesReady' = FALSE
    /\ UNCHANGED <<terminal, taskCount, interactive, renderMutex, toLog, drawing>>

-----------------------------------------------------------------------------
(* Lines. *)

clampTaskId(i) == Greatest(0, Least(i, taskCount - 1))

logTask(i) == <<task(clampTaskId(i))>>
sendTaskMessage(from, to) == logTask(from) \o logTask(to) \o <<system>>

\* t has nothing left to write.
Quiet(t) == toLog[t] = <<>>

\* screen with nothing but these drawings on pane; a window that has been destroyed
\* shows nothing.
Showing(pane, drawings) ==
    IF pane \in DOMAIN panes THEN [screen EXCEPT ![pane] = drawings] ELSE screen

\* (Bug) draws without taking the mutex.
Bug_NoLock(t) ==
    /\ interactive /\ ~Quiet(t) /\ t \notin drawing
    /\ drawing' = drawing \cup {t}
    /\ screen' = Showing(Head(toLog[t]), <<>>)
    /\ UNCHANGED <<terminal, taskCount, cursesReady, interactive, panes, renderMutex, toLog>>

\* A call takes the mutex and erases the whole pane, as the first part of appendLine.
renderTitle(t) ==
    /\ interactive /\ ~Quiet(t) /\ t \notin drawing
    /\ renderMutex = Nobody
    /\ renderMutex' = t
    /\ drawing' = drawing \cup {t}
    /\ screen' = Showing(Head(toLog[t]), <<>>)
    /\ UNCHANGED <<terminal, taskCount, cursesReady, interactive, panes, toLog>>

\* The rest of appendLine, and the end of the call.
appendLine(t) ==
    /\ t \in drawing
    /\ LET pane == Head(toLog[t]) IN
         screen' = IF pane \in DOMAIN panes THEN Showing(pane, Append(screen[pane], line(t))) ELSE screen
    /\ toLog' = [toLog EXCEPT ![t] = Tail(@)]
    /\ drawing' = drawing \ {t}
    /\ renderMutex' = Nobody
    /\ UNCHANGED <<terminal, taskCount, cursesReady, interactive, panes>>

PrintLine(t) ==
    /\ ~interactive /\ ~Quiet(t)
    /\ toLog' = [toLog EXCEPT ![t] = Tail(@)]
    /\ UNCHANGED <<terminal, taskCount, cursesReady, interactive, panes, renderMutex, drawing, screen>>

WriteLine(t) == renderTitle(t) \/ appendLine(t) \/ PrintLine(t)

\* t, which is quiet, goes on with these lines to write.
Log(t, lines) ==
    /\ toLog' = [toLog EXCEPT ![t] = lines]
    /\ UNCHANGED <<terminal, taskCount, cursesReady, interactive, panes, renderMutex, drawing, screen>>

-----------------------------------------------------------------------------
(* Input, always on the console. *)

\* t takes the mutex, which it holds until there is input, with this on the screen.
Await(t, shown) ==
    /\ renderMutex = Nobody
    /\ renderMutex' = t
    /\ screen' = shown
    /\ UNCHANGED <<terminal, taskCount, cursesReady, interactive, panes, toLog, drawing>>

\* The input is there; t leaves this on the screen and has these lines to write next.
Answered(t, shown, lines) ==
    /\ renderMutex' = Nobody
    /\ screen' = shown
    /\ toLog' = [toLog EXCEPT ![t] = lines]
    /\ UNCHANGED <<terminal, taskCount, cursesReady, interactive, panes, drawing>>

\* promptInput erases the console for the prompt, and once there is a line of input
\* erases it again for the default lines.
promptLine == Showing(console, <<prompt>>)
refreshConsole == Showing(console, <<defaultLines>>)
=============================================================================
