----------------------------- MODULE MCDashboard -----------------------------
(* DashboardPrograms for TLC: the dashboard's sizes, two workers, and terminals
   on both sides of every limit of the layout. *)
EXTENDS DashboardPrograms

MCThreads == {Main} \cup Workers
MCNobody == -2

Terminal(lines, cols) == [lines |-> lines, cols |-> cols, wanted |-> TRUE, tty |-> TRUE]
NoWindows == {[lines |-> 24, cols |-> 80, wanted |-> w, tty |-> ~w] : w \in BOOLEAN}

\* Least heights for one, two and three rows of tasks are 16, 21 and 26.
MCTerminals ==
    [threads  |-> {Terminal(24, 80), [Terminal(24, 80) EXCEPT !.tty = FALSE]},
     commands |-> {Terminal(24, 80), [Terminal(24, 80) EXCEPT !.wanted = FALSE]},
     plain    |-> {Terminal(l, c) : l \in {10, 15, 16, 17, 20, 21, 22, 24, 25, 26, 27, 31, 50},
                                c \in {39, 59, 60, 61, 62, 63, 79, 80, 81, 112, 113, 133}}
                  \cup NoWindows]

MCTaskCounts == [threads |-> {THREAD_COUNT}, commands |-> {3}, plain |-> 1 .. 7]
=============================================================================
