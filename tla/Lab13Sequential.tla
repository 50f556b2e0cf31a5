--------------------------- MODULE Lab13Sequential ---------------------------
(***************************************************************************)
(* Lab13_Sequential_IO.cpp: four files, each written and then read by two  *)
(* functions.  n is the file in hand: characters and numbers through C++   *)
(* streams, then characters and numbers through C stdio.  A file is the    *)
(* sequence of its tokens, each a single character.                        *)
(***************************************************************************)
EXTENDS FileRuns

CONSTANT Leftovers13   \* what the files may hold before the first run

VARIABLES
    files13,   \* the four files
    emptied,   \* has this run opened the file in hand for writing?
    pos,       \* where the reader is in its file
    shown      \* what it has read and logged of the file read last

vars13 == <<files13, emptied, pos, shown>>

Files13 == 1 .. 4
Numbers == {"1", "2", "3", "4", "5"}
Letters == {"A", "B", "C", "D", "E"}

ASSUME Lab13Assumption == Missing \notin Seq(Letters \cup Numbers)

numbersFile(f) == f \in {2, 4}
C(f) == f \in {3, 4}

Text13(f) == IF numbersFile(f) THEN <<"1", "2", "3", "4", "5">> ELSE <<"A", "B", "C", "D", "E">>

Init13 ==
    /\ files13 \in [Files13 -> IF program = 13 THEN Leftovers13 ELSE {Missing}]
    /\ emptied = FALSE
    /\ pos = 1
    /\ shown = <<>>

NextFile == IF n = 4 THEN Goto("ended", n) ELSE Goto("openw", n + 1)

Start13 ==
    /\ Start(13, "openw")
    /\ emptied' = FALSE
    /\ pos' = 1
    /\ shown' = <<>>
    /\ UNCHANGED files13

\* A writer: opening truncates, and the text leaves the buffer when the file is closed.
OpenForWriting ==
    /\ pc = "openw"
    /\ \/ /\ files13' = [files13 EXCEPT ![n] = <<>>]
          /\ emptied' = TRUE
          /\ Goto("close", n)
       \/ /\ ~healthy
          /\ Goto("openr", n)
          /\ emptied' = FALSE
          /\ UNCHANGED files13
    /\ UNCHANGED <<pos, shown>>

CloseWritten ==
    /\ pc = "close"
    /\ \E text \in Written(Text13(n)) : files13' = [files13 EXCEPT ![n] = text]
    /\ Goto("openr", n)
    /\ UNCHANGED <<emptied, pos, shown>>

\* A reader that cannot open its file is done with it.
OpenForReading ==
    /\ pc = "openr"
    /\ \/ /\ files13[n] # Missing
          /\ Goto("read", n)
       \/ /\ files13[n] = Missing \/ ~healthy
          /\ NextFile
    /\ pos' = 1
    /\ shown' = <<>>
    /\ UNCHANGED <<files13, emptied>>

Item == files13[n][pos]
AtEnd == pos > Len(files13[n])

ReadItem ==
    /\ pc = "read"
    /\ ~AtEnd
    /\ (numbersFile(n) => Item \in Numbers)
    /\ shown' = Append(shown, Item)
    /\ pos' = pos + 1
    /\ UNCHANGED <<files13, emptied, runVars>>

\* (Bug) the C++ reader of numbers tests for the end of the file too.
Bug_TestsEof ==
    /\ pc = "read"
    /\ AtEnd
    /\ NextFile
    /\ UNCHANGED vars13

\* The loops end at the end of the file or a read error; inFile >> number also ends at what is not a
\* number.  fscanf returns 0 there, which is not EOF, and logs the last number again.
EndReading ==
    /\ pc = "read"
    /\ ~AtEnd => ~healthy \/ (numbersFile(n) /\ ~C(n) /\ Item \notin Numbers)
    /\ NextFile
    /\ UNCHANGED vars13

Step13 ==
    /\ program = 13
    /\ OpenForWriting \/ CloseWritten \/ OpenForReading \/ ReadItem \/ EndReading

-----------------------------------------------------------------------------

\* read_numbers_C at something that is not a number.
ReadsForEver == program = 13 /\ pc = "read" /\ n = 4 /\ ~AtEnd /\ Item \notin Numbers

\* A run in which nothing fails logs of each file the text it wrote, whatever was there
\* before; and what makes fscanf read for ever is never what this run wrote.
ReadsBack13 ==
    /\ program = 13 /\ pc = "openw" /\ n > 1 /\ healthy => shown = Text13(n - 1)
    /\ Ended(13) /\ healthy => shown = Text13(4)
    /\ ReadsForEver => ~emptied

\* A run reads back what it wrote, and ends unless it reads, with fscanf, a file of numbers
\* it could not open for writing and that somebody else left with something that is not a
\* number.
ReadsBackAndEnds13 ==
    /\ []ReadsBack13
    /\ []<>(program = 13 => ~Running \/ ReadsForEver)
=============================================================================
