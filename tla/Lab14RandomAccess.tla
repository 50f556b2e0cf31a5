-------------------------- MODULE Lab14RandomAccess --------------------------
(***************************************************************************)
(* Lab14_Random_Access_IO.cpp: random_file_1.txt is written in three       *)
(* pieces and read forwards and backwards; random_file_2.txt is opened     *)
(* twice, without truncation, for three records each time.  A seekp or the *)
(* final flush takes what was put before it to the file, so a piece is in  *)
(* the file only then.  n is the piece in hand, a byte is a piece's name   *)
(* and a place in it.                                                      *)
(***************************************************************************)
EXTENDS FileRuns

CONSTANT Leftovers14   \* what file 2 may hold before the first run

\* A byte: of the base text, the letters put into it, the tail, a record, what somebody
\* else left, or NUL.
Octets ==
    {"base", "put", "tail", "01", "02", "03", "04", "05", "07", "old", "nul"} \X Nat

ASSUME Lab14Assumption ==
    /\ Leftovers14 \subseteq {Missing} \cup Seq(Octets)
    /\ Missing \notin Seq(Octets)

VARIABLES
    file1, file2,
    before2,      \* file 2 when this run began
    read14        \* what it has read of the file opened last: file 1 both ways, or file 2

vars14 == <<file1, file2, before2, read14>>

Bytes(name, length) == [i \in 1 .. length |-> <<name, i>>]

Piece(offset, name, length) == [offset |-> offset, data |-> Bytes(name, length)]

Pieces ==
    << Piece(0, "base", 79), Piece(38, "put", 10), Piece(100, "tail", 36),
       Piece(0, "01", 10), Piece(20, "03", 10), Piece(40, "05", 10),
       Piece(10, "02", 10), Piece(30, "04", 10), Piece(60, "07", 10) >>

ReadNothing == [forward |-> <<>>, backward |-> <<>>, view |-> <<>>]

Init14 ==
    /\ file1 = Missing
    /\ file2 \in IF program = 14 THEN Leftovers14 ELSE {Missing}
    /\ before2 = file2
    /\ read14 = ReadNothing

Start14 ==
    /\ Start(14, "open")
    /\ before2' = file2
    /\ read14' = ReadNothing
    /\ UNCHANGED <<file1, file2>>

\* What a file holds once it is there.
OrEmpty(file) == IF file = Missing THEN <<>> ELSE file

\* What it may leave: a file that could not be opened for reading is created, which
\* empties one that was there after all.
ensureFileExists(file) == {OrEmpty(file)} \cup IF healthy THEN {} ELSE {<<>>}

\* (Bug) file 2 is opened for output only, which truncates it.
Bug_OpenTruncates ==
    /\ pc = "open"
    /\ IF n = 1 THEN file1' = <<>> /\ UNCHANGED file2
                ELSE file2' = <<>> /\ UNCHANGED file1
    /\ read14' = ReadNothing
    /\ Goto("put", n)
    /\ UNCHANGED before2

\* File 1 is opened with trunc, file 2 with in | out.
Open ==
    /\ pc = "open"
    /\ IF n = 1 THEN file1' = <<>> /\ UNCHANGED file2
                ELSE file2' \in ensureFileExists(file2) /\ UNCHANGED file1
    /\ read14' = ReadNothing
    /\ Goto("put", n)
    /\ UNCHANGED before2

\* What follows the function that puts piece i.
AfterPiece(i) == IF i > 6 THEN Goto("ended", i) ELSE Goto("open", IF i > 3 THEN 7 ELSE 4)

\* file 1 is read whether or not it could be written.
OpenFails ==
    /\ pc = "open"
    /\ ~healthy
    /\ IF n = 1 THEN Goto("read", 3) /\ UNCHANGED file2
                ELSE AfterPiece(n) /\ file2' \in {file2} \cup ensureFileExists(file2)
    /\ read14' = ReadNothing
    /\ UNCHANGED <<file1, before2>>

PutInto(data) ==
    IF n <= 3 THEN file1' = Overwrite(file1, Pieces[n].offset, data) /\ UNCHANGED file2
              ELSE file2' = Overwrite(file2, Pieces[n].offset, data) /\ UNCHANGED file1

Put ==
    /\ pc = "put"
    /\ PutInto(Pieces[n].data)
    /\ IF n % 3 = 0 THEN Goto("read", n) ELSE Goto("put", n + 1)
    /\ UNCHANGED <<before2, read14>>

\* The stream has failed: the other pieces are not put.  The filebuf still holds this
\* one and tries once more, from where it got to, when it is rewound or closed.
PutFails ==
    /\ pc = "put"
    /\ ~healthy
    /\ \E k \in TornLengths, again \in BOOLEAN :
          /\ k < Len(Pieces[n].data)
          /\ PutInto(SubSeq(Pieces[n].data, 1, k) \o IF again THEN Pieces[n].data ELSE <<>>)
    /\ Goto("read", (n + 2) - ((n + 2) % 3))
    /\ UNCHANGED <<before2, read14>>

\* readWholeStream; what cannot be read stays NUL.
readWholeStream(file) == {file} \cup IF healthy THEN {} ELSE {[i \in 1 .. Len(file) |-> NUL]}

\* Seeking from the size down to 1, a byte at a time.
backwards(bytes) == [i \in 1 .. Len(bytes) |-> bytes[Len(bytes) + 1 - i]]

ReadBack ==
    /\ pc = "read"
    /\ \/ /\ n = 3 /\ file1 # Missing
          /\ \E bytes \in readWholeStream(file1), again \in readWholeStream(file1) :
                read14' = [read14 EXCEPT !.forward = bytes, !.backward = backwards(again)]
       \/ /\ n = 3
          /\ file1 = Missing \/ ~healthy
          /\ UNCHANGED read14
       \/ /\ n > 3
          /\ \E bytes \in readWholeStream(file2) : read14' = [read14 EXCEPT !.view = bytes]
    /\ AfterPiece(n)
    /\ UNCHANGED <<file1, file2, before2>>

Step14 ==
    /\ program = 14
    /\ Open \/ OpenFails \/ Put \/ PutFails \/ ReadBack

-----------------------------------------------------------------------------

\* After a run in which nothing fails the first file holds the base text with its first
\* ten lower-case letters replaced, a gap of NULs and the tail, and was read back so in
\* both directions; the second holds records 1 to 5 and 7 in their places, and elsewhere
\* the bytes it held before, or NUL, but never a byte lost.
RecordsInPlace ==
    program = 14 /\ healthy =>
        LET byte1(i) == CASE i \in 38 .. 47   -> <<"put", i - 37>>
                          [] i \in 79 .. 99   -> NUL
                          [] i \in 100 .. 135 -> <<"tail", i - 99>>
                          [] OTHER            -> <<"base", i + 1>>
            size2    == IF before2 = Missing \/ Len(OrEmpty(before2)) < 70 THEN 70 ELSE Len(before2)
            held(i)  == IF i < Len(OrEmpty(before2)) THEN before2[i + 1] ELSE NUL
            byte2(i) == IF i \in 0 .. 49 \/ i \in 60 .. 69
                        THEN <<(<<"01", "02", "03", "04", "05", "06", "07">>)[(i \div 10) + 1], (i % 10) + 1>>
                        ELSE held(i)
        IN  /\ (pc = "open" /\ n = 4) \/ pc = "ended" =>
                  /\ Len(file1) = 136
                  /\ \A i \in 0 .. 135 : file1[i + 1] = byte1(i)
            /\ pc = "open" /\ n = 4 =>
                  /\ read14.forward = file1
                  /\ \A i \in 1 .. 136 : read14.backward[i] = file1[137 - i]
            /\ pc = "ended" =>
                  /\ Len(file2) = size2
                  /\ \A i \in 0 .. size2 - 1 : file2[i + 1] = byte2(i)
                  /\ read14.view = file2
=============================================================================
