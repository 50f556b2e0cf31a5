----------------------------- MODULE Lab16Inodes -----------------------------
(***************************************************************************)
(* lab16.cpp: the file i-nodes is filled with kInodeCount equal records,   *)
(* two are overwritten in place, records and tables are read back and the  *)
(* last table is written to i-node-dump.txt.  What a function writes       *)
(* leaves the buffer in the stream's destructor, after the function has    *)
(* looked at the stream's state, so a write that fails there is not seen.  *)
(* n is the step of runLab16.  A file is a sequence of pieces of records,  *)
(* i_node_size of them to a record.                                        *)
(***************************************************************************)
EXTENDS FileRuns

CONSTANTS kInodeCount, i_node_size

ASSUME Lab16Assumption == kInodeCount \in Nat /\ kInodeCount > 3 /\ i_node_size \in Nat \ {0}

VARIABLES
    inodeFile,   \* the file i-nodes
    dumpFile,    \* i-node-dump.txt, a row for each record
    table,       \* the last table read
    reads,       \* the records read one by one
    status,      \* what main returned
    lost         \* the steps whose data did not all reach the file

vars16 == <<inodeFile, dumpFile, table, reads, status, lost>>

make_i_node(name) == [i \in 1 .. i_node_size |-> <<name, i>>]

Slots == 0 .. kInodeCount - 1
inode_offset(slot) == slot * i_node_size

Init16 ==
    /\ inodeFile = Missing
    /\ dumpFile = Missing
    /\ table = <<>>
    /\ reads = <<>>
    /\ status = 0
    /\ lost = {}

Start16 ==
    /\ Start(16, "step")
    /\ table' = <<>>
    /\ reads' = <<>>
    /\ status' = 0
    /\ lost' = {}
    /\ UNCHANGED <<inodeFile, dumpFile>>

At16(step) == pc = "step" /\ n = step

\* main's handler of what a function throws.
Throw ==
    /\ Goto("ended", n)
    /\ status' = 1
    /\ UNCHANGED <<inodeFile, dumpFile, table, reads, lost>>

Done(step) == Goto("step", step + 1) /\ UNCHANGED status

\* data on its way from a destructor to the file.
Noted(data, sent) == lost' = IF data = sent THEN lost ELSE lost \cup {n}

init_inode ==
    \/ /\ At16(1)
       /\ inodeFile' = <<>>
       /\ Done(1)
       /\ UNCHANGED <<dumpFile, table, reads, lost>>
    \/ /\ At16(2)
       /\ LET records == [i \in 1 .. kInodeCount * i_node_size |->
                             make_i_node("empty")[((i - 1) % i_node_size) + 1]]
          IN  \E data \in Written(records) : inodeFile' = data /\ Noted(data, records)
       /\ Done(2)
       /\ UNCHANGED <<dumpFile, table, reads>>

\* The steps that write a record, and where.
Target(step) == IF step = 4 THEN 0 ELSE 3
NewRecord(step) == make_i_node(IF step = 4 THEN "file1" ELSE "file2")

write_inode ==
    /\ \E step \in {4, 5} :
          /\ At16(step)
          /\ \E data \in Written(NewRecord(step)) :
                /\ inodeFile' = Overwrite(inodeFile, inode_offset(Target(step)), data)
                /\ Noted(data, NewRecord(step))
          /\ Done(step)
    /\ UNCHANGED <<dumpFile, table, reads>>

\* (Bug) the stream's state is not looked at after the read.
Bug_ShortRead(slot) == TRUE

\* Is there a whole record at slot?
Readable(slot) == inode_offset(slot) + i_node_size <= Len(inodeFile)

\* What is not read stays as i_node{} has it.
Record(slot) == [i \in 1 .. i_node_size |->
    IF inode_offset(slot) + i <= Len(inodeFile) THEN inodeFile[inode_offset(slot) + i] ELSE NUL]

\* What a step reads: both forms of dump_inode read it all, step 10 for the table only.
Wanted(step) ==
    CASE step \in {3, 6, 10} -> Slots
      [] step = 7 -> {2}
      [] step = 8 -> {0}
      [] step = 9 -> {3}
      [] OTHER -> {}

dump_inode ==
    /\ \E step \in {3, 6, 10} : At16(step) /\ Done(step)
    /\ \A slot \in Slots : Readable(slot)
    /\ table' = [slot \in Slots |-> Record(slot)]
    /\ UNCHANGED <<inodeFile, dumpFile, reads, lost>>

read_inode ==
    /\ \E step \in 7 .. 9 :
          /\ At16(step)
          /\ \E slot \in Wanted(step) : Readable(slot) /\ reads' = Append(reads, Record(slot))
          /\ Done(step)
    /\ UNCHANGED <<inodeFile, dumpFile, table, lost>>

\* Its rows are written without a look at the stream's state at all.
write_text_dump ==
    \/ /\ At16(11)
       /\ dumpFile' = <<>>
       /\ Done(11)
       /\ UNCHANGED <<inodeFile, table, reads, lost>>
    \/ /\ At16(12)
       /\ LET rows == [i \in 1 .. kInodeCount |-> table[i - 1]]
          IN  \E data \in Written(rows) : dumpFile' = data /\ Noted(data, rows)
       /\ Goto("ended", n)
       /\ UNCHANGED <<inodeFile, table, reads, status>>

\* A file that cannot be opened, before anything is written, or read.
CannotOpen ==
    /\ ~healthy
    /\ pc = "step"
    /\ n \notin {2, 12}
    /\ Throw

\* A record that is not whole.
ShortRead ==
    /\ pc = "step"
    /\ \E slot \in Wanted(n) : ~Readable(slot)
    /\ Throw

Step16 ==
    /\ program = 16
    /\ \/ init_inode \/ write_inode \/ dump_inode \/ read_inode \/ write_text_dump
       \/ CannotOpen \/ ShortRead

-----------------------------------------------------------------------------

\* When main returns 0 the file holds whole records, and the table and the records it
\* showed are those in the file: the defaults, and file1 and file2 in slots 0 and 3 unless
\* a destructor lost them; the text dump is that table unless it was lost in the same
\* way.  A run in which nothing fails returns 0 and loses nothing.
ReportsTheFile ==
    /\ Ended(16) /\ status = 0 =>
          /\ Len(inodeFile) = kInodeCount * i_node_size
          /\ \A slot \in Slots : table[slot] = Record(slot)
          /\ reads = <<Record(2), Record(0), Record(3)>>
          /\ \A slot \in Slots \ {0, 3} : Record(slot) = make_i_node("empty")
          /\ 4 \notin lost => Record(0) = make_i_node("file1")
          /\ 5 \notin lost => Record(3) = make_i_node("file2")
          /\ 12 \notin lost => \A slot \in Slots : dumpFile[slot + 1] = table[slot]
    /\ Ended(16) /\ healthy => status = 0 /\ lost = {}
=============================================================================
