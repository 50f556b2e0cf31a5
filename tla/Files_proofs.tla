---------------------------- MODULE Files_proofs ----------------------------
(***************************************************************************)
(* The file labs: what Labs 13 to 16 leave in their files and report of    *)
(* them, whatever was there before, and the hex viewer of Lab_17, for every *)
(* file size, line length and terminal.                                    *)
(***************************************************************************)
EXTENDS FileLabs, Lab17HexViewer, DataLemmas, FiniteSetTheorems

-----------------------------------------------------------------------------
(* Labs 13 to 16: one program runs *)

\* A step is a step of the program that runs.
LEMMA OneProgram ==
    ASSUME [Next]_vars
    PROVE  /\ program' = program
           /\ \/ UNCHANGED vars
              \/ Killed
              \/ program = 13 /\ Program13
              \/ program = 14 /\ Program14
              \/ program = 15 /\ Program15
              \/ program = 16 /\ Program16
  <1>1. CASE UNCHANGED vars
    BY <1>1 DEF vars, runVars
  <1>2. CASE Program13
    <2>1. program = 13
      BY <1>2 DEF Program13, Start13, Start, Step13
    <2>2. program' = program
      <3>1. Start13 \/ Step13
        BY <1>2 DEF Program13
      <3>2. CASE Start13
        BY <3>2 DEF Start13, Start
      <3>3. CASE Step13
        BY <3>3 DEF Step13, OpenForWriting, CloseWritten, OpenForReading, ReadItem, EndReading,
                    NextFile, Goto, runVars
      <3> QED
        BY <3>1, <3>2, <3>3
    <2> QED
      BY <1>2, <2>1, <2>2
  <1>3. CASE Program14
    <2>1. program = 14
      BY <1>3 DEF Program14, Start14, Start, Step14
    <2>2. program' = program
      <3>1. Start14 \/ Step14
        BY <1>3 DEF Program14
      <3>2. CASE Start14
        BY <3>2 DEF Start14, Start
      <3>3. CASE Step14
        BY <3>3 DEF Step14, Open, OpenFails, Put, PutFails, ReadBack, AfterPiece, Goto
      <3> QED
        BY <3>1, <3>2, <3>3
    <2> QED
      BY <1>3, <2>1, <2>2
  <1>4. CASE Program15
    <2>1. program = 15
      BY <1>4 DEF Program15, Start15, Remove, Start, Step15
    <2>2. program' = program
      <3>1. Start15 \/ Remove \/ Step15
        BY <1>4 DEF Program15
      <3>2. CASE Start15
        BY <3>2 DEF Start15, Start
      <3>3. CASE Remove
        BY <3>3 DEF Remove
      <3>4. CASE Step15
        BY <3>4 DEF Step15, PrepareFails, Check, OpenNew, CloseNew, SetMode, NextFixture,
                    createHardLinkIfMissing, createSymlinkIfMissing, collectSnapshot, Goto
      <3> QED
        BY <3>1, <3>2, <3>3, <3>4
    <2> QED
      BY <1>4, <2>1, <2>2
  <1>5. CASE Program16
    <2>1. program = 16
      BY <1>5 DEF Program16, Start16, Start, Step16
    <2>2. program' = program
      <3>1. Start16 \/ Step16
        BY <1>5 DEF Program16
      <3>2. CASE Start16
        BY <3>2 DEF Start16, Start
      <3>3. CASE Step16
        BY <3>3 DEF Step16, init_inode, write_inode, dump_inode, read_inode, write_text_dump,
                    CannotOpen, ShortRead, Throw, Done, Goto
      <3> QED
        BY <3>1, <3>2, <3>3
    <2> QED
      BY <1>5, <2>1, <2>2
  <1>6. CASE Killed
    BY <1>6 DEF Killed, Kill
  <1> QED
    BY <1>1, <1>2, <1>3, <1>4, <1>5, <1>6 DEF Next, Rest

\* Overwrite writes the data at the offset, keeps what is elsewhere, and fills a gap
\* with NUL.
LEMMA Overwriting ==
    ASSUME NEW S, NUL \in S, NEW contents \in Seq(S), NEW data \in Seq(S), NEW offset \in Nat
    PROVE  LET end == offset + Len(data)
               size == IF Len(contents) < end THEN end ELSE Len(contents)
               result == Overwrite(contents, offset, data)
           IN  /\ result \in Seq(S)
               /\ Len(result) = size
               /\ \A i \in 1 .. size : result[i] =
                     IF i \in offset + 1 .. end THEN data[i - offset]
                     ELSE IF i <= Len(contents) THEN contents[i] ELSE NUL
  <1> DEFINE end == offset + Len(data)
             size == IF Len(contents) < end THEN end ELSE Len(contents)
             result == Overwrite(contents, offset, data)
             byte(i) == IF i \in offset + 1 .. end THEN data[i - offset]
                        ELSE IF i <= Len(contents) THEN contents[i] ELSE NUL
  <1>1. end \in Nat /\ size \in Nat /\ end <= size /\ Len(contents) <= size
    OBVIOUS
  <1>2. ASSUME NEW i \in 1 .. size PROVE byte(i) \in S
    <2>1. CASE i \in offset + 1 .. end
      <3>1. i - offset \in 1 .. Len(data)
        BY <2>1
      <3> QED
        BY <2>1, <3>1
    <2> QED
      BY <2>1
  <1>3. result = [i \in 1 .. size |-> byte(i)]
    BY DEF Overwrite
  <1>4. result \in Seq(S) /\ Len(result) = size
    <2> HIDE DEF byte, size
    <2>1. result \in [1 .. size -> S]
      BY <1>2, <1>3
    <2> QED
      BY <1>1, <1>3, <2>1
  <1>5. \A i \in 1 .. size : result[i] = byte(i)
    BY <1>3
  <1> QED
    BY <1>4, <1>5

\* Where the bytes of a slot are: after the slots before it, within the file, and each at
\* its place in the record.
LEMMA SlotBytes ==
    ASSUME NEW s \in Slots, NEW i \in 1 .. i_node_size
    PROVE  /\ inode_offset(s) \in Nat
           /\ s >= 1 => inode_offset(s) >= i_node_size
           /\ s <= 2 => inode_offset(s) + i_node_size <= inode_offset(3)
           /\ s >= 4 => inode_offset(s) >= inode_offset(3) + i_node_size
           /\ inode_offset(s) + i_node_size <= kInodeCount * i_node_size
           /\ ((inode_offset(s) + i) - 1) % i_node_size = i - 1
  <1>1. s \in Nat /\ s <= kInodeCount - 1 /\ kInodeCount \in Nat /\ i_node_size \in Nat
        /\ i_node_size > 0 /\ kInodeCount > 3
    BY Lab16Assumption DEF Slots
  <1> DEFINE z == i_node_size
  <1>2. \A a, b \in Nat : a <= b => a * z \in Nat /\ a * z <= b * z
    BY <1>1
  <1>3. (s + 1) * z = s * z + z /\ s * z \in Nat
    BY <1>1
  <1>4. s >= 1 => s * z >= z
    BY <1>1, <1>2
  <1>5. s <= 2 => s * z + z <= 3 * z
    BY <1>1
  <1>6. s >= 4 => s * z >= 3 * z + z
    <2>1. s >= 4 => s * z >= 4 * z
      BY <1>1, <1>2
    <2> QED
      BY <2>1, <1>1
  <1>7. s * z + z <= kInodeCount * z
    <2>1. (s + 1) * z <= kInodeCount * z
      BY <1>1, <1>2
    <2> QED
      BY <2>1, <1>3
  <1>8. ((s * z + i) - 1) % z = i - 1
    <2> DEFINE x == (s * z + i) - 1
               q == x \div z
               r == x % z
    <2>1. x \in Nat /\ q \in Int /\ r \in 0 .. z - 1 /\ x = q * z + r
      BY <1>1, <1>3
    <2> HIDE DEF q, r
    <2>2. CASE q <= s - 1
      <3>1. (q + 1) * z <= s * z
        BY <1>1, <2>1, <2>2
      <3>2. (q + 1) * z = q * z + z
        BY <1>1, <2>1
      <3> QED
        BY <1>1, <1>3, <2>1, <3>1, <3>2
    <2>3. CASE q >= s + 1
      <3>1. (s + 1) * z <= q * z
        BY <1>1, <2>1, <2>3
      <3> QED
        BY <1>1, <1>3, <2>1, <3>1
    <2>4. CASE q = s
      BY <1>1, <1>3, <2>1, <2>4 DEF r
    <2> QED
      BY <1>1, <2>1, <2>2, <2>3, <2>4
  <1> QED
    BY <1>3, <1>4, <1>5, <1>6, <1>7, <1>8 DEF inode_offset

-----------------------------------------------------------------------------
(* Lab_16. *)

\* What the i-node file holds: the bytes of the records of a run, by record and place.
RecordPieces == {"nul", "empty", "file1", "file2"} \X Nat

\* The record init_inode writes into every slot.
empty == make_i_node("empty")

\* The file while init_inode writes it: the beginning of the default records.
Begun ==
    /\ inodeFile \in Seq(RecordPieces)
    /\ Len(inodeFile) <= kInodeCount * i_node_size
    /\ \A i \in 1 .. Len(inodeFile) : inodeFile[i] = empty[((i - 1) % i_node_size) + 1]

\* The file afterwards, at the given step: whole, and default but for the two slots.
InPlace16(step) ==
    /\ inodeFile \in Seq(RecordPieces)
    /\ Len(inodeFile) = kInodeCount * i_node_size
    /\ \A slot \in Slots \ {0, 3} : Record(slot) = empty
    /\ step = 4 => Record(0) = empty /\ Record(3) = empty
    /\ step >= 5 /\ 4 \notin lost => Record(0) = make_i_node("file1")
    /\ step >= 6 /\ 5 \notin lost => Record(3) = make_i_node("file2")

\* What has been read of it.
Read16(step) ==
    /\ reads = CASE step <= 7 -> <<>>
                 [] step = 8 -> <<Record(2)>>
                 [] step = 9 -> <<Record(2), Record(0)>>
                 [] OTHER -> <<Record(2), Record(0), Record(3)>>
    /\ step >= 11 => table = [slot \in Slots |-> Record(slot)]

\* A run of Lab_16 at a step, nothing having been thrown so far.
AtStep16 ==
    /\ status = 0
    /\ n \in 1 .. 12
    /\ n = 2 => inodeFile = <<>>
    /\ n = 3 => Begun
    /\ n = 3 /\ healthy => Len(inodeFile) = kInodeCount * i_node_size
    /\ n >= 4 => InPlace16(n)
    /\ Read16(n)

\* Inductive: the above between two steps, and what the last step leaves.
IInv16 ==
    program = 16 =>
        /\ healthy \in BOOLEAN
        /\ pc \in {"idle", "step", "ended", "killed"}
        /\ pc = "step" => AtStep16
        /\ pc = "ended" /\ status = 0 =>
              /\ AtStep16
              /\ n = 12
              /\ 12 \notin lost => \A slot \in Slots : dumpFile[slot + 1] = table[slot]
        /\ pc \in {"step", "ended"} /\ healthy => status = 0 /\ lost = {}

\* A file of full length has every record, and a record is its bytes.
LEMMA RecordOfWhole ==
    ASSUME inodeFile \in Seq(RecordPieces), Len(inodeFile) = kInodeCount * i_node_size,
           NEW slot \in Slots
    PROVE  /\ Readable(slot)
           /\ Record(slot) = [i \in 1 .. i_node_size |-> inodeFile[inode_offset(slot) + i]]
  <1>0. i_node_size \in Nat /\ i_node_size > 0
    BY Lab16Assumption
  <1>1. ASSUME NEW i \in 1 .. i_node_size
        PROVE  /\ inode_offset(slot) + i <= Len(inodeFile)
               /\ inode_offset(slot) + i_node_size <= Len(inodeFile)
    BY <1>0, <1>1, SlotBytes
  <1>2. Readable(slot)
    BY <1>0, <1>1 DEF Readable
  <1> QED
    BY <1>1, <1>2 DEF Record

\* A step that leaves the file alone leaves its records.
LEMMA SameRecord ==
    ASSUME inodeFile' = inodeFile, NEW slot
    PROVE  Record(slot)' = Record(slot) /\ Readable(slot)' = Readable(slot)
  BY DEF Record, Readable, inode_offset

\* A record as make_i_node makes it.
LEMMA RecordPiecesOf ==
    ASSUME NEW name \in {"empty", "file1", "file2"}
    PROVE  /\ make_i_node(name) \in Seq(RecordPieces)
           /\ Len(make_i_node(name)) = i_node_size
           /\ \A i \in 1 .. i_node_size : make_i_node(name)[i] = <<name, i>>
  <1>1. i_node_size \in Nat
    BY Lab16Assumption
  <1>2. \A i \in 1 .. i_node_size : <<name, i>> \in RecordPieces
    BY DEF RecordPieces
  <1>3. make_i_node(name) \in [1 .. i_node_size -> RecordPieces]
    BY <1>2 DEF make_i_node
  <1> QED
    BY <1>1, <1>3 DEF make_i_node

\* What reaches the file of data, all or a beginning of it.
LEMMA WrittenPart ==
    ASSUME NEW S, NEW sent \in Seq(S), NEW data \in Written(sent)
    PROVE  /\ data \in Seq(S)
           /\ Len(data) <= Len(sent)
           /\ \A i \in 1 .. Len(data) : data[i] = sent[i]
           /\ healthy => data = sent
  <1>1. CASE data = sent
    BY <1>1
  <1>2. ASSUME NEW k \in TornLengths, k < Len(sent), data = SubSeq(sent, 1, k), ~healthy
        PROVE  /\ data \in Seq(S)
               /\ Len(data) <= Len(sent)
               /\ \A i \in 1 .. Len(data) : data[i] = sent[i]
    <2>1. k \in Nat
      BY FileRunsAssumption
    <2> QED
      BY <1>2, <2>1, SubSeqProperties
  <1> QED
    BY <1>1, <1>2 DEF Written

\* A run begins with fresh tables and no step behind it.
LEMMA Start16Inv == ASSUME IInv16, Start16 PROVE IInv16'
  <1>1. /\ program' = program /\ healthy' \in BOOLEAN /\ pc' = "step" /\ n' = 1
        /\ status' = 0 /\ lost' = {} /\ reads' = <<>>
    BY DEF Start16, Start, IInv16
  <1>2. AtStep16'
    BY <1>1 DEF AtStep16, Read16
  <1> QED
    BY <1>1, <1>2 DEF IInv16

\* The steps of Lab_16, one lemma each.
LEMMA InitInodeInv == ASSUME IInv16, program = 16, init_inode PROVE IInv16'
  <1> USE DEF At16
  <1>1. CASE At16(1)
    <2>1. /\ program' = 16 /\ healthy' = healthy /\ pc = "step" /\ n = 1 /\ pc' = "step" /\ n' = 2
          /\ status' = status /\ lost' = lost /\ reads' = reads /\ inodeFile' = <<>>
      BY <1>1 DEF init_inode, Done, Goto
    <2>2. AtStep16'
      BY <2>1 DEF IInv16, AtStep16, Read16
    <2> QED
      BY <2>1, <2>2 DEF IInv16
  <1>2. CASE At16(2)
    <2> DEFINE size == kInodeCount * i_node_size
               records == [i \in 1 .. size |-> empty[((i - 1) % i_node_size) + 1]]
    <2>1. /\ program' = 16 /\ healthy' = healthy /\ pc = "step" /\ n = 2 /\ pc' = "step" /\ n' = 3
          /\ status' = status /\ reads' = reads
      BY <1>2 DEF init_inode, Done, Goto
    <2>2. PICK data \in Written(records) : inodeFile' = data /\ Noted(data, records)
      BY <1>2 DEF init_inode, empty
    <2>3. size \in Nat /\ i_node_size \in Nat \ {0}
      BY Lab16Assumption
    <2>4. \A i \in 1 .. size : empty[((i - 1) % i_node_size) + 1] \in RecordPieces
      <3>1. ASSUME NEW i \in 1 .. size PROVE ((i - 1) % i_node_size) + 1 \in 1 .. i_node_size
        BY <2>3
      <3> QED
        BY <3>1, RecordPiecesOf DEF empty
    <2>5. records \in Seq(RecordPieces) /\ Len(records) = size
      <3>1. records \in [1 .. size -> RecordPieces]
        BY <2>4
      <3> HIDE DEF size
      <3> QED
        BY <2>3, <3>1
    <2>11. \A i \in 1 .. size : records[i] = empty[((i - 1) % i_node_size) + 1]
      OBVIOUS
    <2> HIDE DEF records
    <2>6. /\ data \in Seq(RecordPieces) /\ Len(data) <= Len(records)
          /\ \A i \in 1 .. Len(data) : data[i] = records[i]
          /\ healthy => data = records
      BY <2>2, <2>5, WrittenPart
    <2>7. Begun'
      <3>1. \A i \in 1 .. Len(data) : data[i] = empty[((i - 1) % i_node_size) + 1]
        BY <2>3, <2>5, <2>6, <2>11
      <3> QED
        BY <2>2, <2>5, <2>6, <3>1 DEF Begun, empty, make_i_node
    <2>8. healthy => Len(inodeFile') = size /\ lost' = lost
      BY <2>2, <2>5, <2>6 DEF Noted
    <2>9. AtStep16'
      BY <2>1, <2>7, <2>8 DEF IInv16, AtStep16, Read16
    <2> QED
      BY <2>1, <2>8, <2>9 DEF IInv16
  <1> QED
    BY <1>1, <1>2 DEF init_inode

\* Writing a record in place, or part of one, keeps the file whole and the other records.
LEMMA WriteRecord ==
    ASSUME inodeFile \in Seq(RecordPieces), Len(inodeFile) = kInodeCount * i_node_size,
           NEW target \in {0, 3}, NEW name \in {"file1", "file2"},
           NEW data \in Written(make_i_node(name)),
           inodeFile' = Overwrite(inodeFile, inode_offset(target), data)
    PROVE  /\ inodeFile' \in Seq(RecordPieces)
           /\ Len(inodeFile') = kInodeCount * i_node_size
           /\ \A slot \in Slots \ {target} : Record(slot)' = Record(slot)
           /\ data = make_i_node(name) => Record(target)' = make_i_node(name)
  <1> DEFINE z == i_node_size
             base == inode_offset(target)
             size == kInodeCount * z
  <1>1. /\ z \in Nat /\ z > 0 /\ size \in Nat /\ target \in Slots /\ 3 \in Slots /\ Slots \subseteq Nat
    BY Lab16Assumption DEF Slots
  <1>2. base \in Nat /\ base + z <= size
    <2>1. z \in 1 .. i_node_size
      BY <1>1
    <2> QED
      BY <1>1, <2>1, SlotBytes
  <1>3. /\ data \in Seq(RecordPieces) /\ Len(data) <= z
        /\ \A i \in 1 .. Len(data) : data[i] = <<name, i>>
    <2>1. /\ data \in Seq(RecordPieces) /\ Len(data) <= Len(make_i_node(name))
          /\ \A i \in 1 .. Len(data) : data[i] = make_i_node(name)[i]
      BY RecordPiecesOf, WrittenPart
    <2> QED
      BY <1>1, <2>1, RecordPiecesOf
  <1>4. NUL \in RecordPieces
    BY DEF NUL, RecordPieces
  <1>5. base + Len(data) <= Len(inodeFile) /\ base + Len(data) \in Nat
    BY <1>1, <1>2, <1>3
  <1> HIDE DEF base, size
  <1>6. /\ inodeFile' \in Seq(RecordPieces)
        /\ Len(inodeFile') = Len(inodeFile)
        /\ \A i \in 1 .. Len(inodeFile) : inodeFile'[i] =
              IF i \in base + 1 .. base + Len(data) THEN data[i - base] ELSE inodeFile[i]
    <2> DEFINE end == base + Len(data)
               full == IF Len(inodeFile) < end THEN end ELSE Len(inodeFile)
               result == Overwrite(inodeFile, base, data)
    <2>1. /\ result \in Seq(RecordPieces)
          /\ Len(result) = full
          /\ \A i \in 1 .. full : result[i] =
                IF i \in base + 1 .. end THEN data[i - base]
                ELSE IF i <= Len(inodeFile) THEN inodeFile[i] ELSE NUL
      BY <1>2, <1>3, <1>4, Overwriting DEF base
    <2>2. full = Len(inodeFile)
      BY <1>5
    <2>3. inodeFile' = result
      BY DEF base
    <2> HIDE DEF full, result
    <2> QED
      BY <2>1, <2>2, <2>3
  <1>7. ASSUME NEW slot \in Slots \ {target} PROVE Record(slot)' = Record(slot)
    <2>1. ASSUME NEW i \in 1 .. z
          PROVE  inodeFile'[inode_offset(slot) + i] = inodeFile[inode_offset(slot) + i]
      <3>1. /\ inode_offset(slot) \in Nat
            /\ inode_offset(slot) + z <= size
            /\ slot >= 1 => inode_offset(slot) >= z
            /\ slot <= 2 => inode_offset(slot) + z <= inode_offset(3)
            /\ slot >= 4 => inode_offset(slot) >= inode_offset(3) + z
        BY <2>1, SlotBytes DEF size
      <3>2. inode_offset(slot) + i \in 1 .. Len(inodeFile)
        BY <1>1, <3>1 DEF size
      <3>3. inode_offset(0) = 0 /\ inode_offset(3) \in Nat
        BY <1>1 DEF inode_offset
      <3>4. inode_offset(slot) + i \notin base + 1 .. base + Len(data)
        <4>1. CASE target = 0
          <5>1. slot >= 1
            BY <1>1, <4>1
          <5> QED
            BY <1>1, <1>3, <3>1, <3>3, <4>1, <5>1 DEF base
        <4>2. CASE target = 3
          <5>1. slot <= 2 \/ slot >= 4
            BY <1>1, <4>2
          <5> QED
            BY <1>1, <1>3, <3>1, <3>3, <4>2, <5>1 DEF base
        <4> QED
          BY <4>1, <4>2
      <3> QED
        BY <1>6, <3>2, <3>4
    <2>2. /\ Record(slot) = [i \in 1 .. z |-> inodeFile[inode_offset(slot) + i]]
          /\ Record(slot)' = [i \in 1 .. z |-> inodeFile'[inode_offset(slot) + i]]
      <3>1. Record(slot)' = [i \in 1 .. z |->
                IF inode_offset(slot) + i <= Len(inodeFile') THEN inodeFile'[inode_offset(slot) + i] ELSE NUL]
        BY DEF Record, inode_offset
      <3>2. ASSUME NEW i \in 1 .. z PROVE inode_offset(slot) + i <= Len(inodeFile')
        <4>1. inode_offset(slot) \in Nat /\ inode_offset(slot) + z <= kInodeCount * z
          BY <3>2, SlotBytes
        <4>2. Len(inodeFile') = kInodeCount * z
          BY <1>6
        <4>3. PICK offset, all : offset = inode_offset(slot) /\ all = kInodeCount * z
          OBVIOUS
        <4>4. offset + i <= all
          BY <1>1, <4>1, <4>3
        <4> QED
          BY <4>2, <4>3, <4>4
      <3>3. Record(slot)' = [i \in 1 .. z |-> inodeFile'[inode_offset(slot) + i]]
        BY <3>1, <3>2
      <3> QED
        BY <3>3, RecordOfWhole
    <2> QED
      BY <2>1, <2>2
  <1>8. ASSUME data = make_i_node(name) PROVE Record(target)' = make_i_node(name)
    <2>1. Len(data) = z
      BY <1>8, RecordPiecesOf
    <2>2. \A i \in 1 .. z : base + i <= Len(inodeFile) /\ inodeFile'[base + i] = <<name, i>>
      BY <1>1, <1>2, <1>3, <1>6, <2>1 DEF size
    <2>3. Record(target)' = [i \in 1 .. z |->
              IF base + i <= Len(inodeFile') THEN inodeFile'[base + i] ELSE NUL]
      BY DEF Record, inode_offset, base
    <2> QED
      BY <1>6, <2>2, <2>3 DEF make_i_node
  <1> QED
    BY <1>6, <1>7, <1>8 DEF size

LEMMA WriteInodeInv == ASSUME IInv16, program = 16, write_inode PROVE IInv16'
  <1>1. PICK step \in {4, 5} :
           /\ At16(step)
           /\ \E data \in Written(NewRecord(step)) :
                 /\ inodeFile' = Overwrite(inodeFile, inode_offset(Target(step)), data)
                 /\ Noted(data, NewRecord(step))
           /\ Done(step)
    BY DEF write_inode
  <1>2. PICK data \in Written(NewRecord(step)) :
           /\ inodeFile' = Overwrite(inodeFile, inode_offset(Target(step)), data)
           /\ Noted(data, NewRecord(step))
    BY <1>1
  <1> DEFINE name == IF step = 4 THEN "file1" ELSE "file2"
  <1>3. /\ program' = 16 /\ healthy' = healthy /\ pc = "step" /\ n = step /\ pc' = "step"
        /\ n' = step + 1 /\ status' = status /\ reads' = reads
    BY <1>1 DEF write_inode, At16, Done, Goto
  <1>4. /\ Target(step) \in {0, 3} /\ name \in {"file1", "file2"}
        /\ NewRecord(step) = make_i_node(name)
        /\ step = 4 => Target(step) = 0
        /\ step = 5 => Target(step) = 3
    BY DEF Target, NewRecord
  <1>5. AtStep16 /\ InPlace16(step)
    BY <1>3 DEF IInv16, AtStep16
  <1>6. /\ inodeFile' \in Seq(RecordPieces)
        /\ Len(inodeFile') = kInodeCount * i_node_size
        /\ \A slot \in Slots \ {Target(step)} : Record(slot)' = Record(slot)
        /\ data = make_i_node(name) => Record(Target(step))' = make_i_node(name)
    <2> HIDE DEF name
    <2> QED
      BY <1>2, <1>4, <1>5, WriteRecord DEF InPlace16
  <1>7. /\ lost \subseteq lost'
        /\ step \notin lost' => data = make_i_node(name)
        /\ healthy => lost' = lost
    <2>1. healthy => data = make_i_node(name)
      BY <1>2, <1>4, RecordPiecesOf, WrittenPart
    <2> QED
      BY <1>2, <1>3, <1>4, <2>1 DEF Noted
  <1>8. 0 \in Slots /\ 3 \in Slots
    BY Lab16Assumption DEF Slots
  <1>9. ASSUME NEW slot \in Slots \ {0, 3} PROVE (Record(slot) = empty)'
    BY <1>4, <1>5, <1>6 DEF InPlace16, empty, make_i_node
  <1>10. InPlace16(step + 1)'
    <2>1. CASE step = 4
      <3>1. 4 \notin lost' => Record(0)' = make_i_node("file1")'
        BY <1>4, <1>6, <1>7, <2>1 DEF make_i_node
      <3> QED
        BY <1>6, <1>9, <2>1, <3>1 DEF InPlace16
    <2>2. CASE step = 5
      <3>1. 4 \notin lost' => Record(0)' = make_i_node("file1")'
        BY <1>4, <1>5, <1>6, <1>7, <1>8, <2>2 DEF InPlace16, make_i_node
      <3>2. 5 \notin lost' => Record(3)' = make_i_node("file2")'
        BY <1>4, <1>6, <1>7, <2>2 DEF make_i_node
      <3> QED
        BY <1>6, <1>9, <2>2, <3>1, <3>2 DEF InPlace16
    <2> QED
      BY <2>1, <2>2
  <1>11. Read16(step + 1)'
    BY <1>3, <1>5 DEF AtStep16, Read16
  <1>12. AtStep16'
    BY <1>3, <1>5, <1>10, <1>11 DEF AtStep16
  <1> QED
    BY <1>3, <1>7, <1>12 DEF IInv16

\* The steps after the file has been written.
LEMMA FileKept ==
    ASSUME inodeFile' = inodeFile, lost \subseteq lost', NEW step \in 6 .. 12, InPlace16(step),
           NEW next \in 6 .. 12
    PROVE  InPlace16(next)'
  <1>1. \A slot : Record(slot)' = Record(slot)
    BY SameRecord
  <1> QED
    BY <1>1 DEF InPlace16, empty, make_i_node

LEMMA DumpInodeInv == ASSUME IInv16, program = 16, dump_inode PROVE IInv16'
  <1>1. PICK step \in {3, 6, 10} :
           /\ program' = 16 /\ healthy' = healthy /\ pc = "step" /\ n = step /\ pc' = "step"
           /\ n' = step + 1 /\ status' = status /\ reads' = reads /\ lost' = lost
           /\ inodeFile' = inodeFile
           /\ table' = [slot \in Slots |-> Record(slot)]
           /\ \A slot \in Slots : Readable(slot)
    BY DEF dump_inode, At16, Done, Goto
  <1>2. AtStep16
    BY <1>1 DEF IInv16
  <1>3. \A slot : Record(slot)' = Record(slot)
    BY <1>1, SameRecord
  <1>4. InPlace16(step + 1)'
    <2>1. CASE step = 3
      <3>1. kInodeCount \in Nat /\ i_node_size \in Nat \ {0} /\ kInodeCount > 3
            /\ kInodeCount - 1 \in Slots /\ 0 \in Slots /\ 3 \in Slots
        BY Lab16Assumption DEF Slots
      <3>2. inodeFile \in Seq(RecordPieces) /\ Len(inodeFile) = kInodeCount * i_node_size
        <4>1. Readable(kInodeCount - 1)
          BY <1>1, <3>1
        <4>2. (kInodeCount - 1) * i_node_size + i_node_size = kInodeCount * i_node_size
          BY <3>1
        <4>3. kInodeCount * i_node_size <= Len(inodeFile)
          BY <4>1, <4>2 DEF Readable, inode_offset
        <4>4. kInodeCount * i_node_size \in Nat
          BY <3>1
        <4> QED
          BY <1>1, <1>2, <2>1, <4>3, <4>4 DEF AtStep16, Begun
      <3>3. ASSUME NEW slot \in Slots PROVE Record(slot) = empty
        <4>1. ASSUME NEW i \in 1 .. i_node_size
              PROVE  inodeFile[inode_offset(slot) + i] = empty[i]
          <5>1. /\ inode_offset(slot) \in Nat
                /\ inode_offset(slot) + i_node_size <= kInodeCount * i_node_size
                /\ ((inode_offset(slot) + i) - 1) % i_node_size = i - 1
            BY SlotBytes
          <5>2. inode_offset(slot) + i \in 1 .. Len(inodeFile)
            BY <3>1, <3>2, <5>1
          <5>3. (((inode_offset(slot) + i) - 1) % i_node_size) + 1 = i
            BY <3>1, <5>1
          <5> QED
            BY <1>1, <1>2, <2>1, <5>2, <5>3 DEF AtStep16, Begun
        <4>2. Record(slot) = [i \in 1 .. i_node_size |-> inodeFile[inode_offset(slot) + i]]
          BY <3>2, RecordOfWhole
        <4> QED
          BY <4>1, <4>2 DEF empty, make_i_node
      <3>4. \A slot \in Slots : (Record(slot) = empty)'
        BY <1>3, <3>3 DEF empty, make_i_node
      <3> QED
        BY <1>1, <2>1, <3>1, <3>2, <3>4 DEF InPlace16
    <2>2. CASE step # 3
      <3>1. step \in 6 .. 12 /\ step + 1 \in 6 .. 12 /\ InPlace16(step)
        BY <1>1, <1>2, <2>2 DEF AtStep16
      <3> QED
        BY <1>1, <3>1, FileKept
    <2> QED
      BY <2>1, <2>2
  <1>5. Read16(step + 1)'
    BY <1>1, <1>2, <1>3 DEF AtStep16, Read16
  <1>6. AtStep16'
    BY <1>1, <1>2, <1>4, <1>5 DEF AtStep16
  <1> QED
    BY <1>1, <1>6 DEF IInv16

\* Append, by its items.
LEMMA AppendIs ==
    ASSUME NEW S, NEW s \in Seq(S), NEW e \in S, NEW t \in Seq(S),
           Len(t) = Len(s) + 1, \A i \in 1 .. Len(s) : t[i] = s[i], t[Len(s) + 1] = e
    PROVE  Append(s, e) = t
  <1> DEFINE r == Append(s, e)
  <1>1. r \in Seq(S) /\ Len(r) = Len(s) + 1 /\ Len(s) \in Nat
    OBVIOUS
  <1>2. \A i \in 1 .. Len(s) + 1 : r[i] = t[i]
    BY AppendProperties
  <1> HIDE DEF r
  <1>3. r = t
    BY <1>1, <1>2, SeqEqual
  <1> QED
    BY <1>3 DEF r

\* Sequences of up to three, one Append at a time.
LEMMA Appending ==
    ASSUME NEW a, NEW b, NEW c
    PROVE  /\ Append(<<>>, a) = <<a>>
           /\ Append(<<a>>, b) = <<a, b>>
           /\ Append(<<a, b>>, c) = <<a, b, c>>
  <1> DEFINE S == {a, b, c}
  <1>1. <<a>> \in Seq(S) /\ <<a, b>> \in Seq(S) /\ <<a, b, c>> \in Seq(S)
    OBVIOUS
  <1>2. /\ Len(<<a>>) = 1 /\ Len(<<a, b>>) = 2 /\ Len(<<a, b, c>>) = 3
    OBVIOUS
  <1>3. /\ \A i \in 1 .. 1 : <<a, b>>[i] = <<a>>[i]
        /\ \A i \in 1 .. 2 : <<a, b, c>>[i] = <<a, b>>[i]
    OBVIOUS
  <1>4. Append(<<a>>, b) = <<a, b>>
    <2> DEFINE s == <<a>>
               t == <<a, b>>
    <2>1. /\ s \in Seq(S) /\ t \in Seq(S) /\ b \in S
          /\ Len(s) = 1 /\ Len(t) = 2 /\ t[2] = b
          /\ \A i \in 1 .. 1 : t[i] = s[i]
      BY <1>1, <1>2, <1>3
    <2> HIDE DEF s, t, S
    <2>2. Len(t) = Len(s) + 1 /\ (\A i \in 1 .. Len(s) : t[i] = s[i]) /\ t[Len(s) + 1] = b
      BY <2>1
    <2>3. s \in Seq(S) /\ t \in Seq(S) /\ b \in S
      BY <2>1
    <2>4. Append(s, b) = t
      BY <2>2, <2>3, AppendIs, Zenon
    <2> QED
      BY <2>4 DEF s, t
  <1>5. Append(<<a, b>>, c) = <<a, b, c>>
    <2> DEFINE s == <<a, b>>
               t == <<a, b, c>>
    <2>1. /\ s \in Seq(S) /\ t \in Seq(S) /\ c \in S
          /\ Len(s) = 2 /\ Len(t) = 3 /\ t[3] = c
          /\ \A i \in 1 .. 2 : t[i] = s[i]
      BY <1>1, <1>2, <1>3
    <2> HIDE DEF s, t, S
    <2>2. Len(t) = Len(s) + 1 /\ (\A i \in 1 .. Len(s) : t[i] = s[i]) /\ t[Len(s) + 1] = c
      BY <2>1
    <2>3. s \in Seq(S) /\ t \in Seq(S) /\ c \in S
      BY <2>1
    <2>4. Append(s, c) = t
      BY <2>2, <2>3, AppendIs, Zenon
    <2> QED
      BY <2>4 DEF s, t
  <1> QED
    BY <1>4, <1>5

LEMMA ReadInodeInv == ASSUME IInv16, program = 16, read_inode PROVE IInv16'
  <1>1. PICK step \in 7 .. 9 :
           /\ At16(step)
           /\ \E slot \in Wanted(step) : Readable(slot) /\ reads' = Append(reads, Record(slot))
           /\ Done(step)
    BY DEF read_inode
  <1>2. /\ program' = 16 /\ healthy' = healthy /\ pc = "step" /\ n = step /\ pc' = "step"
        /\ n' = step + 1 /\ status' = status /\ lost' = lost /\ inodeFile' = inodeFile
    BY <1>1 DEF read_inode, At16, Done, Goto
  <1>3. AtStep16
    BY <1>2 DEF IInv16
  <1>4. \A slot : Record(slot)' = Record(slot)
    BY <1>2, SameRecord
  <1>5. InPlace16(step + 1)'
    BY <1>2, <1>3, FileKept DEF AtStep16
  <1>6. Read16(step + 1)'
    <2>1. reads' = Append(reads, Record(IF step = 7 THEN 2 ELSE IF step = 8 THEN 0 ELSE 3))
      BY <1>1 DEF Wanted
    <2>2. CASE step = 7
      <3>1. reads = <<>>
        BY <1>2, <1>3, <2>2 DEF AtStep16, Read16
      <3>2. reads' = <<Record(2)>>
        BY <2>1, <2>2, <3>1, Appending
      <3> QED
        BY <1>4, <2>2, <3>2 DEF Read16
    <2>3. CASE step = 8
      <3>1. reads = <<Record(2)>>
        BY <1>2, <1>3, <2>3 DEF AtStep16, Read16
      <3>2. reads' = <<Record(2), Record(0)>>
        BY <2>1, <2>3, <3>1, Appending
      <3> QED
        BY <1>4, <2>3, <3>2 DEF Read16
    <2>4. CASE step = 9
      <3>1. reads = <<Record(2), Record(0)>>
        BY <1>2, <1>3, <2>4 DEF AtStep16, Read16
      <3>2. reads' = <<Record(2), Record(0), Record(3)>>
        <4>1. Append(<<Record(2), Record(0)>>, Record(3)) = <<Record(2), Record(0), Record(3)>>
          BY Appending
        <4> QED
          BY <2>1, <2>4, <3>1, <4>1
      <3> QED
        BY <1>4, <2>4, <3>2 DEF Read16
    <2> QED
      BY <2>2, <2>3, <2>4
  <1>7. AtStep16'
    BY <1>2, <1>3, <1>5, <1>6 DEF AtStep16
  <1> QED
    BY <1>2, <1>7 DEF IInv16

LEMMA TextDumpInv == ASSUME IInv16, program = 16, write_text_dump PROVE IInv16'
  <1>1. PICK step \in {11, 12} :
           /\ pc = "step" /\ n = step
           /\ program' = 16 /\ healthy' = healthy /\ status' = status
           /\ inodeFile' = inodeFile /\ reads' = reads /\ table' = table
           /\ n' = 12
           /\ step = 11 => pc' = "step" /\ lost' = lost
           /\ step = 12 => pc' = "ended"
    BY DEF write_text_dump, At16, Done, Goto
  <1>2. AtStep16
    BY <1>1 DEF IInv16
  <1> DEFINE rows == [i \in 1 .. kInodeCount |-> table[i - 1]]
  <1>3. step = 12 => \E data \in Written(rows) : dumpFile' = data /\ Noted(data, rows)
    BY <1>1 DEF write_text_dump, At16
  <1>4. /\ lost \subseteq lost'
        /\ step = 12 /\ 12 \notin lost' => dumpFile' = rows
        /\ healthy => lost' = lost
    BY <1>1, <1>3 DEF Noted, Written
  <1>5. \A slot : Record(slot)' = Record(slot)
    BY <1>1, SameRecord
  <1>6. InPlace16(12)'
    BY <1>1, <1>2, <1>4, FileKept DEF AtStep16
  <1>7. Read16(12)'
    BY <1>1, <1>2, <1>5 DEF AtStep16, Read16
  <1>8. AtStep16'
    BY <1>1, <1>2, <1>6, <1>7 DEF AtStep16
  <1>9. step = 12 /\ 12 \notin lost' => \A slot \in Slots : dumpFile'[slot + 1] = table[slot]
    <2>1. \A slot \in Slots : slot + 1 \in 1 .. kInodeCount /\ (slot + 1) - 1 = slot
      BY Lab16Assumption DEF Slots
    <2> QED
      BY <1>4, <2>1
  <1> QED
    BY <1>1, <1>2, <1>4, <1>8, <1>9 DEF IInv16, AtStep16

\* Something is thrown only in a run that is not healthy.
LEMMA ThrowInv == ASSUME IInv16, program = 16, CannotOpen \/ ShortRead PROVE IInv16'
  <1>1. /\ pc = "step" /\ pc' = "ended" /\ status' = 1 /\ n' = n
        /\ program' = 16 /\ healthy' = healthy
    BY DEF CannotOpen, ShortRead, Throw, Goto
  <1>2. AtStep16
    BY <1>1 DEF IInv16
  <1>3. ASSUME ShortRead PROVE ~healthy
    <2>1. SUFFICES ASSUME healthy PROVE FALSE
      OBVIOUS
    <2>2. PICK slot \in Wanted(n) : ~Readable(slot)
      BY <1>3 DEF ShortRead
    <2>3. n \in 3 .. 10 /\ slot \in Slots
      BY <1>2, Lab16Assumption DEF AtStep16, Wanted, Slots
    <2>4. inodeFile \in Seq(RecordPieces) /\ Len(inodeFile) = kInodeCount * i_node_size
      <3>1. CASE n = 3
        BY <1>2, <2>1, <3>1 DEF AtStep16, Begun
      <3>2. CASE n >= 4
        BY <1>2, <3>2 DEF AtStep16, InPlace16
      <3> QED
        BY <2>3, <3>1, <3>2
    <2> QED
      BY <2>2, <2>3, <2>4, RecordOfWhole
  <1>4. ~healthy
    BY <1>3 DEF CannotOpen
  <1> QED
    BY <1>1, <1>4 DEF IInv16

\* Nothing has run yet.
LEMMA InitInv16 == Init => IInv16
  BY DEF Init, RunInit, IInv16

\* Every step of any of the four programs, and a kill.
LEMMA StepInv16 == IInv16 /\ [Next]_vars => IInv16'
  <1> SUFFICES ASSUME IInv16, [Next]_vars, program = 16 PROVE IInv16'
    BY OneProgram DEF IInv16
  <1>1. CASE UNCHANGED vars
    <2>1. UNCHANGED <<runVars, vars16>>
      BY <1>1 DEF vars
    <2>2. \A slot : (Record(slot)' = Record(slot))
      BY <2>1, SameRecord DEF vars16
    <2> QED
      BY <2>1, <2>2 DEF IInv16, AtStep16, Begun, InPlace16, Read16, runVars, vars16, empty, make_i_node
  <1>2. CASE Start16
    BY <1>2, Start16Inv
  <1>3. CASE Step16
    BY <1>3, InitInodeInv, WriteInodeInv, DumpInodeInv, ReadInodeInv, TextDumpInv, ThrowInv
       DEF Step16
  <1>4. CASE Killed
    <2>1. healthy' = healthy /\ program' = program /\ pc' = "killed"
      BY <1>4 DEF Killed, Kill
    <2> QED
      BY <2>1 DEF IInv16
  <1> QED
    BY <1>1, <1>2, <1>3, <1>4, OneProgram DEF Program16

\* Lab_16's inductive invariant, for every number of slots and every record size.
THEOREM Lab16Invariance == Spec => []IInv16
  BY InitInv16, StepInv16, PTL DEF Spec

\* At the end of a run the invariant says what the property asks.
LEMMA ReportsInv == IInv16 => ReportsTheFile
  <1> SUFFICES ASSUME IInv16, Ended(16) PROVE ReportsTheFile
    BY DEF ReportsTheFile
  <1>1. CASE status = 0
    <2>1. /\ AtStep16 /\ n = 12
          /\ 12 \notin lost => \A slot \in Slots : dumpFile[slot + 1] = table[slot]
          /\ healthy => lost = {}
      BY <1>1 DEF IInv16, Ended
    <2>2. InPlace16(12) /\ Read16(12)
      BY <2>1 DEF AtStep16
    <2>3. \A slot \in Slots : table[slot] = Record(slot)
      BY <2>2 DEF Read16
    <2> QED
      BY <1>1, <2>1, <2>2, <2>3 DEF ReportsTheFile, InPlace16, Read16, empty
  <1>2. CASE status # 0
    BY <1>2 DEF ReportsTheFile, IInv16, Ended
  <1> QED
    BY <1>1, <1>2

\* A run of lab16.cpp that returns 0 reports the i-nodes as they are in its file, the text
\* dump included, but for writes a destructor lost unnoticed; and if nothing fails it
\* returns 0 and loses nothing.
THEOREM Lab16Reports == Spec => []ReportsTheFile
  BY Lab16Invariance, ReportsInv, PTL

-----------------------------------------------------------------------------
(* Lab_13 *)

\* The file in hand is what this run wrote, or a part of it.
Begins13 ==
    /\ files13[n] \in Seq(Letters \cup Numbers)
    /\ Len(files13[n]) <= 5
    /\ \A i \in 1 .. Len(files13[n]) : files13[n][i] = Text13(n)[i]

\* What has been logged of it.
Logged13 ==
    /\ pos \in 1 .. 6
    /\ shown \in Seq(Letters \cup Numbers)
    /\ Len(shown) = pos - 1
    /\ \A i \in 1 .. pos - 1 : shown[i] = Text13(n)[i]

\* Inductive: what a run of Lab_13 knows of the file it works on at each place.
IInv13 ==
    program = 13 =>
        /\ healthy \in BOOLEAN /\ DOMAIN files13 = Files13
        /\ pc \in {"idle", "openw", "close", "openr", "read", "ended", "killed"}
        /\ pc \in {"openw", "close", "openr", "read"} => n \in Files13
        /\ pc = "read" => pos \in Nat \ {0}
        /\ pc \in {"openr", "read"} /\ emptied => Begins13
        /\ pc \in {"openr", "read"} /\ healthy => files13[n] = Text13(n)
        /\ pc = "read" /\ healthy => Logged13
        /\ pc = "openw" /\ n > 1 /\ healthy => shown = Text13(n - 1)
        /\ pc = "ended" /\ healthy => shown = Text13(4)

\* The text of a file: five characters, all of them numbers in a file of numbers.
LEMMA Text13Is ==
    ASSUME NEW f \in Files13
    PROVE  /\ Text13(f) \in Seq(Letters \cup Numbers) /\ Len(Text13(f)) = 5
           /\ Text13(f) # Missing
           /\ numbersFile(f) => \A i \in 1 .. 5 : Text13(f)[i] \in Numbers
  <1> DEFINE digits == <<"1", "2", "3", "4", "5">>
             letters == <<"A", "B", "C", "D", "E">>
  <1>1. /\ digits \in Seq(Letters \cup Numbers) /\ Len(digits) = 5
        /\ letters \in Seq(Letters \cup Numbers) /\ Len(letters) = 5
    BY DEF Letters, Numbers
  <1>2. \A i \in 1 .. 5 : digits[i] \in Numbers
    BY DEF Numbers
  <1>3. Text13(f) = IF numbersFile(f) THEN digits ELSE letters
    BY DEF Text13
  <1> HIDE DEF digits, letters
  <1> QED
    BY <1>1, <1>2, <1>3, Lab13Assumption

\* To the next file, or to the end.
LEMMA NextFileIs ==
    ASSUME NextFile, n \in Files13
    PROVE  /\ program' = program /\ healthy' = healthy /\ n' \in Files13
           /\ n = 4 => pc' = "ended"
           /\ n # 4 => pc' = "openw" /\ n' - 1 = n
           /\ pc' \in {"ended", "openw"}
  BY DEF NextFile, Goto, Files13

\* Every call of Lab_13.
LEMMA StepsInv13 == ASSUME IInv13, program = 13, Step13 PROVE IInv13'
  <1>1. /\ pc \in {"openw", "close", "openr", "read"} /\ n \in Files13 /\ DOMAIN files13 = Files13
        /\ healthy \in BOOLEAN
    BY DEF IInv13, Step13, OpenForWriting, CloseWritten, OpenForReading, ReadItem, EndReading
  <1>2. PICK f \in Files13 : f = n
    BY <1>1
  <1>3. CASE OpenForWriting
    <2>1. /\ program' = 13 /\ healthy' = healthy /\ n' = n /\ pos' = pos /\ shown' = shown
          /\ DOMAIN files13' = Files13
          /\ pc' \in {"close", "openr"}
          /\ pc' = "openr" => ~healthy /\ ~emptied'
      BY <1>1, <1>3 DEF OpenForWriting, Goto
    <2> QED
      BY <1>1, <2>1 DEF IInv13
  <1>4. CASE CloseWritten
    <2>1. /\ program' = 13 /\ healthy' = healthy /\ n' = n /\ pc' = "openr"
          /\ \E text \in Written(Text13(n)) : files13' = [files13 EXCEPT ![n] = text]
      BY <1>4 DEF CloseWritten, Goto
    <2>2. PICK text \in Written(Text13(f)) : files13' = [files13 EXCEPT ![f] = text]
      BY <1>2, <2>1
    <2>3. /\ text \in Seq(Letters \cup Numbers)
          /\ Len(text) <= 5
          /\ \A i \in 1 .. Len(text) : text[i] = Text13(f)[i]
          /\ healthy => text = Text13(f)
      <3>1. Text13(f) \in Seq(Letters \cup Numbers) /\ Len(Text13(f)) = 5
        BY Text13Is
      <3> QED
        BY <3>1, WrittenPart
    <2>4. files13'[f] = text /\ DOMAIN files13' = Files13
      BY <1>1, <2>2
    <2>5. Begins13'
      BY <1>2, <2>1, <2>3, <2>4 DEF Begins13, Text13, numbersFile, Letters, Numbers
    <2>6. healthy => (files13[n] = Text13(n))'
      BY <1>2, <2>1, <2>3, <2>4 DEF Text13, numbersFile
    <2> QED
      BY <1>1, <2>1, <2>4, <2>5, <2>6 DEF IInv13
  <1>5. CASE OpenForReading
    <2>1. /\ files13' = files13 /\ emptied' = emptied /\ pos' = 1 /\ shown' = <<>> /\ pc = "openr"
          /\ \/ files13[n] # Missing /\ Goto("read", n)
             \/ (files13[n] = Missing \/ ~healthy) /\ NextFile
      BY <1>5 DEF OpenForReading
    <2>2. CASE Goto("read", n)
      <3>1. program' = 13 /\ healthy' = healthy /\ n' = n /\ pc' = "read"
        BY <2>2 DEF Goto
      <3>2. emptied => Begins13'
        BY <2>1, <3>1 DEF IInv13, Begins13, Text13, numbersFile, Letters, Numbers
      <3>3. Logged13'
        BY <2>1 DEF Logged13
      <3>4. healthy => (files13[n] = Text13(n))'
        BY <2>1, <3>1 DEF IInv13, Text13, numbersFile
      <3> QED
        BY <1>1, <2>1, <3>1, <3>2, <3>3, <3>4 DEF IInv13
    <2>3. CASE NextFile /\ ~healthy
      BY <1>1, <2>1, <2>3, NextFileIs DEF IInv13
    <2>4. CASE healthy /\ files13[n] = Missing
      BY <1>1, <2>1, <2>4, Text13Is DEF IInv13
    <2> QED
      BY <1>1, <2>1, <2>2, <2>3, <2>4
  <1>6. CASE ReadItem
    <2>1. /\ pc = "read" /\ ~(pos > Len(files13[n])) /\ shown' = Append(shown, files13[n][pos])
          /\ pos' = pos + 1 /\ UNCHANGED <<files13, emptied>>
          /\ UNCHANGED <<program, runs, pc, n, healthy>>
      BY <1>6 DEF ReadItem, AtEnd, Item, runVars
    <2>2. emptied => Begins13'
      BY <2>1 DEF IInv13, Begins13, Text13, numbersFile, Letters, Numbers
    <2>3. ASSUME healthy PROVE Logged13'
      <3>1. files13[f] = Text13(f) /\ Logged13 /\ pc = "read"
        BY <1>2, <2>1, <2>3 DEF IInv13
      <3>2. /\ Text13(f) \in Seq(Letters \cup Numbers) /\ Len(Text13(f)) = 5
        BY Text13Is
      <3>3. pos \in 1 .. 5 /\ Text13(f)[pos] \in Letters \cup Numbers /\ shown' = Append(shown, Text13(f)[pos])
        <4>1. pos \in 1 .. 5
          BY <1>2, <2>1, <3>1, <3>2 DEF Logged13
        <4>2. Text13(f)[pos] \in Letters \cup Numbers
          BY <3>2, <4>1, ElementOfSeq
        <4>3. files13[n] = Text13(f)
          BY <1>2, <3>1
        <4>4. files13[n][pos] = Text13(f)[pos]
          BY <4>3
        <4> QED
          BY <2>1, <4>1, <4>2, <4>4
      <3>4. /\ shown' \in Seq(Letters \cup Numbers) /\ Len(shown') = (pos' - 1)
            /\ \A i \in 1 .. pos : shown'[i] = Text13(f)[i]
        <4> DEFINE item == Text13(f)[pos]
        <4> HIDE DEF item
        <4>1. shown \in Seq(Letters \cup Numbers) /\ Len(shown) = pos - 1 /\ item \in Letters \cup Numbers
          BY <3>1, <3>3 DEF Logged13, item
        <4>2. /\ Append(shown, item) \in Seq(Letters \cup Numbers)
              /\ Len(Append(shown, item)) = Len(shown) + 1
              /\ \A i \in 1 .. Len(shown) : Append(shown, item)[i] = shown[i]
              /\ Append(shown, item)[Len(shown) + 1] = item
          BY <4>1, AppendProperties
        <4>3. shown' = Append(shown, item)
          BY <3>3 DEF item
        <4>4. (pos - 1) + 1 = pos /\ pos' - 1 = pos /\ pos \in Int
          BY <2>1, <3>3
        <4>5. \A i \in 1 .. pos : i = pos \/ i \in 1 .. pos - 1
          BY <4>4
        <4>6. \A i \in 1 .. pos - 1 : shown[i] = Text13(f)[i]
          BY <1>2, <3>1 DEF Logged13
        <4> QED
          BY <4>1, <4>2, <4>3, <4>4, <4>5, <4>6 DEF item
      <3>5. pos' - 1 = pos /\ pos' \in 1 .. 6
        BY <2>1, <3>3
      <3> QED
        BY <1>2, <2>1, <3>4, <3>5 DEF Logged13, Text13, numbersFile, Letters, Numbers
    <2>4. healthy => (files13[n] = Text13(n))'
      BY <2>1 DEF IInv13, Text13, numbersFile
    <2>5. pos' \in Nat \ {0}
      BY <2>1 DEF IInv13
    <2> QED
      BY <1>1, <2>1, <2>2, <2>3, <2>4, <2>5 DEF IInv13
  <1>7. CASE EndReading
    <2>1. /\ pc = "read" /\ NextFile /\ UNCHANGED vars13
          /\ ~AtEnd => ~healthy \/ (numbersFile(n) /\ ~C(n) /\ Item \notin Numbers)
      BY <1>7 DEF EndReading
    <2>2. program' = 13 /\ healthy' = healthy /\ pc' \in {"ended", "openw"} /\ n' \in Files13
      BY <1>1, <2>1, NextFileIs
    <2>3. ASSUME healthy PROVE shown = Text13(f)
      <3>1. files13[f] = Text13(f) /\ Logged13
        BY <1>2, <2>1, <2>3 DEF IInv13
      <3>2. /\ Text13(f) \in Seq(Letters \cup Numbers) /\ Len(Text13(f)) = 5
            /\ numbersFile(f) => \A i \in 1 .. 5 : Text13(f)[i] \in Numbers
        BY Text13Is
      <3>3. pos = 6
        BY <1>2, <2>1, <2>3, <3>1, <3>2 DEF AtEnd, Item, Logged13
      <3>4. Len(shown) = 5 /\ \A i \in 1 .. 5 : shown[i] = Text13(f)[i]
        BY <1>2, <3>1, <3>3 DEF Logged13
      <3> QED
        BY <3>1, <3>2, <3>4, SeqEqual DEF Logged13
    <2>4. pc' = "openw" /\ n' > 1 /\ healthy => (shown = Text13(n - 1))'
      <3>1. pc' = "openw" => n' - 1 = f
        BY <1>1, <1>2, <2>1, NextFileIs
      <3> QED
        BY <2>1, <2>3, <3>1 DEF vars13, Text13, numbersFile
    <2>5. pc' = "ended" /\ healthy => (shown = Text13(4))'
      <3>1. pc' = "ended" => f = 4
        BY <1>1, <1>2, <2>1, NextFileIs
      <3> QED
        BY <2>1, <2>3, <3>1 DEF vars13, Text13, numbersFile
    <2> QED
      BY <1>1, <2>1, <2>2, <2>4, <2>5 DEF IInv13, vars13, Files13
  <1> QED
    BY <1>3, <1>4, <1>5, <1>6, <1>7 DEF Step13

\* No program has run.
LEMMA InitInv13 == Init => IInv13
  BY DEF Init, RunInit, Init13, IInv13, Files13

\* Every step of any of the four programs, and a kill.
LEMMA StepInv13 == IInv13 /\ [Next]_vars => IInv13'
  <1> SUFFICES ASSUME IInv13, [Next]_vars, program = 13 PROVE IInv13'
    BY OneProgram DEF IInv13
  <1>1. CASE UNCHANGED vars
    <2>1. UNCHANGED <<program, runs, pc, n, healthy, files13, emptied, pos, shown>>
      BY <1>1 DEF vars, runVars, vars13
    <2> QED
      BY <2>1 DEF IInv13, Begins13, Logged13, Text13, numbersFile, Letters, Numbers, Files13
  <1>2. CASE Start13
    <2>1. /\ program' = 13 /\ healthy' \in BOOLEAN /\ pc' = "openw" /\ n' = 1 /\ files13' = files13
      BY <1>2 DEF Start13, Start
    <2> QED
      BY <2>1 DEF IInv13, Files13
  <1>3. CASE Step13
    BY <1>3, StepsInv13
  <1>4. CASE Killed
    <2>1. /\ healthy' = healthy /\ program' = program /\ pc' = "killed" /\ UNCHANGED vars13
      BY <1>4 DEF Killed, Kill
    <2> QED
      BY <2>1 DEF IInv13, vars13, Files13
  <1> QED
    BY <1>1, <1>2, <1>3, <1>4, OneProgram DEF Program13

\* Lab_13's inductive invariant.
THEOREM Lab13Invariance == Spec => []IInv13
  BY InitInv13, StepInv13, PTL DEF Spec

\* The invariant is stronger than the property.
LEMMA ReadsBackInv == IInv13 => ReadsBack13
  <1> SUFFICES ASSUME IInv13, program = 13 PROVE ReadsBack13
    BY DEF ReadsBack13, Ended, ReadsForEver
  <1>1. ASSUME ReadsForEver, emptied PROVE FALSE
    <2>1. pc = "read" /\ n = 4 /\ Begins13 /\ ~(pos > Len(files13[4])) /\ pos \in Nat \ {0}
      BY <1>1 DEF ReadsForEver, IInv13, AtEnd
    <2>2. pos \in 1 .. Len(files13[4]) /\ pos \in 1 .. 5
      BY <2>1 DEF Begins13
    <2>3. files13[4][pos] = Text13(4)[pos]
      BY <2>1, <2>2 DEF Begins13
    <2>4. Text13(4)[pos] \in Numbers
      BY <2>2, Text13Is DEF Files13, numbersFile
    <2> QED
      BY <1>1, <2>1, <2>3, <2>4 DEF ReadsForEver, Item
  <1> QED
    BY <1>1 DEF ReadsBack13, IInv13, Ended

\* A run of lab 13 in which nothing fails reads back what it wrote, whatever an earlier one
\* left when it was killed, and only a file it could not open for writing makes it read
\* for ever.
THEOREM Lab13ReadsBack == Spec => []ReadsBack13
  BY Lab13Invariance, ReadsBackInv, PTL

-----------------------------------------------------------------------------
(* Lab_14 *)

\* Where a piece goes and what it is called.
Offset14 == <<0, 38, 100, 0, 20, 40, 10, 30, 60>>
Length14 == <<79, 10, 36, 10, 10, 10, 10, 10, 10>>
Name14 == <<"base", "put", "tail", "01", "03", "05", "02", "04", "07">>

\* Byte i, counted from 0, is one of piece p.
InPiece(p, i) == i >= Offset14[p] /\ i < Offset14[p] + Length14[p]

\* How long file 1 is after its first k pieces.
Size1(k) == CASE k = 0 -> 0 [] k \in {1, 2} -> 79 [] OTHER -> 136

\* File 1 with its first k pieces, of which a later one is over an earlier one.
File1Has(k) ==
    /\ file1 \in Seq(Octets)
    /\ Len(file1) = Size1(k)
    /\ \A i \in 0 .. Len(file1) - 1 :
          file1[i + 1] =
              IF k >= 3 /\ InPiece(3, i) THEN <<"tail", i - 99>>
              ELSE IF k >= 2 /\ InPiece(2, i) THEN <<"put", i - 37>>
              ELSE IF InPiece(1, i) THEN <<"base", i + 1>> ELSE NUL

\* What file 2 held when the run began, and what is found there.
Length0 == IF before2 = Missing THEN 0 ELSE Len(before2)
Held(i) == IF i < Length0 THEN before2[i + 1] ELSE NUL

\* The end of the last of pieces 4 to k, and what the file is then long.
End2(k) == CASE k = 3 -> 0 [] k = 4 -> 10 [] k = 5 -> 30 [] k \in 6 .. 8 -> 50 [] OTHER -> 70
Size2(k) == IF Length0 < End2(k) THEN End2(k) ELSE Length0

\* File 2 with pieces 4 to k, which are apart.
File2Has(k) ==
    /\ file2 \in Seq(Octets)
    /\ Len(file2) = Size2(k)
    /\ \A i \in 0 .. Len(file2) - 1 :
          /\ \A p \in 4 .. k : InPiece(p, i) => file2[i + 1] = <<Name14[p], (i - Offset14[p]) + 1>>
          /\ (\A p \in 4 .. k : ~InPiece(p, i)) => file2[i + 1] = Held(i)

\* What the report of file 1 read, forwards and backwards, is the file.
BothWays ==
    /\ read14.forward = file1
    /\ \A i \in 1 .. Len(file1) : read14.backward[i] = file1[(Len(file1) + 1) - i]

\* A file that may be missing.
MaybeFile(file) == file = Missing \/ file \in Seq(Octets)

\* The state of a run of Lab_14, whatever fails in it.
Type14 ==
    /\ healthy \in BOOLEAN
    /\ pc \in {"idle", "open", "put", "read", "ended", "killed"}
    /\ MaybeFile(file1) /\ MaybeFile(file2) /\ MaybeFile(before2)
    /\ pc = "open" => n \in {1, 4, 7}
    /\ pc = "put" => n \in 1 .. 9
    /\ pc = "read" => n \in {3, 6, 9}
    /\ pc = "put" /\ n <= 3 => file1 \in Seq(Octets)
    /\ pc = "put" /\ n > 3 => file2 \in Seq(Octets)
    /\ DOMAIN read14 = {"forward", "backward", "view"}

\* What the files hold at each place of a run in which nothing fails.
Healthy14 ==
    /\ pc \in {"open", "put", "read"} /\ n <= 3 => file2 = before2
    /\ pc = "put" /\ n <= 3 => File1Has(n - 1)
    /\ pc = "read" /\ n = 3 => File1Has(3)
    /\ pc \in {"open", "put", "read"} /\ n > 3 => File1Has(3)
    /\ pc = "open" /\ n = 4 => file2 = before2 /\ BothWays
    /\ pc = "open" /\ n = 7 => File2Has(6)
    /\ pc = "put" /\ n > 3 => File2Has(n - 1)
    /\ pc = "read" /\ n > 3 => File2Has(n)
    /\ pc = "ended" => File1Has(3) /\ File2Has(9) /\ read14.view = file2

\* Inductive: of a run of Lab_14.
IInv14 == program = 14 => Type14 /\ (healthy => Healthy14)

\* The tables above, entry by entry.
LEMMA Places14 ==
    /\ Offset14[1] = 0 /\ Offset14[2] = 38 /\ Offset14[3] = 100
    /\ Offset14[4] = 0 /\ Offset14[5] = 20 /\ Offset14[6] = 40
    /\ Offset14[7] = 10 /\ Offset14[8] = 30 /\ Offset14[9] = 60
    /\ Length14[1] = 79 /\ Length14[2] = 10 /\ Length14[3] = 36
    /\ Length14[4] = 10 /\ Length14[5] = 10 /\ Length14[6] = 10
    /\ Length14[7] = 10 /\ Length14[8] = 10 /\ Length14[9] = 10
    /\ Name14[1] = "base" /\ Name14[2] = "put" /\ Name14[3] = "tail"
    /\ Name14[4] = "01" /\ Name14[5] = "03" /\ Name14[6] = "05"
    /\ Name14[7] = "02" /\ Name14[8] = "04" /\ Name14[9] = "07"
  <1>1. /\ Offset14[1] = 0 /\ Offset14[2] = 38 /\ Offset14[3] = 100
        /\ Offset14[4] = 0 /\ Offset14[5] = 20 /\ Offset14[6] = 40
        /\ Offset14[7] = 10 /\ Offset14[8] = 30 /\ Offset14[9] = 60
    BY DEF Offset14
  <1>2. /\ Length14[1] = 79 /\ Length14[2] = 10 /\ Length14[3] = 36
        /\ Length14[4] = 10 /\ Length14[5] = 10 /\ Length14[6] = 10
        /\ Length14[7] = 10 /\ Length14[8] = 10 /\ Length14[9] = 10
    BY DEF Length14
  <1>3. /\ Name14[1] = "base" /\ Name14[2] = "put" /\ Name14[3] = "tail"
        /\ Name14[4] = "01" /\ Name14[5] = "03" /\ Name14[6] = "05"
        /\ Name14[7] = "02" /\ Name14[8] = "04" /\ Name14[9] = "07"
    BY DEF Name14
  <1> QED
    BY <1>1, <1>2, <1>3

\* The bytes of a piece of data.
LEMMA BytesOf ==
    ASSUME NEW name \in {"base", "put", "tail", "01", "02", "03", "04", "05", "07"},
           NEW length \in Nat
    PROVE  /\ Bytes(name, length) \in Seq(Octets)
           /\ Len(Bytes(name, length)) = length
           /\ \A i \in 1 .. length : Bytes(name, length)[i] = <<name, i>>
  <1>1. \A i \in 1 .. length : <<name, i>> \in Octets
    BY DEF Octets
  <1>2. Bytes(name, length) \in [1 .. length -> Octets]
    BY <1>1 DEF Bytes
  <1> QED
    BY <1>2 DEF Bytes

\* The pieces the program puts are those of the tables.
LEMMA PieceIs ==
    ASSUME NEW p \in 1 .. 9
    PROVE  /\ Pieces[p].offset = Offset14[p] /\ Offset14[p] \in Nat
           /\ Length14[p] \in Nat
           /\ Pieces[p].data \in Seq(Octets)
           /\ Len(Pieces[p].data) = Length14[p]
           /\ \A i \in 1 .. Length14[p] : Pieces[p].data[i] = <<Name14[p], i>>
  <1>1. Pieces[p] = Piece(Offset14[p], Name14[p], Length14[p])
    <2>1. p = 1 \/ p = 2 \/ p = 3 \/ p = 4 \/ p = 5 \/ p = 6 \/ p = 7 \/ p = 8 \/ p = 9
      OBVIOUS
    <2>2. /\ Pieces[1] = Piece(0, "base", 79) /\ Pieces[2] = Piece(38, "put", 10)
          /\ Pieces[3] = Piece(100, "tail", 36) /\ Pieces[4] = Piece(0, "01", 10)
          /\ Pieces[5] = Piece(20, "03", 10) /\ Pieces[6] = Piece(40, "05", 10)
          /\ Pieces[7] = Piece(10, "02", 10) /\ Pieces[8] = Piece(30, "04", 10)
          /\ Pieces[9] = Piece(60, "07", 10)
      BY DEF Pieces
    <2> QED
      BY <2>1, <2>2, Places14
  <1>2. /\ Offset14[p] \in Nat /\ Length14[p] \in Nat
        /\ Name14[p] \in {"base", "put", "tail", "01", "02", "03", "04", "05", "07"}
    BY Places14
  <1>3. Pieces[p].offset = Offset14[p] /\ Pieces[p].data = Bytes(Name14[p], Length14[p])
    BY <1>1 DEF Piece
  <1> QED
    BY <1>2, <1>3, BytesOf

\* A piece put into a file.
LEMMA PutPiece ==
    ASSUME NEW file \in Seq(Octets), NEW p \in 1 .. 9,
           NEW result, result = Overwrite(file, Pieces[p].offset, Pieces[p].data)
    PROVE  /\ result \in Seq(Octets)
           /\ Len(result) = IF Len(file) < Offset14[p] + Length14[p] THEN Offset14[p] + Length14[p]
                            ELSE Len(file)
           /\ \A i \in 0 .. Len(result) - 1 :
                 result[i + 1] = IF InPiece(p, i) THEN <<Name14[p], (i - Offset14[p]) + 1>>
                                 ELSE IF i < Len(file) THEN file[i + 1] ELSE NUL
  <1> DEFINE o == Offset14[p]
             d == Pieces[p].data
             l == Length14[p]
             size == IF Len(file) < o + l THEN o + l ELSE Len(file)
  <1>1. /\ Pieces[p].offset = o /\ o \in Nat /\ l \in Nat /\ d \in Seq(Octets) /\ Len(d) = l
        /\ \A i \in 1 .. l : d[i] = <<Name14[p], i>>
    BY PieceIs
  <1>2. NUL \in Octets
    BY DEF NUL, Octets
  <1> HIDE DEF d, o, l
  <1>3. /\ result \in Seq(Octets)
        /\ Len(result) = size
        /\ \A i \in 1 .. size : result[i] =
              IF i \in o + 1 .. o + l THEN d[i - o] ELSE IF i <= Len(file) THEN file[i] ELSE NUL
    <2> DEFINE end == o + Len(d)
               full == IF Len(file) < end THEN end ELSE Len(file)
               r == Overwrite(file, o, d)
    <2>1. /\ r \in Seq(Octets)
          /\ Len(r) = full
          /\ \A i \in 1 .. full : r[i] =
                IF i \in o + 1 .. end THEN d[i - o] ELSE IF i <= Len(file) THEN file[i] ELSE NUL
      BY <1>1, <1>2, Overwriting
    <2>2. r = result
      BY <1>1 DEF d
    <2>3. end = o + l
      BY <1>1
    <2> HIDE DEF r
    <2> QED
      BY <2>1, <2>2, <2>3
  <1>4. ASSUME NEW i \in 0 .. size - 1
        PROVE  result[i + 1] = IF InPiece(p, i) THEN <<Name14[p], (i - o) + 1>>
                               ELSE IF i < Len(file) THEN file[i + 1] ELSE NUL
    <2>1. i + 1 \in 1 .. size /\ Len(file) \in Nat /\ size \in Nat
      BY <1>1
    <2>2. result[i + 1] =
             IF i + 1 \in o + 1 .. o + l THEN d[(i + 1) - o] ELSE IF i + 1 <= Len(file) THEN file[i + 1] ELSE NUL
      BY <1>3, <2>1
    <2>3. InPiece(p, i) <=> i + 1 \in o + 1 .. o + l
      BY <1>1, <2>1 DEF InPiece, o, l
    <2>4. CASE InPiece(p, i)
      <3>1. (i + 1) - o \in 1 .. l /\ (i + 1) - o = (i - o) + 1
        BY <1>1, <2>1, <2>3, <2>4
      <3>2. d[(i + 1) - o] = <<Name14[p], (i + 1) - o>>
        BY <1>1, <3>1
      <3> QED
        BY <2>2, <2>3, <2>4, <3>1, <3>2
    <2>5. CASE ~InPiece(p, i)
      BY <2>1, <2>2, <2>3, <2>5
    <2> QED
      BY <2>4, <2>5
  <1> QED
    BY <1>3, <1>4 DEF o, l

\* File 1, a piece more.
LEMMA File1Step ==
    ASSUME NEW p \in 1 .. 3, File1Has(p - 1),
           file1' = Overwrite(file1, Pieces[p].offset, Pieces[p].data)
    PROVE  File1Has(p)'
  <1>1. /\ file1' \in Seq(Octets)
        /\ Len(file1') = IF Len(file1) < Offset14[p] + Length14[p] THEN Offset14[p] + Length14[p]
                         ELSE Len(file1)
        /\ \A i \in 0 .. Len(file1') - 1 :
              file1'[i + 1] = IF InPiece(p, i) THEN <<Name14[p], (i - Offset14[p]) + 1>>
                              ELSE IF i < Len(file1) THEN file1[i + 1] ELSE NUL
    <2>1. file1 \in Seq(Octets) /\ p \in 1 .. 9
      BY DEF File1Has
    <2> QED
      BY <2>1, PutPiece
  <1>2. Len(file1) = Size1(p - 1) /\ Len(file1') = Size1(p)
    <2>1. Len(file1) = Size1(p - 1)
      BY DEF File1Has
    <2>2. Size1(0) = 0 /\ Size1(1) = 79 /\ Size1(2) = 79 /\ Size1(3) = 136
      BY DEF Size1
    <2>3. CASE p = 1
      BY <1>1, <2>1, <2>2, <2>3, Places14
    <2>4. CASE p = 2
      BY <1>1, <2>1, <2>2, <2>4, Places14
    <2>5. CASE p = 3
      BY <1>1, <2>1, <2>2, <2>5, Places14
    <2> QED
      BY <2>3, <2>4, <2>5
  <1>3. ASSUME NEW i \in 0 .. Size1(p) - 1
        PROVE  file1'[i + 1] = IF p >= 3 /\ InPiece(3, i) THEN <<"tail", i - 99>>
                               ELSE IF p >= 2 /\ InPiece(2, i) THEN <<"put", i - 37>>
                               ELSE IF InPiece(1, i) THEN <<"base", i + 1>> ELSE NUL
    <2>1. file1'[i + 1] = IF InPiece(p, i) THEN <<Name14[p], (i - Offset14[p]) + 1>>
                          ELSE IF i < Size1(p - 1) THEN file1[i + 1] ELSE NUL
      BY <1>1, <1>2
    <2>2. i < Size1(p - 1) =>
             file1[i + 1] = IF p - 1 >= 3 /\ InPiece(3, i) THEN <<"tail", i - 99>>
                            ELSE IF p - 1 >= 2 /\ InPiece(2, i) THEN <<"put", i - 37>>
                            ELSE IF InPiece(1, i) THEN <<"base", i + 1>> ELSE NUL
      BY <1>2 DEF File1Has, Size1
    <2>3. /\ InPiece(1, i) <=> i < 79
          /\ InPiece(2, i) <=> i \in 38 .. 47
          /\ InPiece(3, i) <=> i \in 100 .. 135
      BY Places14 DEF InPiece, Size1
    <2>4. CASE p = 1
      BY <2>1, <2>3, <2>4, Places14 DEF Size1
    <2>5. CASE p = 2
      <3>1. i < Size1(1) /\ Size1(1) = 79
        BY <2>5 DEF Size1
      <3>2. file1[i + 1] = <<"base", i + 1>>
        BY <2>2, <2>3, <2>5, <3>1
      <3>3. CASE InPiece(2, i)
        <4>1. (i - Offset14[2]) + 1 = i - 37 /\ Name14[2] = "put"
          BY Places14
        <4>2. file1'[i + 1] = <<"put", i - 37>>
          BY <2>1, <2>5, <3>3, <4>1
        <4> QED
          BY <2>5, <3>3, <4>2
      <3>4. CASE ~InPiece(2, i)
        BY <2>1, <2>3, <2>5, <3>1, <3>2, <3>4
      <3> QED
        BY <3>3, <3>4
    <2>6. CASE p = 3
      BY <2>1, <2>2, <2>3, <2>6, Places14 DEF Size1
    <2> QED
      BY <2>4, <2>5, <2>6
  <1> QED
    BY <1>1, <1>2, <1>3 DEF File1Has, InPiece, NUL

-----------------------------------------------------------------------------
\* The pieces of file 2 are apart: the order they are put in does not matter.
LEMMA Apart ==
    ASSUME NEW p \in 4 .. 9, NEW q \in 4 .. 9, p # q, NEW i \in Nat, InPiece(p, i)
    PROVE  ~InPiece(q, i)
  <1>1. InPiece(p, i) => \/ p = 4 /\ i \in 0 .. 9
                         \/ p = 5 /\ i \in 20 .. 29
                         \/ p = 6 /\ i \in 40 .. 49
                         \/ p = 7 /\ i \in 10 .. 19
                         \/ p = 8 /\ i \in 30 .. 39
                         \/ p = 9 /\ i \in 60 .. 69
    BY Places14 DEF InPiece
  <1>2. InPiece(q, i) => \/ q = 4 /\ i \in 0 .. 9
                         \/ q = 5 /\ i \in 20 .. 29
                         \/ q = 6 /\ i \in 40 .. 49
                         \/ q = 7 /\ i \in 10 .. 19
                         \/ q = 8 /\ i \in 30 .. 39
                         \/ q = 9 /\ i \in 60 .. 69
    BY Places14 DEF InPiece
  <1> QED
    BY <1>1, <1>2

\* Where file 2 ends after a piece more.
LEMMA Ends ==
    ASSUME NEW k \in 4 .. 9
    PROVE  /\ \A p \in 4 .. k - 1 : Offset14[p] + Length14[p] <= End2(k - 1)
           /\ End2(k - 1) \in Nat
           /\ End2(k) = IF End2(k - 1) < Offset14[k] + Length14[k] THEN Offset14[k] + Length14[k]
                        ELSE End2(k - 1)
  <1>1. k = 4 \/ k = 5 \/ k = 6 \/ k = 7 \/ k = 8 \/ k = 9
    OBVIOUS
  <1> QED
    BY <1>1, Places14 DEF End2

\* File 2, a piece more.
LEMMA File2Step ==
    ASSUME NEW k \in 4 .. 9, MaybeFile(before2), File2Has(k - 1), before2' = before2,
           file2' = Overwrite(file2, Pieces[k].offset, Pieces[k].data)
    PROVE  File2Has(k)'
  <1>1. /\ file2' \in Seq(Octets)
        /\ Len(file2') = IF Len(file2) < Offset14[k] + Length14[k] THEN Offset14[k] + Length14[k]
                         ELSE Len(file2)
        /\ \A i \in 0 .. Len(file2') - 1 :
              file2'[i + 1] = IF InPiece(k, i) THEN <<Name14[k], (i - Offset14[k]) + 1>>
                              ELSE IF i < Len(file2) THEN file2[i + 1] ELSE NUL
    <2>1. file2 \in Seq(Octets) /\ k \in 1 .. 9
      BY DEF File2Has
    <2> QED
      BY <2>1, PutPiece
  <1>0. Offset14[k] \in Nat /\ Length14[k] \in Nat
    <2>1. k \in 1 .. 9
      OBVIOUS
    <2> QED
      BY <2>1, PieceIs
  <1>2. Length0 \in Nat /\ Size2(k - 1) \in Nat /\ Size2(k) \in Nat
    <2>1. End2(k - 1) \in Nat /\ End2(k) \in Nat
      BY <1>0, Ends
    <2> QED
      BY <2>1 DEF Length0, Size2, MaybeFile
  <1>3. Len(file2) = Size2(k - 1) /\ Len(file2') = Size2(k)
    <2>1. Offset14[k] + Length14[k] \in Nat /\ Length0 \in Nat
      BY <1>0, <1>2
    <2>2. Len(file2) = Size2(k - 1)
      BY DEF File2Has
    <2>3. /\ End2(k - 1) \in Nat
          /\ End2(k) = IF End2(k - 1) < Offset14[k] + Length14[k] THEN Offset14[k] + Length14[k]
                       ELSE End2(k - 1)
      BY Ends
    <2> QED
      BY <1>1, <1>2, <2>1, <2>2, <2>3 DEF Size2
  <1>4. ASSUME NEW i \in 0 .. Size2(k) - 1
        PROVE  /\ \A p \in 4 .. k : InPiece(p, i) => file2'[i + 1] = <<Name14[p], (i - Offset14[p]) + 1>>
               /\ (\A p \in 4 .. k : ~InPiece(p, i)) => file2'[i + 1] = Held(i)
    <2>1. file2'[i + 1] = IF InPiece(k, i) THEN <<Name14[k], (i - Offset14[k]) + 1>>
                          ELSE IF i < Size2(k - 1) THEN file2[i + 1] ELSE NUL
      BY <1>1, <1>3
    <2>2. i < Size2(k - 1) =>
             /\ \A p \in 4 .. k - 1 : InPiece(p, i) => file2[i + 1] = <<Name14[p], (i - Offset14[p]) + 1>>
             /\ (\A p \in 4 .. k - 1 : ~InPiece(p, i)) => file2[i + 1] = Held(i)
      BY <1>2, <1>3 DEF File2Has
    <2>3. CASE InPiece(k, i)
      <3>1. \A p \in 4 .. k : p # k => ~InPiece(p, i)
        BY <1>2, <2>3, Apart
      <3> QED
        BY <2>1, <2>3, <3>1
    <2>4. CASE ~InPiece(k, i) /\ i < Size2(k - 1)
      <3>1. file2'[i + 1] = file2[i + 1]
        BY <2>1, <2>4
      <3>2. \A p \in 4 .. k : p # k => p \in 4 .. k - 1
        OBVIOUS
      <3>3. \A p \in 4 .. k - 1 : p \in 4 .. k
        OBVIOUS
      <3> QED
        BY <2>2, <2>4, <3>1, <3>2, <3>3
    <2>5. CASE ~InPiece(k, i) /\ ~(i < Size2(k - 1))
      <3>1. \A p \in 4 .. k : ~InPiece(p, i)
        <4>1. ASSUME NEW p \in 4 .. k - 1 PROVE ~InPiece(p, i)
          <5>1. Offset14[p] + Length14[p] <= End2(k - 1) /\ End2(k - 1) <= Size2(k - 1)
            BY <1>2, Ends DEF Size2
          <5>2. Offset14[p] \in Nat /\ Length14[p] \in Nat
            <6>1. p \in 1 .. 9
              OBVIOUS
            <6> QED
              BY <6>1, PieceIs
          <5> QED
            BY <1>2, <2>5, <5>1, <5>2, Ends DEF InPiece
        <4> QED
          BY <2>5, <4>1
      <3>2. Held(i) = NUL
        BY <1>2, <2>5, Ends DEF Held, Size2
      <3> QED
        BY <2>1, <2>5, <3>1, <3>2
    <2> QED
      BY <2>3, <2>4, <2>5
  <1> QED
    BY <1>1, <1>3, <1>4 DEF File2Has, Size2, End2, Length0, Held, InPiece, NUL

\* The contents of a file do not change while the file does not.
LEMMA SameFile1 == ASSUME file1' = file1, NEW k, File1Has(k) PROVE File1Has(k)'
  BY DEF File1Has, InPiece, NUL, Size1

LEMMA SameFile2 ==
    ASSUME file2' = file2, before2' = before2, NEW k, File2Has(k)
    PROVE  File2Has(k)'
  BY DEF File2Has, InPiece, NUL, Size2, End2, Length0, Held

\* The steps of Lab_14, one lemma each.
LEMMA Start14Inv == ASSUME IInv14, Start14 PROVE IInv14'
  <1>1. /\ program = 14 /\ program' = 14 /\ healthy' \in BOOLEAN
        /\ pc' = "open" /\ n' = 1
        /\ before2' = file2 /\ file1' = file1 /\ file2' = file2 /\ read14' = ReadNothing
    BY DEF Start14, Start
  <1>2. Type14
    BY <1>1 DEF IInv14
  <1>3. DOMAIN ReadNothing = {"forward", "backward", "view"}
    BY DEF ReadNothing
  <1>4. Type14'
    BY <1>1, <1>2, <1>3 DEF Type14, MaybeFile
  <1>5. Healthy14'
    BY <1>1 DEF Healthy14
  <1> QED
    BY <1>1, <1>4, <1>5 DEF IInv14

\* File 2 as ensureFileExists leaves it in a healthy run has none of its pieces yet.
LEMMA NoPiece ==
    /\ MaybeFile(file2) /\ file2 = before2 /\ before2' = before2 /\ file2' = OrEmpty(file2)
          => File2Has(3)'
    /\ MaybeFile(file2) => ensureFileExists(file2) \subseteq Seq(Octets)
  <1>1. MaybeFile(file2) => /\ OrEmpty(file2) \in Seq(Octets)
                            /\ ensureFileExists(file2) \subseteq Seq(Octets)
    <2>1. <<>> \in Seq(Octets) /\ (MaybeFile(file2) => OrEmpty(file2) \in Seq(Octets))
      BY DEF MaybeFile, OrEmpty
    <2>2. \A left \in ensureFileExists(file2) : left = OrEmpty(file2) \/ left = <<>>
      BY DEF ensureFileExists
    <2> QED
      BY <2>1, <2>2
  <1> SUFFICES ASSUME MaybeFile(file2), file2 = before2, before2' = before2,
                      file2' = OrEmpty(file2)
               PROVE  File2Has(3)'
    BY <1>1
  <1>2. file2' \in Seq(Octets)
    BY <1>1
  <1>3. End2(3) = 0 /\ Length0 \in Nat
    BY DEF End2, Length0, MaybeFile
  <1>4. Len(file2') = Size2(3) /\ Len(file2') = Length0
    BY <1>2, <1>3 DEF Size2, Length0, OrEmpty, MaybeFile
  <1>5. ASSUME NEW i \in 0 .. Length0 - 1 PROVE file2'[i + 1] = Held(i)
    BY <1>3, <1>4 DEF Held, Length0, OrEmpty
  <1> QED
    BY <1>2, <1>4, <1>5 DEF File2Has, Size2, End2, Length0, Held, NUL

LEMMA OpenInv == ASSUME IInv14, program = 14, Open PROVE IInv14'
  <1>1. /\ program' = 14 /\ healthy' = healthy /\ pc = "open" /\ pc' = "put" /\ n' = n
        /\ n = 1 => file1' = <<>> /\ file2' = file2
        /\ n # 1 => file2' \in ensureFileExists(file2) /\ file1' = file1
        /\ n # 1 /\ healthy => file2' = OrEmpty(file2)
        /\ read14' = ReadNothing /\ before2' = before2
    BY DEF Open, Goto, ensureFileExists
  <1>2. Type14 /\ (healthy => Healthy14)
    BY DEF IInv14
  <1>3. DOMAIN ReadNothing = {"forward", "backward", "view"}
    BY DEF ReadNothing
  <1>4. n \in {1, 4, 7}
    BY <1>1, <1>2 DEF Type14
  <1>5. Type14'
    <2>1. <<>> \in Seq(Octets) /\ ensureFileExists(file2) \subseteq Seq(Octets)
      BY <1>2, NoPiece DEF Type14
    <2>2. /\ MaybeFile(file1') /\ MaybeFile(file2') /\ MaybeFile(before2')
          /\ n <= 3 => file1' \in Seq(Octets)
          /\ n > 3 => file2' \in Seq(Octets)
      <3>1. MaybeFile(file1) /\ MaybeFile(file2) /\ MaybeFile(before2)
        BY <1>2 DEF Type14
      <3>2. CASE n = 1
        BY <1>1, <2>1, <3>1, <3>2 DEF MaybeFile
      <3>3. CASE n \in {4, 7}
        BY <1>1, <2>1, <3>1, <3>3 DEF MaybeFile
      <3> QED
        BY <1>4, <3>2, <3>3
    <2> QED
      BY <1>1, <1>2, <1>3, <1>4, <2>2 DEF Type14, MaybeFile
  <1>6. ASSUME healthy PROVE Healthy14'
    <2>1. CASE n = 1
      <3>1. File1Has(0)'
        BY <1>1, <2>1 DEF File1Has, Size1
      <3> QED
        BY <1>1, <1>2, <1>6, <2>1, <3>1 DEF Healthy14
    <2>2. CASE n = 4
      <3>1. file2 = before2 /\ File1Has(3)
        BY <1>1, <1>2, <1>6, <2>2 DEF Healthy14
      <3>2. File1Has(3)' /\ File2Has(3)'
        BY <1>1, <1>2, <1>6, <2>2, <3>1, SameFile1, NoPiece DEF Type14
      <3> QED
        BY <1>1, <2>2, <3>2 DEF Healthy14
    <2>3. CASE n = 7
      <3>1. File1Has(3) /\ File2Has(6)
        BY <1>1, <1>2, <1>6, <2>3 DEF Healthy14
      <3>2. file2' = file2
        BY <1>1, <1>6, <2>3, <3>1, Lab14Assumption DEF OrEmpty, File2Has
      <3>3. File1Has(3)' /\ File2Has(6)'
        BY <1>1, <2>3, <3>1, <3>2, SameFile1, SameFile2
      <3> QED
        BY <1>1, <2>3, <3>3 DEF Healthy14
    <2> QED
      BY <1>4, <2>1, <2>2, <2>3
  <1> QED
    BY <1>1, <1>5, <1>6 DEF IInv14

LEMMA OpenFailsInv == ASSUME IInv14, program = 14, OpenFails PROVE IInv14'
  <1>1. /\ healthy' = healthy /\ ~healthy /\ pc = "open" /\ program' = 14
        /\ read14' = ReadNothing /\ before2' = before2 /\ file1' = file1
        /\ file2' \in {file2} \cup ensureFileExists(file2)
        /\ n = 1 => pc' = "read" /\ n' = 3
        /\ n = 4 => pc' = "open" /\ n' = 7
        /\ n = 7 => pc' = "ended"
    BY DEF OpenFails, AfterPiece, Goto
  <1>2. Type14 /\ n \in {1, 4, 7}
    BY <1>1 DEF IInv14, Type14
  <1>3. DOMAIN ReadNothing = {"forward", "backward", "view"}
    BY DEF ReadNothing
  <1>4. Type14'
    BY <1>1, <1>2, <1>3, NoPiece DEF Type14, MaybeFile
  <1> QED
    BY <1>1, <1>4 DEF IInv14

LEMMA PutInv == ASSUME IInv14, program = 14, Put PROVE IInv14'
  <1>1. /\ program' = 14 /\ healthy' = healthy /\ pc = "put"
        /\ n <= 3 => file1' = Overwrite(file1, Pieces[n].offset, Pieces[n].data) /\ file2' = file2
        /\ ~(n <= 3) => file2' = Overwrite(file2, Pieces[n].offset, Pieces[n].data) /\ file1' = file1
        /\ before2' = before2 /\ read14' = read14
        /\ n % 3 = 0 => pc' = "read" /\ n' = n
        /\ n % 3 # 0 => pc' = "put" /\ n' = n + 1
    BY DEF Put, PutInto, Goto
  <1>2. Type14 /\ n \in 1 .. 9 /\ (healthy => Healthy14)
    BY <1>1 DEF IInv14, Type14
  <1>3. /\ n \in {3, 6, 9} => pc' = "read" /\ n' = n
        /\ n \notin {3, 6, 9} => pc' = "put" /\ n' = n + 1
    BY <1>1, <1>2
  <1>4. /\ n <= 3 => file1' \in Seq(Octets)
        /\ n > 3 => file2' \in Seq(Octets)
    BY <1>1, <1>2, PutPiece DEF Type14
  <1>5. Type14'
    BY <1>1, <1>2, <1>3, <1>4 DEF Type14, MaybeFile
  <1>6. PICK k \in 1 .. 9 : k = n
    BY <1>2
  <1>7. ASSUME healthy PROVE Healthy14'
    <2>1. CASE k <= 3
      <3>1. k \in 1 .. 3 /\ File1Has(k - 1) /\ file2 = before2
        BY <1>1, <1>2, <1>6, <1>7, <2>1 DEF Healthy14
      <3>2. file1' = Overwrite(file1, Pieces[k].offset, Pieces[k].data)
        BY <1>1, <1>6, <2>1
      <3>3. File1Has(k)'
        BY <3>1, <3>2, File1Step
      <3>4. /\ n' \in 1 .. 3 /\ pc' \in {"put", "read"} /\ ~(n' > 3)
            /\ k = 3 => n' = 3 /\ pc' = "read"
            /\ k # 3 => n' - 1 = k /\ pc' = "put"
        BY <1>3, <1>6, <3>1
      <3>5. before2' = before2 /\ file2' = file2
        BY <1>1, <1>6, <2>1
      <3>6. pc' = "put" => File1Has(n - 1)'
        BY <3>3, <3>4 DEF File1Has, InPiece, NUL, Size1
      <3>7. pc' = "read" => n' = 3 /\ File1Has(3)'
        BY <3>1, <3>3, <3>4
      <3> QED
        BY <3>1, <3>4, <3>5, <3>6, <3>7 DEF Healthy14
    <2>2. CASE k > 3
      <3>1. k \in 4 .. 9 /\ File1Has(3) /\ File2Has(k - 1) /\ MaybeFile(before2)
        BY <1>1, <1>2, <1>6, <1>7, <2>2 DEF Healthy14, Type14
      <3>2. file2' = Overwrite(file2, Pieces[k].offset, Pieces[k].data) /\ file1' = file1
        BY <1>1, <1>6, <2>2
      <3>3. File2Has(k)'
        BY <1>1, <3>1, <3>2, File2Step
      <3>4. File1Has(3)'
        BY <3>1, <3>2, SameFile1
      <3>5. /\ n' \in 4 .. 9 /\ pc' \in {"read", "put"}
            /\ pc' = "read" => n' = k
            /\ pc' = "put" => n' - 1 = k
        BY <1>3, <1>6, <3>1
      <3>6. pc' = "put" => File2Has(n - 1)'
        BY <3>3, <3>5 DEF File2Has, InPiece, NUL, Size2, End2, Length0, Held
      <3>7. pc' = "read" => File2Has(n)'
        BY <3>3, <3>5 DEF File2Has, InPiece, NUL, Size2, End2, Length0, Held
      <3> QED
        BY <3>1, <3>4, <3>5, <3>6, <3>7 DEF Healthy14
    <2> QED
      BY <2>1, <2>2
  <1> QED
    BY <1>1, <1>5, <1>7 DEF IInv14

LEMMA PutFailsInv == ASSUME IInv14, program = 14, PutFails PROVE IInv14'
  <1>1. PICK k \in TornLengths, again \in BOOLEAN :
           /\ k < Len(Pieces[n].data)
           /\ PutInto(SubSeq(Pieces[n].data, 1, k) \o IF again THEN Pieces[n].data ELSE <<>>)
    BY DEF PutFails
  <1>2. /\ program' = 14 /\ healthy' = healthy /\ ~healthy /\ pc = "put" /\ pc' = "read"
        /\ n' = (n + 2) - ((n + 2) % 3)
        /\ before2' = before2 /\ read14' = read14
    BY DEF PutFails, Goto
  <1>3. Type14 /\ n \in 1 .. 9
    BY <1>2 DEF IInv14, Type14
  <1> DEFINE piece == Pieces[n].data
             data == SubSeq(piece, 1, k) \o IF again THEN piece ELSE <<>>
  <1>4. data \in Seq(Octets)
    <2>1. k \in Nat /\ piece \in Seq(Octets) /\ k < Len(piece)
      BY <1>1, <1>3, PieceIs, FileRunsAssumption
    <2>2. SubSeq(piece, 1, k) \in Seq(Octets)
      <3> HIDE DEF piece
      <3>1. 1 \in 1 .. Len(piece) + 1 /\ k \in 0 .. Len(piece)
        BY <2>1
      <3> QED
        BY <2>1, <3>1, SubSeqProperties
    <2>3. (IF again THEN piece ELSE <<>>) \in Seq(Octets)
      BY <2>1
    <2> QED
      BY <2>2, <2>3, ConcatProperties
  <1>5. NUL \in Octets /\ Pieces[n].offset \in Nat
    BY <1>3, PieceIs DEF NUL, Octets
  <1>6. \A file \in Seq(Octets) : Overwrite(file, Pieces[n].offset, data) \in Seq(Octets)
    <2> HIDE DEF data
    <2> QED
      BY <1>4, <1>5, Overwriting
  <1>7. /\ n <= 3 => file1' \in Seq(Octets) /\ file2' = file2
        /\ n > 3 => file2' \in Seq(Octets) /\ file1' = file1
    BY <1>1, <1>2, <1>3, <1>6 DEF PutInto, Type14
  <1>8. n' \in {3, 6, 9}
    BY <1>2, <1>3
  <1>9. Type14'
    BY <1>2, <1>3, <1>7, <1>8 DEF Type14, MaybeFile
  <1> QED
    BY <1>2, <1>9 DEF IInv14

LEMMA ReadBackInv == ASSUME IInv14, program = 14, ReadBack PROVE IInv14'
  <1>1. /\ program' = 14 /\ healthy' = healthy /\ pc = "read"
        /\ file1' = file1 /\ file2' = file2 /\ before2' = before2
    <2>1. /\ pc = "read" /\ AfterPiece(n)
          /\ file1' = file1 /\ file2' = file2 /\ before2' = before2
      BY DEF ReadBack
    <2> QED
      BY <2>1 DEF AfterPiece, Goto
  <1>2. Type14 /\ n \in {3, 6, 9} /\ (healthy => Healthy14)
    BY <1>1 DEF IInv14, Type14
  <1>3. /\ n = 3 => pc' = "open" /\ n' = 4
        /\ n = 6 => pc' = "open" /\ n' = 7
        /\ n = 9 => pc' = "ended"
    <2>1. AfterPiece(n)
      BY DEF ReadBack
    <2> QED
      BY <2>1 DEF AfterPiece, Goto
  <1>4. \/ /\ n = 3 /\ file1 # Missing
           /\ \E octets \in readWholeStream(file1), again \in readWholeStream(file1) :
                 read14' = [read14 EXCEPT !.forward = octets, !.backward = backwards(again)]
        \/ n = 3 /\ (file1 = Missing \/ ~healthy) /\ read14' = read14
        \/ n > 3 /\ \E octets \in readWholeStream(file2) : read14' = [read14 EXCEPT !.view = octets]
    BY DEF ReadBack
  <1>5. DOMAIN read14' = {"forward", "backward", "view"}
    BY <1>2, <1>4 DEF Type14
  <1>6. Type14'
    BY <1>1, <1>2, <1>3, <1>5 DEF Type14, MaybeFile
  <1>7. ASSUME healthy PROVE Healthy14'
    <2>1. readWholeStream(file1) = {file1} /\ readWholeStream(file2) = {file2}
      BY <1>7 DEF readWholeStream
    <2>2. CASE n = 3
      <3>1. File1Has(3) /\ file2 = before2
        BY <1>1, <1>2, <1>7, <2>2 DEF Healthy14
      <3>2. file1 \in Seq(Octets) /\ file1 # Missing
        BY <3>1, Lab14Assumption DEF File1Has
      <3>3. read14' = [read14 EXCEPT !.forward = file1, !.backward = backwards(file1)]
        BY <1>4, <1>7, <2>1, <2>2, <3>2
      <3>4. read14'.forward = file1 /\ read14'.backward = backwards(file1)
        BY <1>2, <3>3 DEF Type14
      <3>5. \A i \in 1 .. Len(file1) : backwards(file1)[i] = file1[(Len(file1) + 1) - i]
        BY <3>2 DEF backwards
      <3>6. BothWays'
        BY <1>1, <3>4, <3>5 DEF BothWays
      <3> QED
        BY <1>1, <1>3, <2>2, <3>1, <3>6, SameFile1 DEF Healthy14
    <2>3. CASE n = 6
      <3>1. File1Has(3) /\ File2Has(6)
        BY <1>1, <1>2, <1>7, <2>3 DEF Healthy14
      <3> QED
        BY <1>1, <1>3, <2>3, <3>1, SameFile1, SameFile2 DEF Healthy14
    <2>4. CASE n = 9
      <3>1. File1Has(3) /\ File2Has(9)
        BY <1>1, <1>2, <1>7, <2>4 DEF Healthy14
      <3>2. read14'.view = file2
        BY <1>2, <1>4, <2>1, <2>4 DEF Type14
      <3> QED
        BY <1>1, <1>3, <2>4, <3>1, <3>2, SameFile1, SameFile2 DEF Healthy14
    <2> QED
      BY <1>2, <2>2, <2>3, <2>4
  <1> QED
    BY <1>1, <1>6, <1>7 DEF IInv14

\* No program has run.
LEMMA InitInv14 == Init => IInv14
  <1> SUFFICES ASSUME Init, program = 14 PROVE IInv14
    BY DEF IInv14
  <1>1. /\ pc = "idle" /\ healthy = TRUE /\ file1 = Missing
        /\ file2 \in Leftovers14 /\ before2 = file2 /\ read14 = ReadNothing
    BY DEF Init, RunInit, Init14
  <1>2. DOMAIN ReadNothing = {"forward", "backward", "view"}
    BY DEF ReadNothing
  <1> QED
    BY <1>1, <1>2, Lab14Assumption DEF IInv14, Type14, MaybeFile, Healthy14

\* Every step of any of the four programs, and a kill.
LEMMA StepInv14 == IInv14 /\ [Next]_vars => IInv14'
  <1> SUFFICES ASSUME IInv14, [Next]_vars, program = 14 PROVE IInv14'
    BY OneProgram DEF IInv14
  <1>1. CASE UNCHANGED vars
    <2>1. UNCHANGED <<runVars, vars14>>
      BY <1>1 DEF vars
    <2>2. \A k : (File1Has(k) => File1Has(k)') /\ (File2Has(k) => File2Has(k)')
      BY <2>1, SameFile1, SameFile2 DEF vars14
    <2> QED
      BY <2>1, <2>2 DEF IInv14, Type14, MaybeFile, Healthy14, BothWays, runVars, vars14
  <1>2. CASE Start14
    BY <1>2, Start14Inv
  <1>3. CASE Step14
    BY <1>3, OpenInv, OpenFailsInv, PutInv, PutFailsInv, ReadBackInv DEF Step14
  <1>4. CASE Killed
    <2>1. /\ healthy' = healthy /\ program' = program /\ pc' = "killed"
          /\ UNCHANGED vars14
      BY <1>4 DEF Killed, Kill
    <2> QED
      BY <2>1 DEF IInv14, Type14, Healthy14, MaybeFile, vars14
  <1> QED
    BY <1>1, <1>2, <1>3, <1>4, OneProgram DEF Program14

\* Lab_14's inductive invariant, whatever file 2 held before the first run.
THEOREM Lab14Invariance == Spec => []IInv14
  BY InitInv14, StepInv14, PTL DEF Spec

\* At the end the invariant says what the property asks of every byte.
LEMMA RecordsInv == IInv14 => RecordsInPlace
  <1> SUFFICES ASSUME IInv14, program = 14, healthy PROVE RecordsInPlace
    BY DEF RecordsInPlace
  <1> DEFINE byte1(i) == CASE i \in 38 .. 47   -> <<"put", i - 37>>
                           [] i \in 79 .. 99   -> NUL
                           [] i \in 100 .. 135 -> <<"tail", i - 99>>
                           [] OTHER            -> <<"base", i + 1>>
             names == <<"01", "02", "03", "04", "05", "06", "07">>
             size2 == IF before2 = Missing \/ Len(OrEmpty(before2)) < 70 THEN 70 ELSE Len(before2)
             held(i) == IF i < Len(OrEmpty(before2)) THEN before2[i + 1] ELSE NUL
             byte2(i) == IF i \in 0 .. 49 \/ i \in 60 .. 69
                         THEN <<names[(i \div 10) + 1], (i % 10) + 1>>
                         ELSE held(i)
  <1>1. Healthy14 /\ Type14
    BY DEF IInv14
  <1>2. ASSUME File1Has(3) PROVE Len(file1) = 136 /\ \A i \in 0 .. 135 : file1[i + 1] = byte1(i)
    <2>1. Len(file1) = 136
      BY <1>2 DEF File1Has, Size1
    <2>2. ASSUME NEW i \in 0 .. 135 PROVE file1[i + 1] = byte1(i)
      <3>1. /\ InPiece(1, i) <=> i < 79
            /\ InPiece(2, i) <=> i \in 38 .. 47
            /\ InPiece(3, i) <=> i \in 100 .. 135
        BY Places14 DEF InPiece
      <3>2. file1[i + 1] = IF i \in 100 .. 135 THEN <<"tail", i - 99>>
                           ELSE IF i \in 38 .. 47 THEN <<"put", i - 37>>
                           ELSE IF i < 79 THEN <<"base", i + 1>> ELSE NUL
        <4>1. i \in 0 .. Len(file1) - 1
          BY <2>1
        <4>2. file1[i + 1] = IF 3 >= 3 /\ InPiece(3, i) THEN <<"tail", i - 99>>
                             ELSE IF 3 >= 2 /\ InPiece(2, i) THEN <<"put", i - 37>>
                             ELSE IF InPiece(1, i) THEN <<"base", i + 1>> ELSE NUL
          BY <1>2, <4>1, Zenon DEF File1Has
        <4>3. 3 >= 3 /\ 3 >= 2
          OBVIOUS
        <4> HIDE DEF InPiece
        <4> QED
          BY <3>1, <4>2, <4>3
      <3>3. CASE i \in 38 .. 47
        BY <3>2, <3>3
      <3>4. CASE i \in 79 .. 99
        BY <3>2, <3>4
      <3>5. CASE i \in 100 .. 135
        BY <3>2, <3>5
      <3>6. CASE i \notin 38 .. 47 /\ i \notin 79 .. 135
        BY <3>2, <3>6
      <3> QED
        BY <3>3, <3>4, <3>5, <3>6
    <2> QED
      BY <2>1, <2>2
  <1>3. ASSUME File2Has(9) PROVE Len(file2) = size2 /\ \A i \in 0 .. size2 - 1 : file2[i + 1] = byte2(i)
    <2>1. Length0 = Len(OrEmpty(before2)) /\ Length0 \in Nat
      BY <1>1 DEF Type14, MaybeFile, Length0, OrEmpty
    <2>2. Len(file2) = size2
      BY <1>3, <2>1 DEF File2Has, Size2, End2, Length0
    <2>3. ASSUME NEW i \in 0 .. size2 - 1 PROVE file2[i + 1] = byte2(i)
      <3>0. i \in Nat
        OBVIOUS
      <3>1. /\ \A p \in 4 .. 9 : InPiece(p, i) => file2[i + 1] = <<Name14[p], (i - Offset14[p]) + 1>>
            /\ (\A p \in 4 .. 9 : ~InPiece(p, i)) => file2[i + 1] = Held(i)
        BY <1>3, <2>2 DEF File2Has
      <3>2. Held(i) = held(i)
        BY <2>1 DEF Held
      <3>3. CASE i \in 0 .. 49 \/ i \in 60 .. 69
        <4>1. /\ names[1] = "01" /\ names[2] = "02" /\ names[3] = "03" /\ names[4] = "04"
              /\ names[5] = "05" /\ names[7] = "07"
          OBVIOUS
        <4>2. file2[i + 1] = <<names[(i \div 10) + 1], (i % 10) + 1>>
          <5> HIDE DEF names
          <5>1. CASE i \in 0 .. 9
            <6>1. InPiece(4, i) /\ 4 \in 4 .. 9
              BY <5>1, Places14 DEF InPiece
            <6>2. (i \div 10) + 1 = 1 /\ i % 10 = i - 0
              BY <5>1
            <6>3. file2[i + 1] = <<Name14[4], (i - Offset14[4]) + 1>>
              BY <3>1, <6>1
            <6>4. names[(i \div 10) + 1] = Name14[4] /\ i % 10 = i - Offset14[4]
              BY <4>1, <6>2, Places14
            <6> QED
              BY <6>3, <6>4
          <5>2. CASE i \in 10 .. 19
            <6>1. InPiece(7, i) /\ 7 \in 4 .. 9
              BY <5>2, Places14 DEF InPiece
            <6>2. (i \div 10) + 1 = 2 /\ i % 10 = i - 10
              BY <5>2
            <6>3. file2[i + 1] = <<Name14[7], (i - Offset14[7]) + 1>>
              BY <3>1, <6>1
            <6>4. names[(i \div 10) + 1] = Name14[7] /\ i % 10 = i - Offset14[7]
              BY <4>1, <6>2, Places14
            <6> QED
              BY <6>3, <6>4
          <5>3. CASE i \in 20 .. 29
            <6>1. InPiece(5, i) /\ 5 \in 4 .. 9
              BY <5>3, Places14 DEF InPiece
            <6>2. (i \div 10) + 1 = 3 /\ i % 10 = i - 20
              BY <5>3
            <6>3. file2[i + 1] = <<Name14[5], (i - Offset14[5]) + 1>>
              BY <3>1, <6>1
            <6>4. names[(i \div 10) + 1] = Name14[5] /\ i % 10 = i - Offset14[5]
              BY <4>1, <6>2, Places14
            <6> QED
              BY <6>3, <6>4
          <5>4. CASE i \in 30 .. 39
            <6>1. InPiece(8, i) /\ 8 \in 4 .. 9
              BY <5>4, Places14 DEF InPiece
            <6>2. (i \div 10) + 1 = 4 /\ i % 10 = i - 30
              BY <5>4
            <6>3. file2[i + 1] = <<Name14[8], (i - Offset14[8]) + 1>>
              BY <3>1, <6>1
            <6>4. names[(i \div 10) + 1] = Name14[8] /\ i % 10 = i - Offset14[8]
              BY <4>1, <6>2, Places14
            <6> QED
              BY <6>3, <6>4
          <5>5. CASE i \in 40 .. 49
            <6>1. InPiece(6, i) /\ 6 \in 4 .. 9
              BY <5>5, Places14 DEF InPiece
            <6>2. (i \div 10) + 1 = 5 /\ i % 10 = i - 40
              BY <5>5
            <6>3. file2[i + 1] = <<Name14[6], (i - Offset14[6]) + 1>>
              BY <3>1, <6>1
            <6>4. names[(i \div 10) + 1] = Name14[6] /\ i % 10 = i - Offset14[6]
              BY <4>1, <6>2, Places14
            <6> QED
              BY <6>3, <6>4
          <5>6. CASE i \in 60 .. 69
            <6>1. InPiece(9, i) /\ 9 \in 4 .. 9
              BY <5>6, Places14 DEF InPiece
            <6>2. (i \div 10) + 1 = 7 /\ i % 10 = i - 60
              BY <5>6
            <6>3. file2[i + 1] = <<Name14[9], (i - Offset14[9]) + 1>>
              BY <3>1, <6>1
            <6>4. names[(i \div 10) + 1] = Name14[9] /\ i % 10 = i - Offset14[9]
              BY <4>1, <6>2, Places14
            <6> QED
              BY <6>3, <6>4
          <5>7. \/ i \in 0 .. 9 \/ i \in 10 .. 19 \/ i \in 20 .. 29
                \/ i \in 30 .. 39 \/ i \in 40 .. 49 \/ i \in 60 .. 69
            BY <3>0, <3>3
          <5> QED
            BY <5>1, <5>2, <5>3, <5>4, <5>5, <5>6, <5>7
        <4> QED
          BY <3>3, <4>2
      <3>4. CASE ~(i \in 0 .. 49 \/ i \in 60 .. 69)
        <4>1. /\ ~InPiece(4, i) /\ ~InPiece(5, i) /\ ~InPiece(6, i)
              /\ ~InPiece(7, i) /\ ~InPiece(8, i) /\ ~InPiece(9, i)
          BY <3>0, <3>4, Places14 DEF InPiece
        <4>2. \A p \in 4 .. 9 : ~InPiece(p, i)
          <5>1. \A p \in 4 .. 9 : p = 4 \/ p = 5 \/ p = 6 \/ p = 7 \/ p = 8 \/ p = 9
            OBVIOUS
          <5> QED
            BY <4>1, <5>1, Zenon
        <4> QED
          BY <3>1, <3>2, <3>4, <4>2
      <3> QED
        BY <3>3, <3>4
    <2> QED
      BY <2>2, <2>3
  <1>4. ASSUME pc = "open", n = 4 PROVE File1Has(3) /\ BothWays
    BY <1>1, <1>4 DEF Healthy14
  <1>5. ASSUME pc = "ended" PROVE File1Has(3) /\ File2Has(9) /\ read14.view = file2
    BY <1>1, <1>5 DEF Healthy14
  <1>6. ASSUME File1Has(3), BothWays
        PROVE  /\ read14.forward = file1
               /\ \A i \in 1 .. 136 : read14.backward[i] = file1[137 - i]
    <2>1. Len(file1) = 136
      BY <1>2, <1>6
    <2>2. Len(file1) + 1 = 137
      BY <2>1
    <2> QED
      BY <1>6, <2>1, <2>2 DEF BothWays
  <1> HIDE DEF byte1, byte2, size2
  <1>7. /\ (pc = "open" /\ n = 4) \/ pc = "ended" =>
              /\ Len(file1) = 136
              /\ \A i \in 0 .. 135 : file1[i + 1] = byte1(i)
        /\ pc = "open" /\ n = 4 =>
              /\ read14.forward = file1
              /\ \A i \in 1 .. 136 : read14.backward[i] = file1[137 - i]
        /\ pc = "ended" =>
              /\ Len(file2) = size2
              /\ \A i \in 0 .. size2 - 1 : file2[i + 1] = byte2(i)
              /\ read14.view = file2
    BY <1>2, <1>3, <1>4, <1>5, <1>6
  <1> QED
    BY <1>7 DEF RecordsInPlace, byte1, byte2, size2

\* Every byte that lab 14 puts is at its offset at the end of a run in which nothing
\* failed: the later pieces over the earlier, NUL in the gap that seekp leaves, and what file 2
\* held before wherever no piece went; all of it as the program reads it back.
THEOREM Lab14Records == Spec => []RecordsInPlace
  BY Lab14Invariance, RecordsInv, PTL

-----------------------------------------------------------------------------
(* Lab_15 *)

\* The names of the fixture, numbered, and the directory as it was when the run began.
Files == Len(Fixture)
Old == atStart.dir

\* Only mysymlink is a symbolic link.
Directory(d) ==
    /\ d \in [Names -> Inodes \cup {Missing, Symlink}]
    /\ \A name \in Names : d[name] = Symlink => name = "mysymlink"
    /\ d["mysymlink"] \notin Inodes

\* Where writeTextFileIfMissing is at work on a file.
Making == {"check", "open", "write", "chmod"}

\* The state of a run of Lab_15, whatever fails in it.
Type15 ==
    /\ healthy \in BOOLEAN /\ asked \in BOOLEAN
    /\ pc \in Making \cup {"idle", "link", "symlink", "snapshot", "ended", "killed"}
    /\ Directory(dir) /\ Directory(Old)
    /\ inodes \in [Inodes -> [data : {"none", "part", "whole"}, mode : {"default", "set"}]]
    /\ pc \in Making \cup {"link", "symlink"} => ~asked /\ shown15 = NoSnapshot
    /\ pc \in Making => n \in 1 .. Files
    /\ pc = "open" => dir[Fixture[n]] = Missing
    /\ pc \in {"write", "chmod"} =>
          /\ dir[Fixture[n]] \in Inodes
          /\ \A name \in Names \ {Fixture[n]} : dir[name] # dir[Fixture[n]]

\* The first k files are there and the run made those that were not; what was there before is
\* as it was.
Entries(k) ==
    /\ \A name \in Names : Old[name] # Missing => SameAsAtStart(name)
    /\ \A j \in 1 .. k :
          /\ dir[Fixture[j]] # Missing
          /\ Old[Fixture[j]] = Missing => inodes[dir[Fixture[j]]] = [data |-> "whole", mode |-> "set"]

\* What the run has not come to yet.
Later(k) ==
    /\ \A j \in k + 1 .. Files : Old[Fixture[j]] = Missing => dir[Fixture[j]] = Missing
    /\ Old["mylink"] = Missing => dir["mylink"] = Missing

\* createHardLinkIfMissing is done: the link is there, to the file i-nodes if it is new.
Linked ==
    /\ dir["mylink"] # Missing
    /\ Old["mylink"] = Missing => dir["mylink"] = dir["i-nodes"]

\* What is in the directory at each place of a run in which nothing fails.
Healthy15 ==
    /\ pc \in {"check", "open"} => Entries(n - 1) /\ Later(n - 1)
    /\ pc \in {"write", "chmod"} => Entries(n - 1) /\ Later(n) /\ Old[Fixture[n]] = Missing
    /\ pc = "chmod" => inodes[dir[Fixture[n]]].data = "whole"
    /\ pc = "link" => Entries(Files) /\ Later(Files)
    /\ pc \in {"symlink", "snapshot", "ended"} => Entries(Files) /\ Linked
    /\ pc \in {"snapshot", "ended"} => dir["mysymlink"] # Missing

\* What stat, fstat and lstat saw agrees.
Looked ==
    pc = "snapshot" /\ shown15 # NoSnapshot =>
        /\ shown15.stat = shown15.fstat
        /\ shown15.lstat # Symlink => shown15.stat = shown15.lstat
        /\ shown15.lstat = Symlink => shown15.stat = dir["i-nodes"]

\* Inductive: of a run of Lab_15 in which nobody removes anything under it.
IInv15 ==
    /\ program = 15 => Type15 /\ (healthy => Looked) /\ (healthy /\ ~asked => Healthy15)
    /\ program # 15 => shown15 = NoSnapshot

\* The names and the markers the model uses for no entry.
LEMMA NamesAre ==
    /\ Files \in Nat /\ Files > 0 /\ Fixture[Files] = "i-nodes"
    /\ \A i \in 1 .. Files : Fixture[i] \in Names \ {"mylink", "mysymlink"}
    /\ "mylink" \in Names /\ "mysymlink" \in Names /\ "i-nodes" \in Names
    /\ \A name \in Names : name \in {"mylink", "mysymlink"} \/ \E i \in 1 .. Files : name = Fixture[i]
    /\ \A i, j \in 1 .. Files : Fixture[i] = Fixture[j] => i = j
    /\ Missing \notin Inodes /\ Symlink \notin Inodes /\ Missing # Symlink
  <1> DEFINE S == STRING \ {"mylink", "mysymlink"}
             links == <<"mylink", "mysymlink">>
  <1>1. /\ Fixture \in Seq(S) /\ Files \in Nat /\ Files > 0
        /\ Fixture[Files] = "i-nodes"
        /\ \A i, j \in 1 .. Files : Fixture[i] = Fixture[j] => i = j
    BY Lab15Assumption DEF Files
  <1>2. \A i \in 1 .. Files : Fixture[i] \in S
    BY <1>1, ElementOfSeq DEF Files
  <1>3. /\ links \in Seq({"mylink", "mysymlink"}) /\ Len(links) = 2
        /\ links[1] = "mylink" /\ links[2] = "mysymlink"
    OBVIOUS
  <1>4. /\ Len(Targets) = Files + 2
        /\ \A i \in 1 .. Files : Targets[i] = Fixture[i]
        /\ Targets[Files + 1] = "mylink" /\ Targets[Files + 2] = "mysymlink"
    <2> DEFINE T == S \cup {"mylink", "mysymlink"}
    <2>1. Fixture \in Seq(T) /\ links \in Seq(T)
      BY <1>1, <1>3
    <2> HIDE DEF links, T
    <2>2. /\ Len(Fixture \o links) = Len(Fixture) + Len(links)
          /\ \A i \in 1 .. Len(Fixture) + Len(links) :
                (Fixture \o links)[i] = IF i <= Len(Fixture) THEN Fixture[i] ELSE links[i - Len(Fixture)]
      BY <2>1, ConcatProperties
    <2>3. Targets = Fixture \o links
      BY DEF Targets, links
    <2>4. (Files + 1) - Files = 1 /\ (Files + 2) - Files = 2
      BY <1>1
    <2> QED
      BY <1>1, <1>3, <2>2, <2>3, <2>4 DEF Files
  <1>5. Names = {Targets[i] : i \in 1 .. Files + 2}
    BY <1>4 DEF Names
  <1>6. \A i \in 1 .. Files : Fixture[i] \in Names
    BY <1>1, <1>4, <1>5
  <1>7. "mylink" \in Names /\ "mysymlink" \in Names
    BY <1>1, <1>4, <1>5
  <1>8. "i-nodes" \in Names
    BY <1>1, <1>6
  <1>9. ASSUME NEW name \in Names
        PROVE  name \in {"mylink", "mysymlink"} \/ \E i \in 1 .. Files : name = Fixture[i]
    <2>1. PICK i \in 1 .. Files + 2 : name = Targets[i]
      BY <1>5
    <2>2. i \in 1 .. Files \/ i = Files + 1 \/ i = Files + 2
      BY <1>1
    <2> QED
      BY <1>4, <2>1, <2>2
  <1>10. Missing \notin Inodes /\ Symlink \notin Inodes /\ Missing # Symlink
    BY Lab15Assumption DEF Inodes
  <1> QED
    BY <1>1, <1>2, <1>6, <1>7, <1>8, <1>9, <1>10

\* There is a number that no entry uses, and NewInode is one.
LEMMA NewInodeIs ==
    ASSUME Directory(dir), NEW i \in 1 .. Files, dir[Fixture[i]] = Missing
    PROVE  NewInode \in Inodes /\ \A name \in Names : dir[name] # NewInode
  <1> DEFINE free == {j \in Inodes : \A name \in Names : dir[name] # j}
             user == [j \in 1 .. Files |-> dir[IF j = i THEN "mylink" ELSE Fixture[j]]]
  <1>1. Files \in Nat /\ IsFiniteSet(1 .. Files) /\ Cardinality(1 .. Files) = Files
        /\ Inodes = 1 .. Files + 1 /\ Cardinality(Inodes) = Files + 1
    BY NamesAre, FS_Interval DEF Inodes, Files
  <1>2. free # {}
    <2> SUFFICES ASSUME free = {} PROVE FALSE
      OBVIOUS
    <2>1. ASSUME NEW number \in Inodes PROVE \E j \in 1 .. Files : user[j] = number
      <3>1. PICK name \in Names : dir[name] = number
        OBVIOUS
      <3>2. name # "mysymlink" /\ name # Fixture[i]
        BY <3>1, NamesAre DEF Directory
      <3>3. CASE name = "mylink"
        BY <3>1, <3>3
      <3>4. CASE name # "mylink"
        <4>1. PICK j \in 1 .. Files : name = Fixture[j]
          BY <3>2, <3>4, NamesAre
        <4> QED
          BY <3>1, <3>2, <4>1
      <3> QED
        BY <3>3, <3>4
    <2> DEFINE image == {user[j] : j \in 1 .. Files}
    <2>2. IsFiniteSet(image) /\ Cardinality(image) <= Files
      <3>1. user \in Surjection(1 .. Files, image)
        BY DEF Surjection
      <3> HIDE DEF user, image
      <3> QED
        BY <1>1, <3>1, FS_Surjection
    <2>3. Inodes \subseteq image
      BY <2>1
    <2> HIDE DEF image
    <2>4. Cardinality(Inodes) <= Cardinality(image)
      BY <2>2, <2>3, FS_Subset
    <2>5. Cardinality(image) \in Nat
      BY <2>2, FS_CardinalityType
    <2> QED
      BY <1>1, <2>2, <2>4, <2>5
  <1>3. PICK least \in free : \A j \in free : least <= j
    <2>1. free \subseteq Nat
      BY <1>1
    <2> QED
      BY <1>2, <2>1, LeastElement
  <1>4. ASSUME NEW j \in 1 .. least - 1 PROVE \E name \in Names : dir[name] = j
    <2>1. j \in Inodes /\ ~(least <= j)
      BY <1>1
    <2> QED
      BY <1>3, <2>1
  <1>5. \E k \in Inodes : /\ \A name \in Names : dir[name] # k
                          /\ \A j \in 1 .. k - 1 : \E name \in Names : dir[name] = j
    BY <1>3, <1>4
  <1> QED
    BY <1>5 DEF NewInode

\* What is said of the entries stays while they do.
LEMMA SameEntries ==
    ASSUME UNCHANGED <<dir, inodes, atStart>>, NEW k
    PROVE  /\ Entries(k) => Entries(k)'
           /\ Later(k) => Later(k)'
           /\ Linked => Linked'
  BY DEF Entries, Later, Linked, SameAsAtStart, Old, Names, Inodes, Targets, Files

\* The steps from a file of the fixture to the next.
LEMMA NextFixtureIs ==
    ASSUME NEW k \in 1 .. Files, n = k, NextFixture
    PROVE  /\ program' = program /\ healthy' = healthy
           /\ k = Files => pc' = "link" /\ n' = k
           /\ k # Files => pc' = "check" /\ n' \in 1 .. Files /\ n' - 1 = k
           /\ pc' \in {"link", "check"} /\ n' \in 1 .. Files
           /\ Entries(k)' /\ Later(k)' => Healthy15'
  <1>1. k = Len(Fixture) \/ k # Len(Fixture)
    OBVIOUS
  <1>2. /\ program' = program /\ healthy' = healthy
        /\ k = Files => pc' = "link" /\ n' = k
        /\ k # Files => pc' = "check" /\ n' = k + 1
    BY DEF NextFixture, Goto, Files
  <1>3. Files \in Nat
    BY NamesAre
  <1>4. k # Files => n' \in 1 .. Files /\ n' - 1 = k
    BY <1>2, <1>3
  <1>5. ASSUME Entries(k)', Later(k)' PROVE Healthy15'
    <2>1. pc' = "check" => Entries(n - 1)' /\ Later(n - 1)'
      BY <1>2, <1>4, <1>5 DEF Entries, Later, SameAsAtStart, Old, Names, Inodes, Targets, Files
    <2>2. pc' = "link" => Entries(Files)' /\ Later(Files)'
      BY <1>2, <1>5 DEF Entries, Later, SameAsAtStart, Old, Names, Inodes, Targets, Files
    <2>3. pc' \in {"check", "link"}
      BY <1>2
    <2> QED
      BY <2>1, <2>2, <2>3 DEF Healthy15
  <1> QED
    BY <1>2, <1>4, <1>5

\* The steps of Lab_15, one lemma each, and the removal of an entry by somebody else.
LEMMA Start15Inv == ASSUME IInv15, program = 15, Start15 PROVE IInv15'
  <1>1. /\ program' = 15 /\ healthy' \in BOOLEAN /\ asked' \in BOOLEAN
        /\ pc' = IF asked' THEN "snapshot" ELSE "check"
        /\ n' = 1 /\ shown15' = NoSnapshot
        /\ atStart' = [dir |-> dir, inodes |-> inodes]
        /\ dir' = dir /\ inodes' = inodes
    BY DEF Start15, Start
  <1>2. Type15
    BY DEF IInv15
  <1>3. Old' = dir /\ atStart.inodes' = inodes
    BY <1>1 DEF Old
  <1>4. Type15'
    <2>1. Directory(dir)' /\ Directory(Old)'
      BY <1>1, <1>2, <1>3 DEF Type15, Directory, Names, Targets, Inodes
    <2>2. 1 \in 1 .. Files
      BY NamesAre
    <2> QED
      BY <1>1, <1>2, <2>1, <2>2 DEF Type15, NoSnapshot, Making, Inodes, Files
  <1>5. ~asked' => Healthy15'
    <2>1. Entries(0)' /\ Later(0)'
      BY <1>1, <1>3 DEF Entries, Later, SameAsAtStart, Old
    <2>2. ASSUME ~asked' PROVE pc' = "check" /\ n' - 1 = 0
      BY <1>1, <2>2
    <2> QED
      BY <2>1, <2>2 DEF Healthy15, Entries, Later, SameAsAtStart, Old, Names, Inodes, Targets, Files
  <1>6. Looked'
    BY <1>1 DEF Looked, NoSnapshot
  <1> QED
    BY <1>1, <1>4, <1>5, <1>6 DEF IInv15

LEMMA RemoveInv == ASSUME IInv15, program = 15, Remove PROVE IInv15'
  <1>1. /\ program' = 15 /\ healthy' = healthy /\ asked' = asked /\ pc' = "idle"
        /\ atStart' = atStart /\ inodes' = inodes
        /\ \E name \in Names : dir' = [dir EXCEPT ![name] = Missing]
    BY DEF Remove
  <1>2. Type15
    BY DEF IInv15
  <1>3. Directory(dir')
    BY <1>1, <1>2, NamesAre DEF Type15, Directory
  <1>4. Type15'
    BY <1>1, <1>2, <1>3 DEF Type15, Directory, Making, Old, Names, Targets, Inodes
  <1> QED
    BY <1>1, <1>4 DEF IInv15, Looked, Healthy15

LEMMA CheckInv == ASSUME IInv15, program = 15, PrepareFails \/ Check PROVE IInv15'
  <1>1. /\ UNCHANGED vars15 /\ pc = "check" /\ program' = program /\ healthy' = healthy
        /\ \/ ~healthy /\ pc' = "ended" /\ n' = n
           \/ dir[Fixture[n]] # Missing /\ NextFixture
           \/ dir[Fixture[n]] = Missing /\ pc' = "open" /\ n' = n
    BY DEF PrepareFails, Check, Goto, NextFixture
  <1>2. Type15 /\ n \in 1 .. Files /\ ~asked /\ shown15 = NoSnapshot /\ (healthy => Healthy15)
    BY <1>1 DEF IInv15, Type15, Making
  <1>3. PICK k \in 1 .. Files : k = n
    BY <1>2
  <1>4. UNCHANGED <<dir, inodes, asked, atStart, shown15>>
    BY <1>1 DEF vars15
  <1>5. /\ pc' \in {"ended", "open", "link", "check"} /\ n' \in 1 .. Files
        /\ pc' = "open" => dir'[Fixture[n']] = Missing
    BY <1>1, <1>3, <1>4, NextFixtureIs
  <1>6. Type15'
    <2>1. Directory(dir)' /\ Directory(Old)'
      BY <1>2, <1>4 DEF Type15, Directory, Old, Names, Targets, Inodes
    <2> QED
      BY <1>1, <1>2, <1>4, <1>5, <2>1 DEF Type15, Making, NoSnapshot, Inodes, Files
  <1>7. Looked'
    BY <1>5 DEF Looked
  <1>8. ASSUME healthy PROVE Healthy15'
    <2>1. Entries(n - 1) /\ Later(n - 1)
      BY <1>1, <1>2, <1>8 DEF Healthy15
    <2>2. CASE pc' = "open"
      <3>1. n' = n
        BY <1>1, <1>3, <2>2, NextFixtureIs
      <3>2. Entries(n - 1)' /\ Later(n - 1)'
        BY <1>4, <2>1, <3>1 DEF Entries, Later, SameAsAtStart, Old, Names, Inodes, Targets, Files
      <3> QED
        BY <2>2, <3>2 DEF Healthy15
    <2>3. CASE pc' # "open"
      <3>1. dir[Fixture[k]] # Missing /\ NextFixture
        BY <1>1, <1>3, <1>8, <2>3
      <3>2. Fixture[k] \in Names /\ k - 1 + 1 = k
        BY NamesAre
      <3>3. Old[Fixture[k]] # Missing
        BY <1>3, <2>1, <3>1 DEF Later
      <3>4. \A j \in 1 .. k : j = k \/ j \in 1 .. k - 1
        OBVIOUS
      <3>5. Entries(k)
        BY <1>3, <2>1, <3>1, <3>3, <3>4 DEF Entries
      <3>6. \A j \in k + 1 .. Files : j \in (k - 1) + 1 .. Files
        OBVIOUS
      <3>7. Later(k)
        BY <1>3, <2>1, <3>6 DEF Later
      <3>8. Entries(k)' /\ Later(k)'
        BY <1>4, <3>5, <3>7, SameEntries
      <3> QED
        BY <1>3, <3>1, <3>8, NextFixtureIs
    <2> QED
      BY <2>2, <2>3
  <1> QED
    BY <1>1, <1>6, <1>7, <1>8 DEF IInv15

LEMMA OpenNewInv == ASSUME IInv15, program = 15, OpenNew PROVE IInv15'
  <1>1. /\ pc = "open" /\ UNCHANGED <<asked, atStart, shown15>>
        /\ \/ /\ dir' = [dir EXCEPT ![Fixture[n]] = NewInode]
              /\ inodes' = [inodes EXCEPT ![NewInode] = [data |-> "none", mode |-> "default"]]
              /\ Goto("write", n)
           \/ ~healthy /\ NextFixture /\ UNCHANGED <<dir, inodes>>
    BY DEF OpenNew
  <1>2. /\ Type15 /\ n \in 1 .. Files /\ ~asked /\ shown15 = NoSnapshot /\ (healthy => Healthy15)
        /\ dir[Fixture[n]] = Missing
    BY <1>1 DEF IInv15, Type15, Making
  <1>3. PICK k \in 1 .. Files : k = n
    BY <1>2
  <1>4. CASE NextFixture /\ ~healthy /\ UNCHANGED <<dir, inodes>>
    <2>1. /\ program' = 15 /\ healthy' = healthy /\ pc' \in {"link", "check"} /\ n' \in 1 .. Files
      BY <1>3, <1>4, NextFixtureIs
    <2>2. Type15'
      <3>1. Directory(dir)' /\ Directory(Old)'
        BY <1>1, <1>2, <1>4 DEF Type15, Directory, Old, Names, Targets, Inodes
      <3> QED
        BY <1>1, <1>2, <1>4, <2>1, <3>1 DEF Type15, Making, NoSnapshot, Inodes, Files
    <2> QED
      BY <1>4, <2>1, <2>2 DEF IInv15
  <1>5. CASE /\ dir' = [dir EXCEPT ![Fixture[n]] = NewInode]
             /\ inodes' = [inodes EXCEPT ![NewInode] = [data |-> "none", mode |-> "default"]]
             /\ Goto("write", n)
    <2>1. /\ program' = 15 /\ healthy' = healthy /\ pc' = "write" /\ n' = n
      BY <1>5 DEF Goto
    <2>2. NewInode \in Inodes /\ \A name \in Names : dir[name] # NewInode
      BY <1>2, <1>3, NewInodeIs DEF Type15
    <2>3. Fixture[k] \in Names \ {"mylink", "mysymlink"}
      BY NamesAre
    <2> DEFINE new == NewInode
    <2>4. /\ dir'[Fixture[k]] = new
          /\ \A name \in Names \ {Fixture[k]} : dir'[name] = dir[name]
          /\ \A i \in Inodes \ {new} : inodes'[i] = inodes[i]
      BY <1>2, <1>3, <1>5, <2>2, <2>3 DEF Type15, Directory
    <2>5. Directory(dir')
      <3>1. dir' \in [Names -> Inodes \cup {Missing, Symlink}]
        BY <1>2, <1>5, <2>2 DEF Type15, Directory
      <3> HIDE DEF new
      <3>2. "mysymlink" \in Names /\ Symlink \notin Inodes /\ new \in Inodes
        BY <2>2, NamesAre DEF new
      <3> QED
        BY <1>2, <2>3, <2>4, <3>1, <3>2 DEF Type15, Directory
    <2> HIDE DEF new
    <2>6. inodes' \in [Inodes -> [data : {"none", "part", "whole"}, mode : {"default", "set"}]]
      BY <1>2, <1>5, <2>2 DEF Type15
    <2>7. /\ dir'[Fixture[k]] \in Inodes
          /\ \A name \in Names \ {Fixture[k]} : dir'[name] # dir'[Fixture[k]]
      BY <2>2, <2>4 DEF new
    <2>8. Type15'
      <3>1. Directory(dir)' /\ Directory(Old)'
        BY <1>1, <1>2, <2>5 DEF Type15, Directory, Old, Names, Targets, Inodes
      <3> QED
        BY <1>1, <1>2, <1>3, <2>1, <2>6, <2>7, <3>1 DEF Type15, Making, NoSnapshot, Inodes, Files, Names, Targets
    <2>9. Looked'
      BY <2>1 DEF Looked
    <2>10. ASSUME healthy PROVE Healthy15'
      <3>1. Entries(k - 1) /\ Later(k - 1)
        BY <1>1, <1>2, <1>3, <2>10 DEF Healthy15
      <3>2. Old[Fixture[k]] = Missing
        BY <1>2, <1>3, <2>3, <3>1, NamesAre DEF Entries, SameAsAtStart, Old
      <3>3. \A name \in Names : Old[name] # Missing => SameAsAtStart(name)'
        <4>1. \A name \in Names : Old[name] # Missing => SameAsAtStart(name) /\ name # Fixture[k]
          BY <3>1, <3>2 DEF Entries
        <4> QED
          BY <1>1, <2>2, <2>4, <4>1 DEF SameAsAtStart, Inodes, new
      <3>4. ASSUME NEW j \in 1 .. k - 1
            PROVE  /\ dir'[Fixture[j]] # Missing
                   /\ Old[Fixture[j]] = Missing =>
                         inodes'[dir'[Fixture[j]]] = [data |-> "whole", mode |-> "set"]
        <4>1. j \in 1 .. Files /\ j # k
          BY NamesAre
        <4>2. Fixture[j] \in Names \ {Fixture[k], "mysymlink"}
          BY <4>1, NamesAre
        <4>3. dir[Fixture[j]] # Missing /\ dir'[Fixture[j]] = dir[Fixture[j]]
          BY <2>4, <3>1, <4>2 DEF Entries
        <4>4. dir[Fixture[j]] \in Inodes /\ dir[Fixture[j]] # new
          BY <1>2, <2>2, <4>2, <4>3 DEF Type15, Directory, new
        <4>5. Old[Fixture[j]] = Missing =>
                 inodes[dir[Fixture[j]]] = [data |-> "whole", mode |-> "set"]
          BY <3>1 DEF Entries
        <4> QED
          BY <2>4, <4>3, <4>4, <4>5
      <3>5. Entries(k - 1)'
        BY <1>1, <3>3, <3>4 DEF Entries, Old, Names, Targets, SameAsAtStart, Inodes
      <3>6. \A j \in k + 1 .. Files : /\ j \in (k - 1) + 1 .. Files
                                      /\ Fixture[j] \in Names \ {Fixture[k]}
        <4>1. \A j \in k + 1 .. Files : j \in 1 .. Files /\ j # k /\ j \in (k - 1) + 1 .. Files
          OBVIOUS
        <4> QED
          BY <4>1, NamesAre
      <3>7. Later(k)'
        <4>1. \A j \in k + 1 .. Files : Old[Fixture[j]] = Missing => dir'[Fixture[j]] = Missing
          BY <2>4, <3>1, <3>6 DEF Later
        <4>2. Old["mylink"] = Missing => dir'["mylink"] = Missing
          BY <2>3, <2>4, <3>1, NamesAre DEF Later
        <4> QED
          BY <1>1, <4>1, <4>2 DEF Later, Old, Files
      <3>8. Entries(n - 1)' /\ Later(n)' /\ (Old[Fixture[n]] = Missing)'
        BY <1>1, <1>3, <2>1, <3>2, <3>5, <3>7
           DEF Entries, Later, SameAsAtStart, Old, Names, Inodes, Targets, Files
      <3> QED
        BY <2>1, <3>8 DEF Healthy15
    <2> QED
      BY <2>1, <2>8, <2>9, <2>10 DEF IInv15
  <1> QED
    BY <1>1, <1>4, <1>5

\* The i-node of the file in hand is changed: no other entry is.
LEMMA OnlyThisFile ==
    ASSUME Type15, NEW k \in 1 .. Files, dir[Fixture[k]] \in Inodes,
           \A name \in Names \ {Fixture[k]} : dir[name] # dir[Fixture[k]],
           Entries(k - 1), Later(k), Old[Fixture[k]] = Missing,
           dir' = dir, atStart' = atStart,
           \A i \in Inodes \ {dir[Fixture[k]]} : inodes'[i] = inodes[i]
    PROVE  Entries(k - 1)' /\ Later(k)'
  <1>1. Fixture[k] \in Names
    BY NamesAre
  <1>2. \A name \in Names : Old[name] # Missing => SameAsAtStart(name)'
    <2>1. \A name \in Names : Old[name] # Missing => SameAsAtStart(name) /\ name # Fixture[k]
      BY DEF Entries
    <2> QED
      BY <2>1 DEF SameAsAtStart, Inodes
  <1>3. ASSUME NEW j \in 1 .. k - 1, Old[Fixture[j]] = Missing
        PROVE  inodes'[dir[Fixture[j]]] = [data |-> "whole", mode |-> "set"]
    <2>1. j \in 1 .. Files /\ j # k
      BY NamesAre
    <2>2. Fixture[j] \in Names \ {Fixture[k], "mysymlink"}
      BY <2>1, NamesAre
    <2>3. dir[Fixture[j]] \in Inodes
      BY <2>2 DEF Entries, Type15, Directory
    <2> QED
      BY <1>3, <2>2, <2>3 DEF Entries
  <1>4. Entries(k - 1)'
    BY <1>2, <1>3 DEF Entries, Old, Names, Targets, SameAsAtStart, Inodes
  <1> QED
    BY <1>4 DEF Later, Old, Files

LEMMA CloseNewInv == ASSUME IInv15, program = 15, CloseNew PROVE IInv15'
  <1>1. /\ pc = "write" /\ UNCHANGED <<dir, asked, atStart, shown15>>
        /\ \/ /\ inodes' = [inodes EXCEPT ![dir[Fixture[n]]].data = "whole"]
              /\ Goto("chmod", n)
           \/ /\ ~healthy
              /\ \E data \in {"none", "part"} : inodes' = [inodes EXCEPT ![dir[Fixture[n]]].data = data]
              /\ NextFixture
    BY DEF CloseNew
  <1>2. /\ Type15 /\ n \in 1 .. Files /\ ~asked /\ shown15 = NoSnapshot /\ (healthy => Healthy15)
        /\ dir[Fixture[n]] \in Inodes
        /\ \A name \in Names \ {Fixture[n]} : dir[name] # dir[Fixture[n]]
    BY <1>1 DEF IInv15, Type15, Making
  <1>3. PICK k \in 1 .. Files : k = n
    BY <1>2
  <1>4. /\ program' = 15 /\ healthy' = healthy /\ n' \in 1 .. Files /\ pc' \in {"chmod", "link", "check"}
        /\ pc' = "chmod" => n' = n
    BY <1>1, <1>3, NextFixtureIs DEF Goto
  <1>5. \A i \in Inodes \ {dir[Fixture[k]]} : inodes'[i] = inodes[i]
    BY <1>1, <1>2, <1>3 DEF Type15
  <1>6. inodes' \in [Inodes -> [data : {"none", "part", "whole"}, mode : {"default", "set"}]]
    <2>1. \E data \in {"none", "part", "whole"} :
             inodes' = [inodes EXCEPT ![dir[Fixture[n]]].data = data]
      BY <1>1
    <2> QED
      BY <1>2, <2>1 DEF Type15
  <1>7. Type15'
    <2>1. Directory(dir)' /\ Directory(Old)'
      BY <1>1, <1>2 DEF Type15, Directory, Old, Names, Targets, Inodes
    <2> QED
      BY <1>1, <1>2, <1>4, <1>6, <2>1 DEF Type15, Making, NoSnapshot, Inodes, Files, Names, Targets
  <1>8. ASSUME healthy PROVE Healthy15'
    <2>1. /\ inodes' = [inodes EXCEPT ![dir[Fixture[n]]].data = "whole"] /\ pc' = "chmod" /\ n' = n
      BY <1>1, <1>8 DEF Goto
    <2>2. Entries(k - 1) /\ Later(k) /\ Old[Fixture[k]] = Missing
      BY <1>1, <1>2, <1>3, <1>8 DEF Healthy15
    <2>3. Entries(k - 1)' /\ Later(k)'
      BY <1>1, <1>2, <1>3, <1>5, <2>2, OnlyThisFile
    <2>4. Entries(n - 1)' /\ Later(n)' /\ (Old[Fixture[n]] = Missing)'
      BY <1>1, <1>3, <2>1, <2>2, <2>3
         DEF Entries, Later, SameAsAtStart, Old, Names, Inodes, Targets, Files
    <2>5. inodes'[dir[Fixture[n]]].data = "whole"
      BY <1>2, <2>1 DEF Type15
    <2> QED
      BY <1>1, <2>1, <2>4, <2>5 DEF Healthy15
  <1>9. Looked'
    BY <1>4 DEF Looked
  <1> QED
    BY <1>4, <1>7, <1>8, <1>9 DEF IInv15

LEMMA SetModeInv == ASSUME IInv15, program = 15, SetMode PROVE IInv15'
  <1>1. /\ pc = "chmod" /\ UNCHANGED <<dir, asked, atStart, shown15>> /\ NextFixture
        /\ \/ inodes' = [inodes EXCEPT ![dir[Fixture[n]]].mode = "set"]
           \/ ~healthy /\ inodes' = inodes
    BY DEF SetMode
  <1>2. /\ Type15 /\ n \in 1 .. Files /\ ~asked /\ shown15 = NoSnapshot /\ (healthy => Healthy15)
        /\ dir[Fixture[n]] \in Inodes
        /\ \A name \in Names \ {Fixture[n]} : dir[name] # dir[Fixture[n]]
    BY <1>1 DEF IInv15, Type15, Making
  <1>3. PICK k \in 1 .. Files : k = n
    BY <1>2
  <1>4. /\ program' = 15 /\ healthy' = healthy /\ n' \in 1 .. Files /\ pc' \in {"link", "check"}
    BY <1>1, <1>3, NextFixtureIs
  <1>5. \A i \in Inodes \ {dir[Fixture[k]]} : inodes'[i] = inodes[i]
    BY <1>1, <1>2, <1>3 DEF Type15
  <1>6. inodes' \in [Inodes -> [data : {"none", "part", "whole"}, mode : {"default", "set"}]]
    BY <1>1, <1>2 DEF Type15
  <1>7. Type15'
    <2>1. Directory(dir)' /\ Directory(Old)'
      BY <1>1, <1>2 DEF Type15, Directory, Old, Names, Targets, Inodes
    <2> QED
      BY <1>1, <1>2, <1>4, <1>6, <2>1 DEF Type15, Making, NoSnapshot, Inodes, Files, Names, Targets
  <1>8. ASSUME healthy PROVE Healthy15'
    <2>1. inodes' = [inodes EXCEPT ![dir[Fixture[n]]].mode = "set"]
      BY <1>1, <1>8
    <2>2. /\ Entries(k - 1) /\ Later(k) /\ Old[Fixture[k]] = Missing
          /\ inodes[dir[Fixture[k]]].data = "whole"
      BY <1>1, <1>2, <1>3, <1>8 DEF Healthy15
    <2>3. Entries(k - 1)' /\ Later(k)'
      BY <1>1, <1>2, <1>3, <1>5, <2>2, OnlyThisFile
    <2>4. inodes'[dir[Fixture[k]]] = [data |-> "whole", mode |-> "set"]
      BY <1>2, <1>3, <2>1, <2>2 DEF Type15
    <2>5. \A j \in 1 .. k : j = k \/ j \in 1 .. k - 1
      OBVIOUS
    <2>6. dir[Fixture[k]] # Missing
      BY <1>2, <1>3, NamesAre
    <2>7. Entries(k)'
      BY <1>1, <2>3, <2>4, <2>5, <2>6 DEF Entries, Old, Names, Targets, SameAsAtStart, Inodes
    <2> QED
      BY <1>1, <1>3, <2>3, <2>7, NextFixtureIs
  <1>9. Looked'
    BY <1>4 DEF Looked
  <1> QED
    BY <1>4, <1>7, <1>8, <1>9 DEF IInv15

\* An entry that is made where none was, and that no file of the fixture is: the files
\* are as they were.
LEMMA OtherEntry ==
    ASSUME Type15, Entries(Files), NEW link \in {"mylink", "mysymlink"}, NEW target,
           dir' = [dir EXCEPT ![link] = target], dir[link] = Missing,
           inodes' = inodes, atStart' = atStart
    PROVE  Entries(Files)'
  <1>1. /\ link \in Names /\ dir \in [Names -> Inodes \cup {Missing, Symlink}]
        /\ \A j \in 1 .. Files : Fixture[j] \in Names \ {link}
    BY NamesAre DEF Type15, Directory
  <1>2. \A name \in Names \ {link} : dir'[name] = dir[name]
    BY <1>1
  <1>3. \A name \in Names : Old[name] # Missing => SameAsAtStart(name)'
    <2>1. \A name \in Names : Old[name] # Missing => SameAsAtStart(name)
      BY DEF Entries
    <2>2. Old[link] = Missing
      BY <1>1, <2>1 DEF SameAsAtStart, Old
    <2> QED
      BY <1>2, <2>1, <2>2 DEF SameAsAtStart, Inodes
  <1>4. ASSUME NEW j \in 1 .. Files
        PROVE  /\ dir'[Fixture[j]] # Missing
               /\ Old[Fixture[j]] = Missing =>
                     inodes'[dir'[Fixture[j]]] = [data |-> "whole", mode |-> "set"]
    BY <1>1, <1>2 DEF Entries
  <1> QED
    BY <1>3, <1>4 DEF Entries, Old, Names, Targets, SameAsAtStart, Inodes, Files

LEMMA HardLinkInv == ASSUME IInv15, program = 15, createHardLinkIfMissing PROVE IInv15'
  <1>1. /\ pc = "link" /\ pc' = "symlink" /\ program' = 15 /\ healthy' = healthy
        /\ UNCHANGED <<inodes, asked, atStart, shown15>>
        /\ \/ dir["mylink"] = Missing /\ dir' = [dir EXCEPT !["mylink"] = dir["i-nodes"]]
           \/ (dir["mylink"] # Missing \/ ~healthy) /\ dir' = dir
    BY DEF createHardLinkIfMissing, Goto
  <1>2. Type15 /\ ~asked /\ shown15 = NoSnapshot /\ (healthy => Healthy15)
    BY <1>1 DEF IInv15, Type15
  <1>3. Directory(dir')
    <2>1. dir["i-nodes"] \in Inodes \cup {Missing} /\ "mylink" # "mysymlink"
      BY <1>2, NamesAre DEF Type15, Directory
    <2>2. dir' \in [Names -> Inodes \cup {Missing, Symlink}]
      BY <1>1, <1>2, <2>1 DEF Type15, Directory
    <2>3. \A name \in Names : dir'[name] = dir[name] \/ (name = "mylink" /\ dir'[name] = dir["i-nodes"])
      BY <1>1, <1>2 DEF Type15, Directory
    <2> QED
      BY <1>2, <2>1, <2>2, <2>3, NamesAre DEF Type15, Directory
  <1>4. Type15'
    <2>1. Directory(dir)' /\ Directory(Old)'
      BY <1>1, <1>2, <1>3 DEF Type15, Directory, Old, Names, Targets, Inodes
    <2> QED
      BY <1>1, <1>2, <2>1 DEF Type15, Making, NoSnapshot, Inodes
  <1>5. ASSUME healthy PROVE Healthy15'
    <2>1. Entries(Files) /\ Later(Files)
      BY <1>1, <1>2, <1>5 DEF Healthy15
    <2>2. CASE dir' = dir
      <3>1. dir["mylink"] # Missing
        BY <1>1, <1>2, <1>5, <2>1, <2>2, NamesAre DEF Type15, Directory, Entries
      <3>2. Entries(Files)'
        BY <1>1, <2>1, <2>2, SameEntries DEF Files, Entries, SameAsAtStart, Old, Names, Targets, Inodes
      <3>3. Linked'
        BY <1>1, <2>1, <2>2, <3>1 DEF Linked, Later, Old
      <3> QED
        BY <1>1, <3>2, <3>3 DEF Healthy15
    <2>3. CASE dir["mylink"] = Missing /\ dir' = [dir EXCEPT !["mylink"] = dir["i-nodes"]]
      <3>1. Entries(Files)'
        BY <1>1, <1>2, <2>1, <2>3, OtherEntry
      <3>2. dir["i-nodes"] # Missing
        BY <2>1, NamesAre DEF Entries
      <3>3. dir'["mylink"] = dir["i-nodes"] /\ dir'["i-nodes"] = dir["i-nodes"]
        BY <1>2, <2>3, NamesAre DEF Type15, Directory
      <3>4. Linked'
        BY <3>2, <3>3 DEF Linked
      <3> QED
        BY <1>1, <3>1, <3>4 DEF Healthy15
    <2> QED
      BY <1>1, <2>2, <2>3
  <1>6. Looked'
    BY <1>1 DEF Looked
  <1> QED
    BY <1>1, <1>4, <1>5, <1>6 DEF IInv15

LEMMA SymlinkInv == ASSUME IInv15, program = 15, createSymlinkIfMissing PROVE IInv15'
  <1>1. /\ pc = "symlink" /\ pc' = "snapshot" /\ program' = 15 /\ healthy' = healthy
        /\ UNCHANGED <<inodes, asked, atStart, shown15>>
        /\ \/ dir["mysymlink"] = Missing /\ dir' = [dir EXCEPT !["mysymlink"] = Symlink]
           \/ (dir["mysymlink"] # Missing \/ ~healthy) /\ dir' = dir
    BY DEF createSymlinkIfMissing, Goto
  <1>2. Type15 /\ ~asked /\ shown15 = NoSnapshot /\ (healthy => Healthy15)
    BY <1>1 DEF IInv15, Type15
  <1>3. Directory(dir')
    BY <1>1, <1>2, NamesAre DEF Type15, Directory
  <1>4. Type15'
    <2>1. Directory(dir)' /\ Directory(Old)'
      BY <1>1, <1>2, <1>3 DEF Type15, Directory, Old, Names, Targets, Inodes
    <2> QED
      BY <1>1, <1>2, <2>1 DEF Type15, Making, NoSnapshot, Inodes
  <1>5. ASSUME healthy PROVE Healthy15'
    <2>1. Entries(Files) /\ Linked
      BY <1>1, <1>2, <1>5 DEF Healthy15
    <2>2. CASE dir["mysymlink"] # Missing /\ dir' = dir
      <3>1. Entries(Files)' /\ Linked'
        BY <1>1, <2>1, <2>2, SameEntries DEF Files, Entries, SameAsAtStart, Old, Names, Targets, Inodes
      <3> QED
        BY <1>1, <2>2, <3>1 DEF Healthy15
    <2>3. CASE dir["mysymlink"] = Missing /\ dir' = [dir EXCEPT !["mysymlink"] = Symlink]
      <3>1. Entries(Files)'
        BY <1>1, <1>2, <2>1, <2>3, OtherEntry
      <3>2. /\ dir'["mylink"] = dir["mylink"] /\ dir'["i-nodes"] = dir["i-nodes"]
            /\ dir'["mysymlink"] = Symlink
        BY <1>2, <2>3, NamesAre DEF Type15, Directory
      <3>3. Linked'
        BY <1>1, <2>1, <3>2 DEF Linked, Old
      <3> QED
        BY <1>1, <3>1, <3>2, <3>3, NamesAre DEF Healthy15
    <2> QED
      BY <1>1, <1>5, <2>2, <2>3
  <1>6. Looked'
    BY <1>1, <1>2 DEF Looked, NoSnapshot
  <1> QED
    BY <1>1, <1>4, <1>5, <1>6 DEF IInv15

LEMMA SnapshotInv == ASSUME IInv15, program = 15, collectSnapshot PROVE IInv15'
  <1> DEFINE name == Targets[n]
  <1>1. /\ pc = "snapshot" /\ UNCHANGED <<dir, inodes, asked, atStart>>
        /\ \E l \in found(dir[name]), s \in found(follow(name)), f \in found(follow(name)) :
              shown15' = [name |-> name, lstat |-> l, stat |-> s, fstat |-> f]
        /\ program' = 15 /\ healthy' = healthy /\ pc' \in {"ended", "snapshot"}
    BY DEF collectSnapshot, Goto
  <1>2. Type15 /\ (healthy /\ ~asked => Healthy15)
    BY DEF IInv15
  <1>3. Type15'
    <2>1. Directory(dir)' /\ Directory(Old)'
      BY <1>1, <1>2 DEF Type15, Directory, Old, Names, Targets, Inodes
    <2> QED
      BY <1>1, <1>2, <2>1 DEF Type15, Making, Inodes
  <1>4. ASSUME healthy, ~asked PROVE Healthy15'
    <2>1. Entries(Files) /\ Linked /\ dir["mysymlink"] # Missing
      BY <1>1, <1>2, <1>4 DEF Healthy15
    <2>2. Entries(Files)' /\ Linked'
      BY <1>1, <2>1, SameEntries DEF Files, Entries, SameAsAtStart, Old, Names, Targets, Inodes
    <2> QED
      BY <1>1, <2>1, <2>2 DEF Healthy15
  <1>5. ASSUME healthy PROVE Looked'
    <2> HIDE DEF name
    <2>1. shown15' = [name |-> name, lstat |-> dir[name], stat |-> follow(name), fstat |-> follow(name)]
      BY <1>1, <1>5 DEF found
    <2>2. follow(name) = IF dir[name] = Symlink THEN dir["i-nodes"] ELSE dir[name]
      BY DEF follow
    <2> QED
      BY <1>1, <2>1, <2>2 DEF Looked
  <1> QED
    BY <1>1, <1>3, <1>4, <1>5 DEF IInv15

\* No program has run.
LEMMA InitInv15 == Init => IInv15
  <1> SUFFICES ASSUME Init PROVE IInv15
    OBVIOUS
  <1>1. /\ pc = "idle" /\ healthy = TRUE /\ asked = FALSE
        /\ dir = [name \in Names |-> Missing]
        /\ inodes = [i \in Inodes |-> [data |-> "none", mode |-> "default"]]
        /\ atStart = [dir |-> dir, inodes |-> inodes]
        /\ shown15 = NoSnapshot
    BY DEF Init, RunInit, Init15
  <1>2. Directory(dir) /\ Old = dir
    BY <1>1, NamesAre DEF Directory, Old
  <1> QED
    BY <1>1, <1>2 DEF IInv15, Type15, Making, Looked, Healthy15

\* Every step of any of the four programs, and a kill.
LEMMA StepInv15 == IInv15 /\ [Next]_vars => IInv15'
  <1> SUFFICES ASSUME IInv15, [Next]_vars PROVE IInv15'
    OBVIOUS
  <1>1. ASSUME program # 15 PROVE IInv15'
    <2>1. UNCHANGED vars15
      BY <1>1, OneProgram DEF vars, Program13, Program14, Program16, Killed
    <2> QED
      BY <1>1, <2>1, OneProgram DEF IInv15, vars15, NoSnapshot
  <1>2. ASSUME program = 15, UNCHANGED vars15
        PROVE  Directory(dir)' /\ Directory(Old)' /\ inodes' = inodes
    BY <1>2 DEF vars15, IInv15, Type15, Directory, Old, Names, Targets, Inodes
  <1>3. CASE program = 15 /\ UNCHANGED vars
    <2>1. UNCHANGED <<runVars, vars15>>
      BY <1>3 DEF vars
    <2>2. UNCHANGED <<program, pc, n, healthy, dir, inodes, asked, atStart, shown15>>
      BY <2>1 DEF runVars, vars15
    <2>3. Type15'
      BY <1>2, <1>3, <2>1, <2>2 DEF IInv15, Type15, Making, Inodes, NoSnapshot, Files, Names, Targets
    <2>4. Looked => Looked'
      BY <2>2 DEF Looked, NoSnapshot
    <2>5. Healthy15 => Healthy15'
      BY <2>2 DEF Healthy15, Entries, Later, Linked, SameAsAtStart, Old, Names, Inodes, Targets, Files
    <2> QED
      BY <1>3, <2>2, <2>3, <2>4, <2>5 DEF IInv15
  <1>4. CASE program = 15 /\ (Start15 \/ Remove)
    BY <1>4, Start15Inv, RemoveInv
  <1>5. CASE program = 15 /\ Step15
    BY <1>5, CheckInv, OpenNewInv, CloseNewInv, SetModeInv, HardLinkInv, SymlinkInv, SnapshotInv
       DEF Step15
  <1>6. CASE program = 15 /\ Killed
    <2>1. /\ healthy' = healthy /\ program' = program /\ pc' = "killed"
          /\ UNCHANGED vars15
      BY <1>6 DEF Killed, Kill
    <2> QED
      BY <1>2, <1>6, <2>1 DEF IInv15, Type15, Making, Healthy15, Looked, vars15, Inodes
  <1> QED
    BY <1>1, <1>3, <1>4, <1>5, <1>6, OneProgram DEF Program15

\* Lab_15's inductive invariant, for every list of names.
THEOREM Lab15Invariance == Spec => []IInv15
  BY InitInv15, StepInv15, PTL DEF Spec

\* At the end the invariant says what the property asks.
LEMMA CompleteInv == IInv15 => FixtureComplete
  <1> SUFFICES ASSUME IInv15 PROVE FixtureComplete
    OBVIOUS
  <1>1. ASSUME Ended(15), healthy, ~asked
        PROVE  /\ \A name \in Names : dir[name] # Missing
               /\ \A name \in Names : Old[name] # Missing => SameAsAtStart(name)
               /\ \A i \in 1 .. Files : Old[Fixture[i]] = Missing =>
                     inodes[dir[Fixture[i]]] = [data |-> "whole", mode |-> "set"]
               /\ Old["mylink"] = Missing => dir["mylink"] = dir["i-nodes"]
    <2>1. Entries(Files) /\ Linked /\ dir["mysymlink"] # Missing
      BY <1>1 DEF IInv15, Healthy15, Ended
    <2> QED
      BY <2>1, NamesAre DEF Entries, Linked
  <1>2. ASSUME Running, healthy, shown15 # NoSnapshot
        PROVE  /\ shown15.stat = shown15.fstat
               /\ shown15.lstat # Symlink => shown15.stat = shown15.lstat
               /\ shown15.lstat = Symlink => shown15.stat = dir["i-nodes"]
    <2>1. program = 15
      BY <1>2 DEF IInv15
    <2>2. pc = "snapshot"
      BY <1>2, <2>1 DEF IInv15, Type15, Running, Making
    <2> QED
      BY <1>2, <2>1, <2>2 DEF IInv15, Looked
  <1> QED
    BY <1>1, <1>2 DEF FixtureComplete, Old, Files

\* A run of lab 15 in which nothing fails and nobody interferes, whatever was there before
\* it, leaves every file and both links there, keeps what it found, finishes what it makes,
\* and shows a snapshot that agrees with itself.
THEOREM Lab15Fixtures == Spec => []FixtureComplete
  BY Lab15Invariance, CompleteInv, PTL

-----------------------------------------------------------------------------
(* Lab_17 *)

\* Rows number 0 .. rows - 1, and there are none exactly for an empty file.
LEMMA RowCount ==
    ASSUME NEW size \in Nat
    PROVE  /\ calculateRowCount(size) \in Nat
           /\ calculateRowCount(size) = 0 <=> size = 0
<1> DEFINE k == kBytesPerLine
           q == calculateRowCount(size)
<1>1. k \in Nat /\ k > 0
  BY HexViewerAssumption
<1>2. q \in Int /\ k * q <= size + k - 1 /\ size + k - 1 < k * q + k
  BY <1>1, SMTT(30) DEF calculateRowCount
<1>3. q >= 0
  BY <1>1, <1>2, SMTT(30)
<1>4. ASSUME size = 0 PROVE q = 0
  BY <1>1, <1>2, <1>3, <1>4, SMTT(30)
<1>5. ASSUME q = 0 PROVE size = 0
  BY <1>1, <1>2, <1>5, SMTT(30)
<1> QED
  BY <1>2, <1>3, <1>4, <1>5

\* What clampViewport promises: the cursor is on the page that begins at top, and in
\* the file; and the page moves no further than it must.
LEMMA Clamped ==
    ASSUME NEW c \in Nat, NEW t \in Nat, NEW rows \in Nat, NEW page \in Nat, page > 0,
           NEW v, v = clampViewport(c, t, rows, page)
    PROVE  /\ v.cursor \in Nat /\ v.top \in Nat
           /\ v.cursor < rows \/ (rows = 0 /\ v.cursor = 0 /\ v.top = 0)
           /\ v.top <= v.cursor /\ v.cursor < v.top + page
           /\ c < rows => v.cursor = c
           /\ c < rows /\ t <= c /\ c < t + page => v.top = t
           /\ c < rows /\ c < t => v.top = c
           /\ c < rows /\ t + page <= c => v.top = c - page + 1
BY DEF clampViewport, Lesser

\* A page has at least a row.
LEMMA Page == ASSUME TypeOK PROVE visibleRows \in Nat /\ visibleRows > 0
BY HexViewerAssumption DEF TypeOK, visibleRows, Greater

-----------------------------------------------------------------------------
(* The inductive invariant *)

\* The rows of the page that begins at top.
Window(top) == {row \in top .. top + visibleRows - 1 : row < totalRows}

\* While the viewer waits for a key the screen holds the page at topRow.
PageDrawn == at = "key" => /\ screen = Window(topRow)
                           /\ ~TooSmall
                           /\ cursorRow < totalRows \/ bytes = 0

\* A key that scrolls leaves the cursor no further than a page from a row on the
\* screen, and a new size leaves it on the screen.
CursorNear ==
    at = "render" /\ screen # {} /\ key \notin {"KEY_HOME", "KEY_END"} =>
        /\ cursorRow < totalRows
        /\ key = "KEY_RESIZE" => cursorRow \in screen
        /\ key # "KEY_RESIZE" =>
             /\ screen = Window(topRow)
             /\ \E row \in screen : /\ cursorRow <= row + visibleRows
                                    /\ row <= cursorRow + visibleRows

\* The screen that asks for a larger terminal shows no row.
SmallIsBlank == at = "small" => screen = {}

\* Before the viewer starts nothing is drawn.
BlankAtFirst == at \in {"open", "load", "choose"} => screen = {}

\* Inductive: the property, and what of the screen its next state rests on.
IInv17 == TypeOK /\ CursorOnScreen /\ PageDrawn /\ CursorNear /\ SmallIsBlank /\ BlankAtFirst

\* The steps of the viewer, one lemma for each that does more than move on.
LEMMA InitInv17 == ASSUME Init17 PROVE IInv17
BY HexViewerAssumption DEF Init17, IInv17, TypeOK, Keys, PCs, CursorOnScreen, PageDrawn, CursorNear, SmallIsBlank, BlankAtFirst

LEMMA LoadChunkInv == ASSUME IInv17, LoadChunk PROVE IInv17'
<1>1. PICK line \in 0 .. Lesser(kBytesPerLine, fileSize - bytes) :
        bytes' = bytes + line /\ at' = IF line = kBytesPerLine THEN "load" ELSE "choose"
  BY DEF LoadChunk
<1>2. bytes' \in 0 .. fileSize
  BY <1>1, HexViewerAssumption DEF IInv17, TypeOK, Lesser
<1>3. TypeOK'
  BY <1>1, <1>2 DEF IInv17, TypeOK, PCs, LoadChunk, terminal, view
<1> QED
  BY <1>1, <1>3 DEF LoadChunk, IInv17, CursorOnScreen, PageDrawn, CursorNear, SmallIsBlank, BlankAtFirst

LEMMA renderTranscriptInv == ASSUME IInv17, renderTranscript PROVE IInv17'
<1>1. bytes \in Nat
  BY HexViewerAssumption DEF IInv17, TypeOK
<1>2. totalRows \in Nat
  BY <1>1, RowCount DEF totalRows
<1>3. ASSUME NEW row \in Nat PROVE LineBytes(row) \in SUBSET Nat
  <2>1. row * kBytesPerLine \in Nat
    BY HexViewerAssumption
  <2> QED
    BY <2>1 DEF LineBytes
<1>4. printed' \in Seq(SUBSET Nat)
  BY <1>2, <1>3 DEF renderTranscript
<1> QED
  BY <1>4 DEF renderTranscript, IInv17, TypeOK, PCs, CursorOnScreen, PageDrawn, CursorNear,
              SmallIsBlank, BlankAtFirst,
              terminal, view

LEMMA RenderInv == ASSUME IInv17, Render PROVE IInv17'
<1>1. bytes \in Nat /\ cursorRow \in Nat /\ topRow \in Nat /\ maxY \in Nat
  BY HexViewerAssumption DEF IInv17, TypeOK
<1>2. totalRows \in Nat /\ (totalRows = 0 <=> bytes = 0)
  BY <1>1, RowCount DEF totalRows
<1>3. visibleRows \in Nat /\ visibleRows > 0
  BY Page DEF IInv17
<1>4. PICK v : /\ v = clampViewport(cursorRow, topRow, totalRows, visibleRows)
               /\ cursorRow' = v.cursor /\ topRow' = v.top
  BY DEF Render
<1>5. /\ cursorRow' \in Nat /\ topRow' \in Nat
      /\ cursorRow' < totalRows \/ (totalRows = 0 /\ cursorRow' = 0 /\ topRow' = 0)
      /\ topRow' <= cursorRow' /\ cursorRow' < topRow' + visibleRows
  BY <1>1, <1>2, <1>3, <1>4, Clamped
<1>6. totalRows' = totalRows /\ visibleRows' = visibleRows /\ TooSmall' = TooSmall
  BY DEF Render, totalRows, visibleRows, TooSmall, terminal
<1>7. screen' = Window(topRow)' /\ at' = "key" /\ ~TooSmall
  BY <1>6 DEF Render, Window
<1>8. TypeOK'
  BY <1>1, <1>3, <1>5 DEF Render, IInv17, TypeOK, PCs, terminal
<1>9. CursorOnScreen'
  <2>1. CASE bytes = 0
    BY <2>1, <1>2, <1>5, <1>3 DEF Render, CursorOnScreen
  <2>2. CASE bytes # 0
    <3>1. cursorRow' \in screen' \cap (0 .. totalRows' - 1)
      BY <2>2, <1>2, <1>3, <1>5, <1>6 DEF Render
    <3>2. kHeaderHeight + (cursorRow' - topRow') < maxY - kFooterHeight
      BY <1>1, <1>3, <1>5, HexViewerAssumption DEF Render, TooSmall, visibleRows, Greater
    <3> QED
      BY <2>2, <3>1, <3>2 DEF Render, CursorOnScreen, terminal
  <2> QED
    BY <2>1, <2>2
<1>10. PageDrawn'
  BY <1>2, <1>5, <1>6, <1>7 DEF PageDrawn, Render
<1> QED
  BY <1>7, <1>8, <1>9, <1>10 DEF IInv17, CursorNear, SmallIsBlank, BlankAtFirst

LEMMA ResizeInv == ASSUME IInv17, Resize PROVE IInv17'
<1>1. TypeOK'
  BY DEF Resize, IInv17, TypeOK, PCs, Keys, view
<1>2. CursorNear'
  <2> SUFFICES ASSUME screen' # {}
               PROVE  cursorRow' < totalRows' /\ cursorRow' \in screen'
    BY DEF CursorNear, Resize
  <2>1. screen' = screen /\ cursorRow' = cursorRow /\ totalRows' = totalRows
    BY DEF Resize, view, totalRows
  <2>2. CASE at = "key"
    BY <2>1, <2>2 DEF IInv17, CursorOnScreen, PageDrawn, Window
  <2>3. CASE at = "small"
    BY <2>1, <2>3 DEF IInv17, SmallIsBlank
  <2> QED
    BY <2>2, <2>3 DEF Resize
<1> QED
  BY <1>1, <1>2 DEF Resize, IInv17, CursorOnScreen, PageDrawn, SmallIsBlank, BlankAtFirst

\* What every key but the quitting ones and KEY_RESIZE has in common.
LEMMA PressedInv ==
    ASSUME IInv17, NEW k \in Keys \ {"none", "KEY_RESIZE"}, NEW row \in Nat, Pressed(k, row),
           row < totalRows \/ bytes = 0,
           k \notin {"KEY_HOME", "KEY_END"} =>
              row <= cursorRow + visibleRows /\ cursorRow <= row + visibleRows
    PROVE  IInv17'
<1>1. TypeOK'
  BY DEF Pressed, IInv17, TypeOK, PCs, terminal
<1>2. CursorNear'
  <2> SUFFICES ASSUME screen' # {}, k \notin {"KEY_HOME", "KEY_END"}
               PROVE  /\ row < totalRows
                      /\ screen = Window(topRow)
                      /\ \E r \in screen : row <= r + visibleRows /\ r <= row + visibleRows
    <3>1. /\ screen' = screen /\ cursorRow' = row /\ topRow' = topRow /\ key' = k
          /\ totalRows' = totalRows /\ visibleRows' = visibleRows
      BY DEF Pressed, terminal, totalRows, visibleRows
    <3>2. Window(topRow)' = Window(topRow)
      BY <3>1 DEF Window
    <3> QED
      BY <3>1, <3>2 DEF CursorNear
  <2>1. bytes # 0 /\ cursorRow \in screen
    BY DEF IInv17, CursorOnScreen, Pressed
  <2>2. screen = Window(topRow)
    BY DEF IInv17, PageDrawn, Pressed
  <2> QED
    BY <2>1, <2>2
<1> QED
  BY <1>1, <1>2 DEF Pressed, IInv17, CursorOnScreen, PageDrawn, SmallIsBlank, BlankAtFirst

LEMMA KeysInv ==
    ASSUME IInv17, Up \/ Down \/ PageUp \/ PageDown \/ Home \/ End \/ Other PROVE IInv17'
<1>1. bytes \in Nat /\ cursorRow \in Nat
  BY HexViewerAssumption DEF IInv17, TypeOK
<1>2. totalRows \in Nat /\ (totalRows = 0 <=> bytes = 0)
  BY <1>1, RowCount DEF totalRows
<1>3. visibleRows \in Nat /\ visibleRows > 0
  BY Page DEF IInv17
<1>4. cursorRow < totalRows \/ bytes = 0
  BY DEF IInv17, PageDrawn, Pressed, Up, Down, PageUp, PageDown, Home, End, Other
<1>5. CASE Up
  <2> DEFINE row == IF cursorRow > 0 THEN cursorRow - 1 ELSE cursorRow
  <2>1. /\ row \in Nat /\ (row < totalRows \/ bytes = 0)
        /\ row <= cursorRow + visibleRows /\ cursorRow <= row + visibleRows
    BY <1>1, <1>2, <1>3, <1>4
  <2>2. Pressed("KEY_UP", row)
    BY <1>5 DEF Up
  <2> HIDE DEF row
  <2> QED
    BY <2>1, <2>2, PressedInv DEF Keys
<1>6. CASE Down
  <2> DEFINE row == IF cursorRow + 1 < totalRows THEN cursorRow + 1 ELSE cursorRow
  <2>1. /\ row \in Nat /\ (row < totalRows \/ bytes = 0)
        /\ row <= cursorRow + visibleRows /\ cursorRow <= row + visibleRows
    BY <1>1, <1>2, <1>3, <1>4
  <2>2. Pressed("KEY_DOWN", row)
    BY <1>6 DEF Down
  <2> HIDE DEF row
  <2> QED
    BY <2>1, <2>2, PressedInv DEF Keys
<1>7. CASE PageUp
  <2> DEFINE row == IF cursorRow > visibleRows THEN cursorRow - visibleRows ELSE 0
  <2>1. /\ row \in Nat /\ (row < totalRows \/ bytes = 0)
        /\ row <= cursorRow + visibleRows /\ cursorRow <= row + visibleRows
    BY <1>1, <1>2, <1>3, <1>4
  <2>2. Pressed("KEY_PPAGE", row)
    BY <1>7 DEF PageUp
  <2> HIDE DEF row
  <2> QED
    BY <2>1, <2>2, PressedInv DEF Keys
<1>8. CASE PageDown
  <2> DEFINE row == IF totalRows = 0 THEN cursorRow
                    ELSE Lesser(cursorRow + visibleRows, totalRows - 1)
  <2>1. /\ row \in Nat /\ (row < totalRows \/ bytes = 0)
        /\ row <= cursorRow + visibleRows /\ cursorRow <= row + visibleRows
    BY <1>1, <1>2, <1>3, <1>4 DEF Lesser
  <2>2. Pressed("KEY_NPAGE", row)
    BY <1>8 DEF PageDown
  <2> HIDE DEF row
  <2> QED
    BY <2>1, <2>2, PressedInv DEF Keys
<1>9. CASE Home
  <2>1. Pressed("KEY_HOME", 0) /\ (0 < totalRows \/ bytes = 0)
    BY <1>2, <1>9 DEF Home
  <2> QED
    BY <2>1, PressedInv DEF Keys
<1>10. CASE End
  <2> DEFINE row == IF totalRows = 0 THEN cursorRow ELSE totalRows - 1
  <2>1. row \in Nat /\ (row < totalRows \/ bytes = 0)
    BY <1>1, <1>2
  <2>2. Pressed("KEY_END", row)
    BY <1>10 DEF End
  <2> HIDE DEF row
  <2> QED
    BY <2>1, <2>2, PressedInv DEF Keys
<1>11. CASE Other
  <2>1. /\ Pressed("other", cursorRow)
        /\ cursorRow <= cursorRow + visibleRows
    BY <1>1, <1>3, <1>11 DEF Other
  <2> QED
    BY <1>1, <1>4, <2>1, PressedInv DEF Keys
<1> QED
  BY <1>5, <1>6, <1>7, <1>8, <1>9, <1>10, <1>11

LEMMA StepInv17 == ASSUME IInv17, [Next17]_vars17 PROVE IInv17'
<1> USE DEF IInv17
<1>1. CASE Open17
  BY <1>1 DEF Open17, TypeOK, PCs, CursorOnScreen, PageDrawn, CursorNear, SmallIsBlank, BlankAtFirst,
              terminal, view
<1>2. CASE LoadChunk
  BY <1>2, LoadChunkInv
<1>3. CASE StartViewer
  BY <1>3 DEF StartViewer, TypeOK, PCs, CursorOnScreen, PageDrawn, CursorNear, SmallIsBlank, BlankAtFirst,
              terminal, view
<1>4. CASE renderTranscript
  BY <1>4, renderTranscriptInv
<1>5. CASE RenderSmall
  BY <1>5 DEF RenderSmall, TypeOK, PCs, CursorOnScreen, PageDrawn, CursorNear, SmallIsBlank, BlankAtFirst,
              terminal, view
<1>6. CASE Render
  BY <1>6, RenderInv
<1>7. CASE Resize
  BY <1>7, ResizeInv
<1>8. CASE Quit
  BY <1>8 DEF Quit, TypeOK, PCs, CursorOnScreen, PageDrawn, CursorNear, SmallIsBlank, BlankAtFirst,
              terminal, view
<1>9. CASE SmallKey
  BY <1>9 DEF SmallKey, TypeOK, PCs, CursorOnScreen, PageDrawn, CursorNear, SmallIsBlank, BlankAtFirst,
              terminal, view
<1>10. CASE Up \/ Down \/ PageUp \/ PageDown \/ Home \/ End \/ Other
  BY <1>10, KeysInv
<1>11. CASE UNCHANGED vars17
  BY <1>11 DEF vars17, TypeOK, PCs, CursorOnScreen, PageDrawn, CursorNear, SmallIsBlank, BlankAtFirst,
               TooSmall, Window, visibleRows, totalRows
<1> QED
  BY <1>1, <1>2, <1>3, <1>4, <1>5, <1>6, <1>7, <1>8, <1>9, <1>10, <1>11 DEF Next17, Terminated

(* The invariant holds for files of any size on terminals of any height. *)
THEOREM Lab17Invariance == Spec17 => []IInv17
BY InitInv17, StepInv17, PTL DEF Spec17

-----------------------------------------------------------------------------
(* Theorems *)

(* The highlighted row is on the screen, between header and footer, whenever the
   viewer waits for a key. *)
THEOREM HighlightVisible == Spec17 => []CursorOnScreen
<1>1. IInv17 => CursorOnScreen
  BY DEF IInv17
<1> QED
  BY <1>1, Lab17Invariance, PTL

\* One turn of the viewer's loop shows a row the last screen touched.
LEMMA RenderTouches ==
    ASSUME IInv17, Render, screen # {}, key \notin {"KEY_HOME", "KEY_END"}
    PROVE  Touch(screen, screen')
<1>1. bytes \in Nat /\ cursorRow \in Nat /\ topRow \in Nat
  BY HexViewerAssumption DEF IInv17, TypeOK
<1>2. totalRows \in Nat
  BY <1>1, RowCount DEF totalRows
<1>3. visibleRows \in Nat /\ visibleRows > 0
  BY Page DEF IInv17
<1>4. cursorRow < totalRows
  BY DEF IInv17, CursorNear, Render
<1>5. PICK v : /\ v = clampViewport(cursorRow, topRow, totalRows, visibleRows)
               /\ cursorRow' = v.cursor /\ topRow' = v.top
  BY DEF Render
<1>6. /\ v.cursor = cursorRow
      /\ v.top \in Nat /\ v.top <= cursorRow /\ cursorRow < v.top + visibleRows
      /\ topRow <= cursorRow /\ cursorRow < topRow + visibleRows => v.top = topRow
      /\ cursorRow < topRow => v.top = cursorRow
      /\ topRow + visibleRows <= cursorRow => v.top = cursorRow - visibleRows + 1
  <2>1. /\ cursorRow < totalRows => v.cursor = cursorRow
        /\ v.cursor < totalRows \/ (totalRows = 0 /\ v.cursor = 0 /\ v.top = 0)
        /\ v.top \in Nat /\ v.top <= v.cursor /\ v.cursor < v.top + visibleRows
    BY <1>1, <1>2, <1>3, <1>5, Clamped
  <2>2. /\ (cursorRow < totalRows /\ topRow <= cursorRow /\ cursorRow < topRow + visibleRows
              => v.top = topRow)
        /\ (cursorRow < totalRows /\ cursorRow < topRow => v.top = cursorRow)
        /\ (cursorRow < totalRows /\ topRow + visibleRows <= cursorRow
              => v.top = cursorRow - visibleRows + 1)
    BY <1>1, <1>2, <1>3, <1>5, Clamped
  <2> QED
    BY <1>4, <2>1, <2>2
<1> DEFINE top == topRow'
<1>7. /\ screen' = {row \in top .. top + visibleRows - 1 : row < totalRows}
      /\ top \in Nat /\ top <= cursorRow /\ cursorRow < top + visibleRows
      /\ cursorRow < topRow => top = cursorRow
      /\ topRow + visibleRows <= cursorRow => top = cursorRow - visibleRows + 1
  BY <1>5, <1>6 DEF Render
<1> HIDE DEF top
<1>8. cursorRow \in screen'
  BY <1>1, <1>2, <1>3, <1>4, <1>7
<1>9. CASE key = "KEY_RESIZE"
  <2>1. cursorRow \in screen
    BY <1>9 DEF IInv17, CursorNear, Render
  <2> QED
    BY <1>1, <1>8, <2>1 DEF Touch
<1>10. CASE key # "KEY_RESIZE"
  <2>1. /\ screen = Window(topRow)
        /\ \E row \in screen : row <= cursorRow + visibleRows /\ cursorRow <= row + visibleRows
    BY <1>10 DEF IInv17, CursorNear, Render
  <2>2. PICK row \in screen : row <= cursorRow + visibleRows /\ cursorRow <= row + visibleRows
    BY <2>1
  <2>3. /\ row \in Int /\ topRow <= row /\ row < topRow + visibleRows /\ row < totalRows
    BY <1>1, <1>2, <1>3, <2>1, <2>2 DEF Window
  <2>4. CASE topRow <= cursorRow /\ cursorRow < topRow + visibleRows
    <3>1. cursorRow \in screen
      BY <1>1, <1>2, <1>3, <1>4, <2>1, <2>4 DEF Window
    <3> QED
      BY <1>1, <1>8, <3>1 DEF Touch
  <2>5. CASE cursorRow < topRow
    <3>1. row - 1 \in screen'
      BY <1>1, <1>2, <1>3, <1>7, <2>2, <2>3, <2>5
    <3>2. row - (row - 1) = 1
      BY <2>3
    <3> QED
      BY <2>2, <3>1, <3>2 DEF Touch
  <2>6. CASE topRow + visibleRows <= cursorRow
    <3>1. row + 1 \in screen'
      BY <1>1, <1>2, <1>3, <1>4, <1>7, <2>2, <2>3, <2>6
    <3>2. row - (row + 1) = -1
      BY <2>3
    <3> QED
      BY <2>2, <3>1, <3>2 DEF Touch
  <2> QED
    BY <1>1, <1>3, <2>4, <2>5, <2>6
<1> QED
  BY <1>9, <1>10

(* Scrolling row by row or page by page, with changes of size between, shows every
   row on the way. *)
THEOREM NothingSkipped == Spec17 => NoRowSkipped
<1>1. ASSUME IInv17, [Next17]_vars17
      PROVE  [at = "render" /\ at' = "key" /\ screen # {} /\ key \notin {"KEY_HOME", "KEY_END"}
                => Touch(screen, screen')]_vars17
  <2> SUFFICES ASSUME Next17, at = "render", at' = "key", screen # {},
                      key \notin {"KEY_HOME", "KEY_END"}
               PROVE  Touch(screen, screen')
    BY <1>1
  <2>1. Render
    BY DEF Next17, Open17, LoadChunk, StartViewer, renderTranscript, RenderSmall, Resize, Quit,
           SmallKey, Up, Down, PageUp, PageDown, Home, End, Other, Pressed, Terminated
  <2> QED
    BY <1>1, <2>1, RenderTouches
<1> QED
  BY <1>1, Lab17Invariance, PTL DEF Spec17, NoRowSkipped

-----------------------------------------------------------------------------
(* The transcript *)

\* Every byte of the file lies in one of the rows counted.
LEMMA RowOfByte ==
    ASSUME NEW size \in Nat, NEW i \in 0 .. size - 1
    PROVE  \E row \in 0 .. calculateRowCount(size) - 1 :
             row * kBytesPerLine <= i /\ i < (row + 1) * kBytesPerLine
<1> DEFINE k == kBytesPerLine
           q == calculateRowCount(size)
           r == i \div k
<1>1. k \in Nat /\ k > 0
  BY HexViewerAssumption
<1>2. q \in Int /\ size + k - 1 < k * q + k
  BY <1>1, SMTT(30) DEF calculateRowCount
<1>3. r \in Int /\ k * r <= i /\ i < k * r + k
  BY <1>1, SMTT(30)
<1>4. r >= 0
  BY <1>1, <1>3, SMTT(30)
<1>5. r < q
  BY <1>1, <1>2, <1>3, SMTT(30)
<1> HIDE DEF q, r
<1>6. r * k <= i /\ i < (r + 1) * k
  BY <1>1, <1>3, SMTT(30)
<1> QED
  BY <1>2, <1>3, <1>4, <1>5, <1>6 DEF q

\* Every row counted has a byte of the file, its first one.
LEMMA RowHasByte ==
    ASSUME NEW size \in Nat, NEW row \in 0 .. calculateRowCount(size) - 1
    PROVE  /\ row * kBytesPerLine \in Nat
           /\ row * kBytesPerLine < size
           /\ row * kBytesPerLine <= (row + 1) * kBytesPerLine - 1
<1> DEFINE k == kBytesPerLine
           q == calculateRowCount(size)
<1>1. k \in Nat /\ k > 0
  BY HexViewerAssumption
<1>2. q \in Int /\ k * q <= size + k - 1
  BY <1>1, SMTT(30) DEF calculateRowCount
<1>3. row \in Nat /\ row + 1 <= q
  BY <1>2
<1> HIDE DEF q
<1>4. row * k + k <= k * q
  BY <1>1, <1>2, <1>3, SMTT(30)
<1>5. row * k \in Nat /\ (row + 1) * k = row * k + k
  BY <1>1, <1>3, SMTT(30)
<1> HIDE DEF k
<1>6. row * k < size /\ row * k <= (row + 1) * k - 1
  BY <1>1, <1>2, <1>4, <1>5, SMTT(30)
<1> QED
  BY <1>5, <1>6 DEF k

\* The lines of the transcript, one by one.
LEMMA TranscriptLines ==
    ASSUME bytes \in Nat, bytes' = bytes, renderTranscript
    PROVE  TranscriptCoversFile'
<1> DEFINE Rows == 0 .. totalRows - 1
<1>1. totalRows \in Nat
  BY RowCount DEF totalRows
<1>2. DOMAIN printed' = 1 .. totalRows
  BY DEF renderTranscript
<1>3. \A line \in 1 .. totalRows : printed'[line] = LineBytes(line - 1)
  BY DEF renderTranscript
<1>4. UNION {printed'[line] : line \in DOMAIN printed'} = 0 .. bytes - 1
  <2>1. ASSUME NEW i \in 0 .. bytes - 1 PROVE \E line \in DOMAIN printed' : i \in printed'[line]
    <3>1. PICK row \in Rows : row * kBytesPerLine <= i /\ i < (row + 1) * kBytesPerLine
      BY RowOfByte DEF totalRows
    <3>2. row * kBytesPerLine \in Int /\ (row + 1) * kBytesPerLine \in Int
      BY <1>1, HexViewerAssumption
    <3>3. i \in LineBytes(row)
      BY <3>1, <3>2 DEF LineBytes
    <3>4. row + 1 \in 1 .. totalRows /\ (row + 1) - 1 = row
      BY <1>1
    <3> QED
      BY <1>2, <1>3, <3>3, <3>4
  <2>2. ASSUME NEW line \in DOMAIN printed', NEW i \in printed'[line] PROVE i \in 0 .. bytes - 1
    <3>1. line - 1 \in Rows /\ i \in LineBytes(line - 1)
      BY <1>1, <1>2, <1>3
    <3>2. (line - 1) * kBytesPerLine \in Nat /\ ((line - 1) + 1) * kBytesPerLine \in Int
      BY <1>1, <1>2, <3>1, RowHasByte, HexViewerAssumption DEF totalRows
    <3> QED
      BY <3>1, <3>2 DEF LineBytes
  <2> QED
    BY <2>1, <2>2
<1>5. ASSUME NEW line \in DOMAIN printed' PROVE printed'[line] # {}
  <2>1. line - 1 \in Rows
    BY <1>1, <1>2
  <2>2. (line - 1) * kBytesPerLine \in LineBytes(line - 1)
    <3>1. /\ (line - 1) * kBytesPerLine \in Nat /\ (line - 1) * kBytesPerLine < bytes
          /\ (line - 1) * kBytesPerLine <= ((line - 1) + 1) * kBytesPerLine - 1
      BY <2>1, RowHasByte DEF totalRows
    <3>2. ((line - 1) + 1) * kBytesPerLine \in Int
      BY <1>1, <1>2, HexViewerAssumption
    <3> QED
      BY <3>1, <3>2 DEF LineBytes
  <2> QED
    BY <1>2, <1>3, <2>2
<1>6. ASSUME NEW m \in DOMAIN printed', NEW line \in DOMAIN printed', m < line,
             NEW a \in printed'[m], NEW b \in printed'[line]
      PROVE  a < b
  <2> DEFINE k == kBytesPerLine
  <2>1. m \in Int /\ line \in Int /\ k \in Nat /\ k > 0
    BY <1>1, <1>2, HexViewerAssumption
  <2>2. m * k \in Int /\ (line - 1) * k \in Int /\ (m - 1) * k \in Int /\ line * k \in Int
    BY <2>1
  <2>3. m * k <= (line - 1) * k
    BY <1>6, <2>1, SMTT(30)
  <2>4. a \in LineBytes(m - 1) /\ b \in LineBytes(line - 1)
    BY <1>2, <1>3
  <2>5. (m - 1) + 1 = m
    BY <2>1
  <2>6. a \in Int /\ a <= m * k - 1
    BY <2>2, <2>4, <2>5 DEF LineBytes
  <2>7. (line - 1) + 1 = line
    BY <2>1
  <2>8. b \in Int /\ (line - 1) * k <= b
    BY <2>2, <2>4, <2>7 DEF LineBytes
  <2> QED
    BY <2>2, <2>3, <2>6, <2>8
<1> QED
  BY <1>4, <1>5, <1>6 DEF TranscriptCoversFile

(* The transcript shows every byte read exactly once and in order, whatever the
   length of file and line. *)
THEOREM TranscriptComplete == Spec17 => []TranscriptCoversFile
<1>1. Init17 => TranscriptCoversFile
  BY DEF Init17, TranscriptCoversFile
<1>2. IInv17 /\ TranscriptCoversFile /\ [Next17]_vars17 => TranscriptCoversFile'
  <2> SUFFICES ASSUME IInv17, TranscriptCoversFile, [Next17]_vars17, at' = "printed"
               PROVE  TranscriptCoversFile'
    BY DEF TranscriptCoversFile
  <2>1. CASE renderTranscript
    BY <2>1, TranscriptLines, HexViewerAssumption DEF IInv17, TypeOK, renderTranscript
  <2>2. CASE ~renderTranscript
    <3>1. UNCHANGED vars17
      BY <2>2 DEF Next17, Open17, LoadChunk, StartViewer, RenderSmall, Render, Resize, Quit,
             SmallKey, Up, Down, PageUp, PageDown, Home, End, Other, Pressed, Terminated
    <3> QED
      BY <3>1 DEF TranscriptCoversFile, vars17
  <2> QED
    BY <2>1, <2>2
<1> QED
  BY <1>1, <1>2, Lab17Invariance, PTL DEF Spec17
=============================================================================
