---------------------------- MODULE Lab20Devices ----------------------------
(***************************************************************************)
(* The device drivers of Lab_20: one run writes a payload to a character   *)
(* device, reads it back, writes another to a block device, three times in *)
(* padded blocks, and reads the first and the third block back.  Devices   *)
(* are files that stay from run to run.                                    *)
(*                                                                         *)
(* Two programs do this: lab20.cpp goes on to the block device when the    *)
(* character device has failed, and so does the dashboard of Phase 20; the *)
(* transcript of Phase 20 returns at the first failure.  In a run that is  *)
(* not healthy the operating system may fail any operation, and any run    *)
(* may be killed.                                                          *)
(***************************************************************************)
EXTENDS Integers, Sequences, SequencesExt

CONSTANTS
    Paths,          \* names of files
    Bytes,          \* values of a byte
    Inputs,         \* texts given for either device
    kBlockSize,
    Nul,            \* the zero byte
    Quit,           \* 'q'
    Missing,        \* in place of the contents of a file that does not exist
    Nothing         \* in place of what a read that did not succeed returned

ASSUME DevicesAssumption ==
    /\ kBlockSize \in Nat \ {0}
    /\ Inputs \subseteq Seq(Bytes)
    /\ Nul \in Bytes /\ Quit \in Bytes
    /\ Nul # Quit
    /\ Missing \notin Seq(Bytes)
    /\ Nothing \notin Seq(Bytes) \cup (Seq(Bytes) \X Seq(Bytes))

kBlockCopies == 3

VARIABLES
    file,           \* the contents of each path
    pc,             \* where the program is; "idle" between runs
    dashboard,      \* the program goes on after a failed character device
    healthy,        \* no operation fails in this run
    charPath,       \* options.charDevicePath
    blockPath,      \* options.blockDevicePath
    charPayload,    \* charInput.effective
    blockPayload,   \* blockInput.effective
    charFailed,     \* ~(charWriteOk && charReadOk)
    charRead,       \* the payload readCharacterDevice found
    blockRead,      \* firstBlock and thirdBlock
    status          \* how the last run ended: 0 is "success", 1 "failure"

options == <<dashboard, healthy, charPath, blockPath, charPayload, blockPayload>>
vars == <<file, pc, options, charFailed, charRead, blockRead, status>>

-----------------------------------------------------------------------------

\* The bytes of s before the first b; all of them if b is not there.
Before(s, b) ==
    LET n == CHOOSE n \in 0 .. Len(s) :
               /\ b \notin ToSet(SubSeq(s, 1, n))
               /\ n < Len(s) => s[n + 1] = b
    IN SubSeq(s, 1, n)

clipCharPayload(raw) == Before(raw, Quit)

\* (Bug) the payload is not clipped.
Bug_NoClip(raw) == raw

clipBlockPayload(raw) == IF Len(raw) >= kBlockSize THEN SubSeq(raw, 1, kBlockSize - 1) ELSE raw

\* What resolving the inputs may return: an option, a prompt and the samples all go
\* through the same clipping.
CharPayloads == {clipCharPayload(raw) : raw \in Inputs}
BlockPayloads == {clipBlockPayload(raw) : raw \in Inputs}

\* The zero-filled block with a payload copied into it, and what kBlockCopies of it make
\* of the device.  What std::copy does with a payload that is longer is undefined: here
\* the block holds what fits of it, and no run may get there (TypeOK).
Block(payload) == [i \in 1 .. kBlockSize |-> IF i <= Len(payload) THEN payload[i] ELSE Nul]
BlockImage(payload) ==
    [i \in 1 .. kBlockCopies * kBlockSize |-> Block(payload)[((i - 1) % kBlockSize) + 1]]

trimBlock(block) == Before(block, Nul)

\* The n-th block of a device.
NthBlock(contents, n) == SubSeq(contents, (n - 1) * kBlockSize + 1, n * kBlockSize)

\* A block payload leaves a zero in the block.
TypeOK ==
    /\ file \in [Paths -> Seq(Bytes) \cup {Missing}]
    /\ pc \in {"idle", "charWrite", "charRead", "blockWrite", "blockRead"}
    /\ dashboard \in BOOLEAN /\ healthy \in BOOLEAN /\ charFailed \in BOOLEAN
    /\ charPath \in Paths /\ blockPath \in Paths
    /\ charPayload \in Seq(Bytes \ {Quit})
    /\ blockPayload \in Seq(Bytes) /\ Len(blockPayload) < kBlockSize
    /\ charRead = Nothing \/ charRead \in Seq(Bytes)
    /\ blockRead = Nothing \/ blockRead \in Seq(Bytes) \X Seq(Bytes)
    /\ status \in {"none", "killed", "success", "failure"}

Init ==
    /\ file = [path \in Paths |-> Missing]
    /\ pc = "idle"
    /\ dashboard \in BOOLEAN
    /\ healthy = TRUE
    /\ charPath \in Paths /\ blockPath \in Paths
    /\ charPayload = <<>> /\ blockPayload = <<>>
    /\ charFailed = FALSE
    /\ charRead = Nothing /\ blockRead = Nothing
    /\ status = "none"

\* What parseArgs may return: either user interface, and any files, perhaps the same.
parseArgs == dashboard' \in BOOLEAN /\ charPath' \in Paths /\ blockPath' \in Paths

\* A run begins: the options are parsed and both inputs resolved.
Start ==
    /\ pc = "idle"
    /\ pc' = "charWrite"
    /\ healthy' \in BOOLEAN
    /\ parseArgs
    /\ charPayload' \in CharPayloads
    /\ blockPayload' \in BlockPayloads
    /\ charFailed' = FALSE
    /\ charRead' = Nothing /\ blockRead' = Nothing
    /\ UNCHANGED <<file, status>>

\* The files after an unfinished write: not opened, or truncated and partly written.
Unfinished(path, contents) ==
    {file} \cup {[file EXCEPT ![path] = prefix] : prefix \in Prefixes(contents)}

\* (Bug) opens without trunc: what was beyond the new contents stays.
Bug_NoTrunc(path, contents) ==
    LET old == IF file[path] = Missing THEN <<>> ELSE file[path] IN
    file' = [file EXCEPT ![path] = contents \o SubSeq(old, Len(contents) + 1, Len(old))]

\* The device is opened with trunc, written, flushed and closed.
WriteAll(path, contents) == file' = [file EXCEPT ![path] = contents]

\* The program returns.
Return(code) == pc' = "idle" /\ status' = code

\* The character device failed: the transcript ends, the others leave out its read.
CharFails ==
    \/ dashboard /\ pc' = "blockWrite" /\ charFailed' = TRUE /\ UNCHANGED status
    \/ ~dashboard /\ Return("failure") /\ UNCHANGED charFailed

writeCharDevice ==
    /\ pc = "charWrite"
    /\ \/ /\ WriteAll(charPath, charPayload)
          /\ pc' = "charRead"
          /\ UNCHANGED <<charFailed, status>>
       \/ /\ ~healthy
          /\ file' \in Unfinished(charPath, charPayload)
          /\ CharFails
    /\ UNCHANGED <<options, charRead, blockRead>>

\* A device.get that fails ends the loop like the end of the file.
readCharDevice ==
    /\ pc = "charRead"
    /\ \/ /\ charRead' \in IF healthy THEN {file[charPath]} ELSE Prefixes(file[charPath])
          /\ pc' = "blockWrite"
          /\ UNCHANGED <<charFailed, status>>
       \/ /\ ~healthy
          /\ CharFails
          /\ UNCHANGED charRead
    /\ UNCHANGED <<file, options, blockRead>>

writeBlockDevice ==
    /\ pc = "blockWrite"
    /\ \/ /\ WriteAll(blockPath, BlockImage(blockPayload))
          /\ pc' = "blockRead"
          /\ UNCHANGED status
       \/ /\ ~healthy
          /\ file' \in Unfinished(blockPath, BlockImage(blockPayload))
          /\ Return("failure")
    /\ UNCHANGED <<options, charFailed, charRead, blockRead>>

\* (Bug) reports the block device only.
Bug_StatusOfBlock == Return("success")

\* main: everything to do with the block device went well.
Finish == Return(IF charFailed THEN "failure" ELSE "success")

readBlockDevice ==
    LET contents == file[blockPath] IN
    /\ pc = "blockRead"
    /\ \/ /\ Len(contents) >= kBlockCopies * kBlockSize
          /\ blockRead' = <<trimBlock(NthBlock(contents, 1)), trimBlock(NthBlock(contents, 3))>>
          /\ Finish
       \/ /\ ~healthy \/ Len(contents) < kBlockCopies * kBlockSize
          /\ Return("failure")
          /\ UNCHANGED blockRead
    /\ UNCHANGED <<file, options, charFailed, charRead>>

\* The process dies, perhaps in the middle of a write.
Kill ==
    /\ pc # "idle"
    /\ file' \in CASE pc = "charWrite"  -> Unfinished(charPath, charPayload)
                   [] pc = "blockWrite" -> Unfinished(blockPath, BlockImage(blockPayload))
                   [] OTHER             -> {file}
    /\ Return("killed")
    /\ UNCHANGED <<options, charFailed, charRead, blockRead>>

Next ==
    \/ Start \/ Kill
    \/ writeCharDevice \/ readCharDevice
    \/ writeBlockDevice \/ readBlockDevice

Spec == Init /\ [][Next]_vars

-----------------------------------------------------------------------------
(* Properties *)

(* A run reads back nothing but what it wrote itself: from the character device the
   payload, cut short only by a read error, and from the block device the payload up to
   its first zero byte, twice.  Neither leftovers of earlier runs, killed ones
   included, nor one file used for both devices changes that. *)
ReadBackIsOwn ==
    /\ charRead # Nothing =>
         IF healthy THEN charRead = charPayload ELSE IsPrefix(charRead, charPayload)
    /\ blockRead # Nothing =>
         blockRead = <<Before(blockPayload, Nul), Before(blockPayload, Nul)>>

(* A run that ends with status 0 has both payloads whole on their devices, unless they
   are one file, and has read both back; a run in which nothing fails ends with 0. *)
ExitStatusTells ==
    pc = "idle" /\ status \in {"success", "failure"} =>
        /\ status = "success" =>
             /\ file[blockPath] = BlockImage(blockPayload)
             /\ charPath # blockPath => file[charPath] = charPayload
             /\ charRead # Nothing /\ blockRead # Nothing
        /\ healthy => status = "success"
=============================================================================
