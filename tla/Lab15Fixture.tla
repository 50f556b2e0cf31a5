----------------------------- MODULE Lab15Fixture -----------------------------
(***************************************************************************)
(* lab15.cpp: builds the fixture directory where entries are missing, then *)
(* looks at each entry with lstat, stat and fstat.  An entry of the        *)
(* directory is an i-node's number or the symbolic link to i-nodes; a new  *)
(* file takes the smallest number no entry uses.  n is the file in hand,   *)
(* and then the entry looked at.                                           *)
(***************************************************************************)
EXTENDS FileRuns

CONSTANTS
    Fixture,   \* the files of the fixture in order, i-nodes the last
    Symlink    \* a symbolic link to i-nodes

ASSUME Lab15Assumption ==
    /\ Fixture \in Seq(STRING \ {"mylink", "mysymlink"})
    /\ Len(Fixture) > 0 /\ Fixture[Len(Fixture)] = "i-nodes"
    /\ \A i, j \in 1 .. Len(Fixture) : Fixture[i] = Fixture[j] => i = j
    /\ Missing # Symlink /\ {Missing, Symlink} \cap (1 .. Len(Fixture) + 1) = {}

VARIABLES
    dir,       \* what each name is
    inodes,    \* what each i-node holds, and its mode
    asked,     \* were paths given on the command line?
    atStart,   \* dir and inodes when this run began
    shown15    \* the last entry looked at, as each call found it

vars15 == <<dir, inodes, asked, atStart, shown15>>

Targets == Fixture \o <<"mylink", "mysymlink">>
Names == {Targets[i] : i \in 1 .. Len(Targets)}
Inodes == 1 .. Len(Fixture) + 1
NoSnapshot == [name |-> "none", lstat |-> Missing, stat |-> Missing, fstat |-> Missing]

Init15 ==
    /\ dir = [name \in Names |-> Missing]
    /\ inodes = [i \in Inodes |-> [data |-> "none", mode |-> "default"]]
    /\ asked = FALSE
    /\ atStart = [dir |-> dir, inodes |-> inodes]
    /\ shown15 = NoSnapshot

\* prepareRun: paths on the command line leave the fixture alone.
Start15 ==
    /\ asked' \in BOOLEAN
    /\ Start(15, IF asked' THEN "snapshot" ELSE "check")
    /\ atStart' = [dir |-> dir, inodes |-> inodes]
    /\ shown15' = NoSnapshot
    /\ UNCHANGED <<dir, inodes>>

\* Between runs somebody removes an entry.
Remove ==
    /\ program = 15
    /\ ~Running
    /\ runs < MaxRuns
    /\ \E name \in Names : dir[name] # Missing /\ dir' = [dir EXCEPT ![name] = Missing]
    /\ pc' = "idle"
    /\ UNCHANGED <<inodes, asked, atStart, shown15, program, runs, n, healthy>>

NextFixture == IF n = Len(Fixture) THEN Goto("link", n) ELSE Goto("check", n + 1)

\* Without a current directory or a fixture directory no target is left.
PrepareFails ==
    /\ pc = "check"
    /\ n = 1
    /\ ~healthy
    /\ Goto("ended", n)
    /\ UNCHANGED vars15

Check ==
    /\ pc = "check"
    /\ IF dir[Fixture[n]] # Missing THEN NextFixture ELSE Goto("open", n)
    /\ UNCHANGED vars15

NewInode == CHOOSE i \in Inodes :
    /\ \A name \in Names : dir[name] # i
    /\ \A j \in 1 .. i - 1 : \E name \in Names : dir[name] = j

OpenNew ==
    /\ pc = "open"
    /\ \/ /\ dir' = [dir EXCEPT ![Fixture[n]] = NewInode]
          /\ inodes' = [inodes EXCEPT ![NewInode] = [data |-> "none", mode |-> "default"]]
          /\ Goto("write", n)
       \/ /\ ~healthy
          /\ NextFixture
          /\ UNCHANGED <<dir, inodes>>
    /\ UNCHANGED <<asked, atStart, shown15>>

\* (Bug) nobody sets the permissions.
Bug_NoChmod ==
    /\ pc = "write"
    /\ NextFixture
    /\ inodes' = [inodes EXCEPT ![dir[Fixture[n]]].data = "whole"]
    /\ UNCHANGED <<dir, asked, atStart, shown15>>

\* The contents reach the file when it is closed; the status is checked after that.
CloseNew ==
    /\ pc = "write"
    /\ \/ /\ inodes' = [inodes EXCEPT ![dir[Fixture[n]]].data = "whole"]
          /\ Goto("chmod", n)
       \/ /\ ~healthy
          /\ \E data \in {"none", "part"} : inodes' = [inodes EXCEPT ![dir[Fixture[n]]].data = data]
          /\ NextFixture
    /\ UNCHANGED <<dir, asked, atStart, shown15>>

SetMode ==
    /\ pc = "chmod"
    /\ \/ inodes' = [inodes EXCEPT ![dir[Fixture[n]]].mode = "set"]
       \/ /\ ~healthy
          /\ UNCHANGED inodes
    /\ NextFixture
    /\ UNCHANGED <<dir, asked, atStart, shown15>>

createHardLinkIfMissing ==
    /\ pc = "link"
    /\ \/ /\ dir["mylink"] = Missing
          /\ dir' = [dir EXCEPT !["mylink"] = dir["i-nodes"]]
       \/ /\ dir["mylink"] # Missing \/ ~healthy
          /\ UNCHANGED dir
    /\ Goto("symlink", n)
    /\ UNCHANGED <<inodes, asked, atStart, shown15>>

createSymlinkIfMissing ==
    /\ pc = "symlink"
    /\ \/ /\ dir["mysymlink"] = Missing
          /\ dir' = [dir EXCEPT !["mysymlink"] = Symlink]
       \/ /\ dir["mysymlink"] # Missing \/ ~healthy
          /\ UNCHANGED dir
    /\ Goto("snapshot", 1)
    /\ UNCHANGED <<inodes, asked, atStart, shown15>>

\* What stat and open find at a name: a symbolic link leads to i-nodes.
follow(name) == IF dir[name] = Symlink THEN dir["i-nodes"] ELSE dir[name]

\* A call that fails finds Missing.
found(entry) == {entry} \cup IF healthy THEN {} ELSE {Missing}

collectSnapshot ==
    /\ pc = "snapshot"
    /\ LET name == Targets[n]
       IN  \E l \in found(dir[name]), s \in found(follow(name)), f \in found(follow(name)) :
              shown15' = [name |-> name, lstat |-> l, stat |-> s, fstat |-> f]
    /\ IF n = Len(Targets) THEN Goto("ended", n) ELSE Goto("snapshot", n + 1)
    /\ UNCHANGED <<dir, inodes, asked, atStart>>

Step15 ==
    /\ program = 15
    /\ \/ PrepareFails \/ Check \/ OpenNew \/ CloseNew \/ SetMode
       \/ createHardLinkIfMissing \/ createSymlinkIfMissing \/ collectSnapshot

-----------------------------------------------------------------------------

SameAsAtStart(name) ==
    /\ dir[name] = atStart.dir[name]
    /\ dir[name] \in Inodes => inodes[dir[name]] = atStart.inodes[dir[name]]

\* A run on the fixture in which nothing fails leaves every entry there: what was there
\* when it began as it was, half made by a killed run or not, the files it made whole and
\* with their mode, and mylink, if it made it, a second name of i-nodes.  While it looks
\* at them stat and fstat find the same file, a symbolic link leading to i-nodes.
FixtureComplete ==
    /\ Ended(15) /\ healthy /\ ~asked =>
          /\ \A name \in Names : dir[name] # Missing
          /\ \A name \in Names : atStart.dir[name] # Missing => SameAsAtStart(name)
          /\ \A i \in 1 .. Len(Fixture) : atStart.dir[Fixture[i]] = Missing =>
                inodes[dir[Fixture[i]]] = [data |-> "whole", mode |-> "set"]
          /\ atStart.dir["mylink"] = Missing => dir["mylink"] = dir["i-nodes"]
    /\ Running /\ healthy /\ shown15 # NoSnapshot =>
          /\ shown15.stat = shown15.fstat
          /\ shown15.lstat # Symlink => shown15.stat = shown15.lstat
          /\ shown15.lstat = Symlink => shown15.stat = dir["i-nodes"]
=============================================================================
