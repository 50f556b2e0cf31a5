--------------------------- MODULE Lab21Mailboxes ---------------------------
(***************************************************************************)
(* The message passing of Lab_21 (lab21_Message_Passing.cpp): two sender   *)
(* threads, and a receiver that reads a mailbox guarded by a mutex and a   *)
(* condition variable.  The other two mailboxes stay empty and are left    *)
(* out.  The options decide how often the receiver reads, and whether it   *)
(* blocks on an empty mailbox (blockDemo) or skips the read.               *)
(*                                                                         *)
(* The mailbox is touched under its mutex only, so a step is a stretch of  *)
(* code from taking the mutex to giving it back, in unlock or in           *)
(* pthread_cond_wait.  The receiver alone waits on notEmpty.               *)
(***************************************************************************)
EXTENDS Integers, Sequences

CONSTANTS
    MessageCount,  \* MessageCount[s]: how many messages sender s sends
    MaxReads       \* bound on --receiver-reads

ASSUME Lab21Assumption ==
    /\ MessageCount \in [{0, 1} -> Nat \ {0}]
    /\ MaxReads \in Nat

VARIABLES
    blockDemo, receiverReads,  \* options
    pc,        \* where each thread is
    mailbox,   \* mailboxes[2].queue, oldest message first
    sent,      \* messages each sender has enqueued
    attempt,   \* the receiver's loop variable
    received,  \* messages the receiver has taken, in order
    created,   \* threads main has created
    destroyed  \* has main joined all threads and destroyed the mutexes?

options == <<blockDemo, receiverReads>>
mainVars == <<created, destroyed>>
vars == <<options, pc, mailbox, sent, attempt, received, mainVars>>

Senders == {0, 1}
Receiver == 2
Threads == Senders \cup {Receiver}
Messages == [source : Senders, index : Nat]

\* pause: the sleep that ends an iteration; delay: the receiver's first sleep;
\* asleep and woken: in dequeue's pthread_cond_wait, before and after a wakeup.
PCs == {"unborn", "send", "delay", "read", "asleep", "woken", "pause", "done"}

TypeOK ==
    /\ blockDemo \in BOOLEAN
    /\ receiverReads \in 0 .. MaxReads
    /\ pc \in [Threads -> PCs]
    /\ \A s \in Senders : pc[s] \in {"unborn", "send", "pause", "done"}
    /\ mailbox \in Seq(Messages)
    /\ sent \in [Senders -> Nat]
    /\ attempt \in 0 .. receiverReads
    /\ received \in Seq(Messages)
    /\ created \in 0 .. 3
    /\ destroyed \in BOOLEAN

Init ==
    /\ blockDemo \in BOOLEAN
    /\ receiverReads \in 0 .. MaxReads
    /\ pc = [t \in Threads |-> "unborn"]
    /\ mailbox = <<>>
    /\ sent = [s \in Senders |-> 0]
    /\ attempt = 0
    /\ received = <<>>
    /\ created = 0
    /\ destroyed = FALSE

-----------------------------------------------------------------------------

Goto(t, there) == pc' = [pc EXCEPT ![t] = there]

\* main's three calls of pthread_create, when none fails.
CreateThread ==
    /\ created < 3
    /\ Goto(created, IF created = Receiver THEN "delay" ELSE "send")
    /\ created' = created + 1
    /\ UNCHANGED <<options, mailbox, sent, attempt, received, destroyed>>

\* (Bug) the condition is not signalled.
Bug_NoSignal(s) ==
    /\ pc[s] = "send"
    /\ mailbox' = Append(mailbox, [source |-> s, index |-> sent[s]])
    /\ sent' = [sent EXCEPT ![s] = @ + 1]
    /\ Goto(s, "pause")
    /\ UNCHANGED <<options, attempt, received, mainVars>>

\* A sender's enqueue() of its next message.
enqueue(s) ==
    /\ pc[s] = "send"
    /\ mailbox' = Append(mailbox, [source |-> s, index |-> sent[s]])
    /\ sent' = [sent EXCEPT ![s] = @ + 1]
    /\ pc' = [pc EXCEPT ![s] = "pause", ![Receiver] = IF @ = "asleep" THEN "woken" ELSE @]
    /\ UNCHANGED <<options, attempt, received, mainVars>>

SenderPause(s) ==
    /\ pc[s] = "pause"
    /\ Goto(s, IF sent[s] < MessageCount[s] THEN "send" ELSE "done")
    /\ UNCHANGED <<options, mailbox, sent, attempt, received, mainVars>>

\* Where the receiver's loop goes when n attempts have been made.
AfterAttempts(n) == IF n < receiverReads THEN "read" ELSE "done"

ReceiverDelay ==
    /\ pc[Receiver] = "delay"
    /\ Goto(Receiver, AfterAttempts(0))
    /\ UNCHANGED <<options, mailbox, sent, attempt, received, mainVars>>

\* (Bug) the message taken is not erased from the mailbox.
Bug_TakeNotErased(there) ==
    /\ mailbox # <<>>
    /\ received' = Append(received, Head(mailbox))
    /\ attempt' = attempt + 1
    /\ Goto(Receiver, there)
    /\ UNCHANGED <<options, mailbox, sent, mainVars>>

\* The receiver takes the oldest message, which ends its attempt.
Take(there) ==
    /\ mailbox # <<>>
    /\ received' = Append(received, Head(mailbox))
    /\ mailbox' = Tail(mailbox)
    /\ attempt' = attempt + 1
    /\ Goto(Receiver, there)
    /\ UNCHANGED <<options, sent, mainVars>>

\* dequeue(): the receiver waits for as long as the mailbox is empty.
dequeue ==
    /\ \/ pc[Receiver] = "read" /\ blockDemo
       \/ pc[Receiver] = "woken"
    /\ \/ Take(AfterAttempts(attempt + 1))
       \/ /\ mailbox = <<>>
          /\ Goto(Receiver, "asleep")
          /\ UNCHANGED <<options, mailbox, sent, attempt, received, mainVars>>

\* tryDequeue(): on an empty mailbox the attempt comes to nothing.
tryDequeue ==
    /\ pc[Receiver] = "read"
    /\ ~blockDemo
    /\ \/ Take("pause")
       \/ /\ mailbox = <<>>
          /\ attempt' = attempt + 1
          /\ Goto(Receiver, "pause")
          /\ UNCHANGED <<options, mailbox, sent, received, mainVars>>

ReceiverPause ==
    /\ pc[Receiver] = "pause"
    /\ Goto(Receiver, AfterAttempts(attempt))
    /\ UNCHANGED <<options, mailbox, sent, attempt, received, mainVars>>

SpuriousWakeup ==
    /\ pc[Receiver] = "asleep"
    /\ Goto(Receiver, "woken")
    /\ UNCHANGED <<options, mailbox, sent, attempt, received, mainVars>>

JoinAndDestroy ==
    /\ created = 3
    /\ \A t \in Threads : pc[t] = "done"
    /\ destroyed' = TRUE
    /\ UNCHANGED <<options, pc, mailbox, sent, attempt, received, created>>

Sender(s) == enqueue(s) \/ SenderPause(s)
ReceiverStep == ReceiverDelay \/ dequeue \/ tryDequeue \/ ReceiverPause
MainStep == CreateThread \/ JoinAndDestroy

Terminated == destroyed /\ UNCHANGED vars

Next ==
    \/ \E s \in Senders : Sender(s)
    \/ ReceiverStep
    \/ SpuriousWakeup
    \/ MainStep
    \/ Terminated

Spec == Init /\ [][Next]_vars

\* Sleeps end and runnable threads are scheduled; spurious wakeups need not come.
FairSpec ==
    Spec /\ WF_vars(MainStep) /\ WF_vars(ReceiverStep) /\ \A s \in Senders : WF_vars(Sender(s))

-----------------------------------------------------------------------------

\* The messages that went through the mailbox, those still in it last.
history == received \o mailbox

\* However the two senders interleave with the receiver, each message enqueued is
\* in the mailbox or received, once, and those of one sender in the order sent.
NothingLostOrReordered ==
    /\ Len(history) = sent[0] + sent[1]
    /\ \A k \in 1 .. Len(history) : history[k].index < sent[history[k].source]
    /\ \A k, l \in 1 .. Len(history) :
          k < l /\ history[k].source = history[l].source => history[k].index < history[l].index

\* No lost wakeup: the receiver sleeps in dequeue() beside an empty mailbox only.
SleepsOnlyIfEmpty == pc[Receiver] = "asleep" => mailbox = <<>>

\* The run blocks, for ever and with every message received, exactly when blocking
\* reads outnumber the messages (the sixth read by default); otherwise it ends.
BlocksExactlyWhenShort ==
    LET short == blockDemo /\ receiverReads > MessageCount[0] + MessageCount[1] IN
    /\ short => <>[](/\ pc[Receiver] \in {"asleep", "woken"}
                     /\ Len(received) = MessageCount[0] + MessageCount[1])
    /\ ~short => <>destroyed
=============================================================================
