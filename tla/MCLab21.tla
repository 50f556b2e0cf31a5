------------------------------- MODULE MCLab21 -------------------------------
(* Lab21Mailboxes for TLC: the three and two messages of senderMessages(), and
   one read more than the default of six. *)
EXTENDS Lab21Mailboxes

MCMessageCount == [s \in {0, 1} |-> IF s = 0 THEN 3 ELSE 2]
=============================================================================
