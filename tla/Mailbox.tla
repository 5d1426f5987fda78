------------------------------ MODULE Mailbox ------------------------------
(***************************************************************************)
(* What a client of AsyncStreamBuffer may rely on, without its threads:    *)
(* a bounded first-in first-out mailbox with one reader.  It may lose any  *)
(* message at any time (a full buffer drops its oldest, a closing one      *)
(* drops what it holds) but it never invents, duplicates or reorders one,  *)
(* never holds more than Capacity, and hands nothing out once it is shut.  *)
(***************************************************************************)
EXTENDS Naturals, Sequences, SequencesExt

CONSTANTS
    Message,    \* the messages a sender may offer
    Capacity    \* the most the mailbox ever holds, a positive number

VARIABLES
    accepted,   \* every message ever accepted
    box,        \* those still held, oldest first
    delivered,  \* those handed to the reader, in order
    shut        \* the reader will get nothing more

mailboxVars == <<accepted, box, delivered, shut>>

Init ==
    /\ accepted = {}
    /\ box = <<>>
    /\ delivered = <<>>
    /\ shut = FALSE

\* A message is accepted once; a mailbox that is shut still accepts (and
\* will lose) what is offered to it.
Accept(m) ==
    /\ m \notin accepted
    /\ Len(box) < Capacity
    /\ accepted' = accepted \cup {m}
    /\ box' = Append(box, m)
    /\ UNCHANGED <<delivered, shut>>

Lose(i) ==
    /\ box' = RemoveAt(box, i)
    /\ UNCHANGED <<accepted, delivered, shut>>

Deliver ==
    /\ ~shut
    /\ box # <<>>
    /\ delivered' = Append(delivered, Head(box))
    /\ box' = Tail(box)
    /\ UNCHANGED <<accepted, shut>>

Shut ==
    /\ ~shut
    /\ shut' = TRUE
    /\ UNCHANGED <<accepted, box, delivered>>

Next ==
    \/ \E m \in Message : Accept(m)
    \/ \E i \in DOMAIN box : Lose(i)
    \/ Deliver
    \/ Shut

Spec == Init /\ [][Next]_mailboxVars

=============================================================================
