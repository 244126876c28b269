----------------------------- MODULE RecordQueues -----------------------------
(***************************************************************************)
(* What record_delivery.h promises, without ring, indices or cursors: every *)
(* active consumer has a queue of its own, fed with every record and        *)
(* emptied by its own confirmations only.  The records kept at all are as   *)
(* many as the slowest active consumer needs, and at most Capacity; beyond  *)
(* that the oldest one is lost for the consumers that have not confirmed it.*)
(***************************************************************************)
EXTENDS Naturals, Sequences, FiniteSets, FiniteSetsExt

CONSTANTS Records, Consumers, Capacity, Modulus

VARIABLES
    kept,        \* the records still retained, oldest first
    pending,     \* [Consumers -> Seq(Records)]: what each active consumer will get
    active,      \* [Consumers -> BOOLEAN]
    delivered,   \* confirmations of each consumer, modulo Modulus
    lost         \* records each consumer lost, modulo Modulus

vars == <<kept, pending, active, delivered, lost>>

Increment(n) == (n + 1) % Modulus

Init ==
    /\ kept = <<>>
    /\ pending = [c \in Consumers |-> <<>>]
    /\ active = [c \in Consumers |-> FALSE]
    /\ delivered = [c \in Consumers |-> 0]
    /\ lost = [c \in Consumers |-> 0]

LastOf(s, n) == SubSeq(s, Len(s) - n + 1, Len(s))

\* What the active consumers still need; everything, when there is none.
Needed(k, queues, on) ==
    IF \E c \in Consumers : on[c]
    THEN LastOf(k, Max({Len(queues[c]) : c \in {d \in Consumers : on[d]}}))
    ELSE k

Push(r) ==
    LET k == Needed(kept, pending, active)
        full == Len(k) = Capacity
        loses(c) == active[c] /\ full /\ Len(pending[c]) = Capacity
    IN
    /\ kept' = Append(IF full THEN Tail(k) ELSE k, r)
    /\ pending' = [c \in Consumers |->
                     IF ~active[c] THEN <<>>
                     ELSE Append(IF loses(c) THEN Tail(pending[c]) ELSE pending[c], r)]
    /\ lost' = [c \in Consumers |-> IF loses(c) THEN Increment(lost[c]) ELSE lost[c]]
    /\ UNCHANGED <<active, delivered>>

\* A consumer that comes back starts with the oldest record retained.
Activate(c) ==
    /\ ~active[c]
    /\ active' = [active EXCEPT ![c] = TRUE]
    /\ pending' = [pending EXCEPT ![c] = kept]
    /\ UNCHANGED <<kept, delivered, lost>>

Deactivate(c) ==
    /\ active[c]
    /\ active' = [active EXCEPT ![c] = FALSE]
    /\ pending' = [pending EXCEPT ![c] = <<>>]
    /\ kept' = Needed(kept, pending', active')
    /\ UNCHANGED <<delivered, lost>>

Confirm(c) ==
    /\ active[c]
    /\ pending[c] # <<>>
    /\ pending' = [pending EXCEPT ![c] = Tail(@)]
    /\ kept' = Needed(kept, pending', active)
    /\ delivered' = [delivered EXCEPT ![c] = Increment(@)]
    /\ UNCHANGED <<active, lost>>

\* A new boot epoch forgets everything.
Restart ==
    /\ kept' = <<>>
    /\ pending' = [c \in Consumers |-> <<>>]
    /\ active' = [c \in Consumers |-> FALSE]
    /\ delivered' = [c \in Consumers |-> 0]
    /\ lost' = [c \in Consumers |-> 0]

Next ==
    \/ \E r \in Records : Push(r)
    \/ \E c \in Consumers : Activate(c) \/ Deactivate(c) \/ Confirm(c)
    \/ Restart

Spec == Init /\ [][Next]_vars
=============================================================================
