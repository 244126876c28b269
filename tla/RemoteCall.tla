------------------------------ MODULE RemoteCall ------------------------------
(***************************************************************************)
(* What the caller of one Protocol V1 operation is promised: the operation  *)
(* runs at most once while the Core stays up, however often the request is  *)
(* sent again, and a caller told "ok" or "error" is told what a run of that *)
(* very operation answered.  A call may end without an answer, and then     *)
(* nothing is known of the runs.                                            *)
(***************************************************************************)
CONSTANTS Calls

Statuses == {"ok", "error"}
Outcomes == Statuses \union {"none", "timeout", "cancelled", "rebooted"}

VARIABLES
    runs,       \* [Calls -> Nat]: runs of the operation since the Core started
    answers,    \* [Calls -> SUBSET Statuses]: what the runs answered
    outcome     \* [Calls -> Outcomes]: what the caller was told

vars == <<runs, answers, outcome>>

Init ==
    /\ runs = [c \in Calls |-> 0]
    /\ answers = [c \in Calls |-> {}]
    /\ outcome = [c \in Calls |-> "none"]

Run(c, s) ==
    /\ runs[c] = 0
    /\ runs' = [runs EXCEPT ![c] = 1]
    /\ answers' = [answers EXCEPT ![c] = answers[c] \union {s}]
    /\ UNCHANGED outcome

\* One message may end several calls.
End ==
    /\ outcome' \in [Calls -> Outcomes]
    /\ \A c \in Calls :
         outcome'[c] # outcome[c] =>
            /\ outcome[c] = "none"
            /\ outcome'[c] \in Statuses => outcome'[c] \in answers[c]
    /\ UNCHANGED <<runs, answers>>

Restart ==
    /\ runs' = [c \in Calls |-> 0]
    /\ UNCHANGED <<answers, outcome>>

Next == End \/ Restart \/ \E c \in Calls, s \in Statuses : Run(c, s)

Spec == Init /\ [][Next]_vars
=============================================================================
