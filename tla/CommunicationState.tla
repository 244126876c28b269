------------------------- MODULE CommunicationState -------------------------
(***************************************************************************)
(* What the threads of subsys/communication/communication.c share, with the *)
(* place of each adapter, and what the dispatcher promises of it.  Its      *)
(* steps are in Communication.                                              *)
(***************************************************************************)
EXTENDS Naturals, Sequences, FiniteSets

CONSTANTS
    Adapters,      \* threads that call spaghetti_communication_handle_request
    Inflight,      \* CONFIG_SPAGHETTI_MAX_INFLIGHT_REQUESTS
    None           \* no request, no entry, no result

VARIABLES
    adapters,           \* [at, request, slot, result] of each adapter thread
    replay_cache,       \* entries [request, result, ttl], or None when unused
    replay_next_victim,
    mutation_slots,     \* [request, result, done]; request None: not used
    mutation_queue,     \* mutation_queue, of slot indices
    mutating,           \* the slot mutation_worker executes, or 0
    job_slots,          \* [state, id, request, status, left]
    job_queue,
    job_worker,         \* [at, slot]
    next_job_id

\* An answer is never somebody else's: whatever the reuse of cache entries and of
\* slots, what an adapter sends is the outcome of the very request it got.
AnswerIsForRequest ==
    \A a \in Adapters : adapters[a].result # None => adapters[a].result.of = adapters[a].request

At(a, point) == adapters[a].at = point
Holder(i) == {a \in Adapters : adapters[a].slot = i /\ adapters[a].at \in {"acquired", "waiting"}}
Queued(queue, i) == {k \in 1 .. Len(queue) : queue[k] = i}

\* A mutation slot has one holder from its acquisition to its release, who waits
\* for the request in it, and is in exactly one place: with the holder, in the
\* queue, with the worker, or done.
SlotsOwned ==
    \A i \in 1 .. Inflight :
        LET holders == {a \in Holder(i) : adapters[a].request.execution = "mutation"}
            waiting == {a \in holders : At(a, "waiting")}
            places == Cardinality(Queued(mutation_queue, i))
                        + (IF mutating = i THEN 1 ELSE 0)
                        + (IF mutation_slots[i].done THEN 1 ELSE 0)
        IN
        /\ Cardinality(holders) = IF mutation_slots[i].request = None THEN 0 ELSE 1
        /\ places = Cardinality(waiting)
        /\ \A a \in holders : mutation_slots[i].request = adapters[a].request

\* A verdict is final: a job that COMPLETED or FAILED stays so, whatever polls
\* come late.
VerdictKept ==
    [][\A i \in 1 .. Inflight : job_slots[i].state \in {"COMPLETED", "FAILED"}
                                   => job_slots'[i].state = job_slots[i].state]_job_slots

=============================================================================
