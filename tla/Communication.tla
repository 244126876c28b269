---------------------------- MODULE Communication ----------------------------
(***************************************************************************)
(* subsys/communication/communication.c: the dispatcher of Protocol V1.     *)
(* Adapter threads (USB, shell, BLE, MQTT, CAN, remote console) hand in     *)
(* requests; a replay cache answers repeated ones; reads run in the         *)
(* adapter, mutations on one worker thread while the adapter waits, and     *)
(* long jobs on another worker while clients poll.  communication_lock      *)
(* covers the lookup, the acquisition of a slot and the store, each on its  *)
(* own: between them, and in the workers, everything interleaves.  The      *)
(* shared state is declared in CommunicationState.                          *)
(***************************************************************************)
EXTENDS CommunicationState, Integers, Sequences, FiniteSets, FiniteSetsExt

CONSTANTS
    Requests,      \* [principal, correlation, execution, body]; body stands for the
                   \* operation and the bytes, which request_hash tells apart
    Provisioners,  \* principals with SPAGHETTI_PERMISSION_PROVISION
    Window         \* CONFIG_SPAGHETTI_PROTOCOL_REPLAY_WINDOW_MS, in ticks

ASSUME CommunicationAssumption ==
    /\ Inflight \in Nat \ {0}
    /\ Window \in Nat \ {0}
    /\ \A q \in Requests : q.execution \in {"read", "mutation", "async"}
    /\ None \notin Requests

replay == <<replay_cache, replay_next_victim>>
mutations == <<mutation_slots, mutation_queue, mutating>>
jobs == <<job_slots, job_queue, job_worker, next_job_id>>
vars == <<adapters, replay, mutations, jobs>>

Slots == 1 .. Inflight

\* A response: its public status and the request whose execution produced it.
Statuses == {"OK", "ERROR", "CONFLICT", "DENIED", "NO_SPACE"}
Results == [status : Statuses, of : Requests]

AdapterPoints == {"idle", "admitted", "acquired", "waiting", "store", "answered"}
JobStates == {"FREE", "PENDING", "RUNNING", "COMPLETED", "FAILED", "EXPIRED"}

FreeJob == [state |-> "FREE", id |-> 0, request |-> None, status |-> "OK", left |-> 0]
FreeMutation == [request |-> None, result |-> None, done |-> FALSE]

TypeOK ==
    /\ adapters \in [Adapters -> [at : AdapterPoints, request : Requests \cup {None},
                                  slot : 0 .. Inflight, result : Results \cup {None}]]
    /\ \A i \in Slots : replay_cache[i] = None
          \/ replay_cache[i] \in [request : Requests, result : Results, ttl : 0 .. Window]
    /\ replay_next_victim \in Slots
    /\ mutation_slots \in [Slots -> [request : Requests \cup {None},
                                     result : Results \cup {None}, done : BOOLEAN]]
    /\ mutation_queue \in Seq(Slots) /\ Len(mutation_queue) <= Inflight
    /\ mutating \in 0 .. Inflight
    /\ job_slots \in [Slots -> [state : JobStates, id : Nat, request : Requests \cup {None},
                                status : {"OK", "ERROR", "TIMEOUT"}, left : -1 .. Window]]
    /\ job_queue \in Seq(Slots) /\ Len(job_queue) <= Inflight
    /\ job_worker \in [at : {"idle", "checked", "running", "judged"}, slot : 0 .. Inflight]
    /\ next_job_id \in Nat

Init ==
    /\ adapters = [a \in Adapters |-> [at |-> "idle", request |-> None, slot |-> 0, result |-> None]]
    /\ replay_cache = [i \in Slots |-> None]
    /\ replay_next_victim = 1
    /\ mutation_slots = [i \in Slots |-> FreeMutation]
    /\ mutation_queue = <<>>
    /\ mutating = 0
    /\ job_slots = [i \in Slots |-> FreeJob]
    /\ job_queue = <<>>
    /\ job_worker = [at |-> "idle", slot |-> 0]
    /\ next_job_id = 0

-----------------------------------------------------------------------------
(* The replay cache *)

SameKey(q, r) == q.principal = r.principal /\ q.correlation = r.correlation

\* purge_expired_replay
Purged == [i \in Slots |->
             IF replay_cache[i] # None /\ replay_cache[i].ttl = 0 THEN None ELSE replay_cache[i]]

Entries(q) == {i \in Slots : Purged[i] # None /\ SameKey(Purged[i].request, q)}

\* The first entry of the key decides replay_lookup.
Entry(q) == Purged[Min(Entries(q))]

\* A hit whatever the operation and the bytes
HitOfKey(q) == Entries(q) # {}

Hit(q) == Entries(q) # {} /\ Entry(q).request = q
Conflict(q) == Entries(q) # {} /\ Entry(q).request # q

\* replay_store: an unused slot, else the next victim
Stored(q, result) ==
    LET unused == {i \in Slots : Purged[i] = None}
        i == IF unused # {} THEN Min(unused) ELSE replay_next_victim
    IN
    /\ replay_cache' = [Purged EXCEPT ![i] = [request |-> q, result |-> result, ttl |-> Window]]
    /\ replay_next_victim' = IF unused # {} THEN replay_next_victim
                             ELSE (replay_next_victim % Inflight) + 1

-----------------------------------------------------------------------------
(* spaghetti_communication_handle_request *)

Request(a) == adapters[a].request
Answer(a, q, result) ==
    adapters' = [adapters EXCEPT ![a] = [at |-> "answered", request |-> q, slot |-> 0, result |-> result]]
ToStore(a, status) ==
    adapters' = [adapters EXCEPT ![a] = [at |-> "store", request |-> Request(a), slot |-> 0,
                                         result |-> [status |-> status, of |-> Request(a)]]]

Refuse(a, q) ==
    /\ At(a, "idle") /\ Conflict(q)
    /\ Answer(a, q, [status |-> "CONFLICT", of |-> q])
    /\ replay_cache' = Purged
    /\ UNCHANGED <<replay_next_victim, mutations, jobs>>

Replay(a, q) ==
    /\ At(a, "idle") /\ Hit(q)
    /\ Answer(a, q, Entry(q).result)
    /\ replay_cache' = Purged
    /\ UNCHANGED <<replay_next_victim, mutations, jobs>>

\* authorize_request asks Access Control, outside this component: either answer.
Deny(a, q) ==
    /\ At(a, "idle") /\ Entries(q) = {}
    /\ Answer(a, q, [status |-> "DENIED", of |-> q])
    /\ replay_cache' = Purged
    /\ UNCHANGED <<replay_next_victim, mutations, jobs>>

Admit(a, q) ==
    /\ At(a, "idle") /\ Entries(q) = {}
    /\ adapters' = [adapters EXCEPT ![a].at = "admitted", ![a].request = q]
    /\ replay_cache' = Purged
    /\ UNCHANGED <<replay_next_victim, mutations, jobs>>

\* The response goes into the cache, errors included, and out to the adapter.
Store(a) ==
    /\ At(a, "store")
    /\ Stored(Request(a), adapters[a].result)
    /\ adapters' = [adapters EXCEPT ![a].at = "answered"]
    /\ UNCHANGED <<mutations, jobs>>

\* The adapter sends the response and takes the next request.
Return(a) ==
    /\ At(a, "answered")
    /\ adapters' = [adapters EXCEPT ![a] = [at |-> "idle", request |-> None, slot |-> 0, result |-> None]]
    /\ UNCHANGED <<replay, mutations, jobs>>

-----------------------------------------------------------------------------
(* Serialized mutations *)

FreeMutations == {i \in Slots : mutation_slots[i].request = None}

\* run_serialized_mutation up to the unlock: mutation_acquire takes the first slot.
AcquireMutation(a) ==
    /\ At(a, "admitted") /\ Request(a).execution = "mutation"
    /\ IF FreeMutations = {}
       THEN ToStore(a, "NO_SPACE") /\ UNCHANGED mutation_slots
       ELSE LET i == Min(FreeMutations) IN
            /\ mutation_slots' = [mutation_slots EXCEPT
                 ![i] = [request |-> Request(a), result |-> None, done |-> FALSE]]
            /\ adapters' = [adapters EXCEPT ![a].at = "acquired", ![a].slot = i]
    /\ UNCHANGED <<replay, mutation_queue, mutating, jobs>>

\* k_msgq_put without waiting, or the slot goes back
PutMutation(a) ==
    /\ At(a, "acquired") /\ Request(a).execution = "mutation"
    /\ IF Len(mutation_queue) < Inflight
       THEN /\ mutation_queue' = Append(mutation_queue, adapters[a].slot)
            /\ adapters' = [adapters EXCEPT ![a].at = "waiting"]
            /\ UNCHANGED mutation_slots
       ELSE /\ mutation_slots' = [mutation_slots EXCEPT ![adapters[a].slot].request = None]
            /\ ToStore(a, "NO_SPACE")
            /\ UNCHANGED mutation_queue
    /\ UNCHANGED <<replay, mutating, jobs>>

\* mutation_worker takes a slot and executes its handler.
StartMutation ==
    /\ mutating = 0 /\ mutation_queue # <<>>
    /\ mutating' = Head(mutation_queue)
    /\ mutation_queue' = Tail(mutation_queue)
    /\ UNCHANGED <<adapters, replay, mutation_slots, jobs>>

\* A worker that wakes the adapter on success only
FinishMutationSilently(status) ==
    /\ mutating # 0
    /\ mutation_slots' = [mutation_slots EXCEPT
         ![mutating].result = [status |-> status, of |-> mutation_slots[mutating].request],
         ![mutating].done = (status = "OK")]
    /\ mutating' = 0
    /\ UNCHANGED <<adapters, replay, mutation_queue, jobs>>

FinishMutation(status) ==
    /\ mutating # 0
    /\ mutation_slots' = [mutation_slots EXCEPT
         ![mutating].result = [status |-> status, of |-> mutation_slots[mutating].request],
         ![mutating].done = TRUE]
    /\ mutating' = 0
    /\ UNCHANGED <<adapters, replay, mutation_queue, jobs>>

\* A bounded wait: the adapter may leave before the worker is done.
WokenOrTimedOut(a) ==
    /\ At(a, "waiting")
    /\ adapters' = [adapters EXCEPT ![a] = [at |-> "store", request |-> Request(a), slot |-> 0,
         result |-> [status |-> "ERROR", of |-> Request(a)]]]
    /\ mutation_slots' = [mutation_slots EXCEPT ![adapters[a].slot] = FreeMutation]
    /\ UNCHANGED <<replay, mutation_queue, mutating, jobs>>

\* k_sem_take, the copy of the response and mutation_release: the slot is the
\* adapter's own all along.
Woken(a) ==
    /\ At(a, "waiting")
    /\ mutation_slots[adapters[a].slot].done
    /\ adapters' = [adapters EXCEPT ![a] = [at |-> "store", request |-> Request(a), slot |-> 0,
         result |-> mutation_slots[adapters[a].slot].result]]
    /\ mutation_slots' = [mutation_slots EXCEPT ![adapters[a].slot] = FreeMutation]
    /\ UNCHANGED <<replay, mutation_queue, mutating, jobs>>

-----------------------------------------------------------------------------
(* Asynchronous jobs *)

FreeJobs == {i \in Slots : job_slots[i].state = "FREE"}

\* run_async_job up to the unlock.  No slot ever becomes FREE again once its job ran.
AcquireJob(a) ==
    /\ At(a, "admitted") /\ Request(a).execution = "async"
    /\ IF FreeJobs = {}
       THEN ToStore(a, "NO_SPACE") /\ UNCHANGED <<job_slots, next_job_id>>
       ELSE LET i == Min(FreeJobs) IN
            /\ job_slots' = [job_slots EXCEPT
                 ![i] = [state |-> "PENDING", id |-> next_job_id + 1, request |-> Request(a),
                         status |-> "OK", left |-> Window]]
            /\ next_job_id' = next_job_id + 1
            /\ adapters' = [adapters EXCEPT ![a].at = "acquired", ![a].slot = i]
    /\ UNCHANGED <<replay, mutations, job_queue, job_worker>>

PutJob(a) ==
    /\ At(a, "acquired") /\ Request(a).execution = "async"
    /\ IF Len(job_queue) < Inflight
       THEN /\ job_queue' = Append(job_queue, adapters[a].slot)
            /\ ToStore(a, "OK")
            /\ UNCHANGED job_slots
       ELSE /\ job_slots' = [job_slots EXCEPT ![adapters[a].slot].state = "FREE"]
            /\ ToStore(a, "NO_SPACE")
            /\ UNCHANGED job_queue
    /\ UNCHANGED <<replay, mutations, job_worker, next_job_id>>

Overdue(i) == job_slots[i].left < 0

\* job_worker runs without the lock.  An overdue job is not executed.
ExpireJob ==
    /\ job_worker.at = "idle" /\ job_queue # <<>> /\ Overdue(Head(job_queue))
    /\ job_slots' = [job_slots EXCEPT ![Head(job_queue)].state = "EXPIRED",
                                      ![Head(job_queue)].status = "TIMEOUT"]
    /\ job_queue' = Tail(job_queue)
    /\ UNCHANGED <<adapters, replay, mutations, job_worker, next_job_id>>

CheckJob ==
    /\ job_worker.at = "idle" /\ job_queue # <<>> /\ ~Overdue(Head(job_queue))
    /\ job_worker' = [at |-> "checked", slot |-> Head(job_queue)]
    /\ job_queue' = Tail(job_queue)
    /\ UNCHANGED <<adapters, replay, mutations, job_slots, next_job_id>>

RunJob ==
    /\ job_worker.at = "checked"
    /\ job_slots' = [job_slots EXCEPT ![job_worker.slot].state = "RUNNING"]
    /\ job_worker' = [job_worker EXCEPT !.at = "running"]
    /\ UNCHANGED <<adapters, replay, mutations, job_queue, next_job_id>>

\* The state is written before protocol_status: a poll may come in between.
JudgeJob(verdict) ==
    /\ job_worker.at = "running"
    /\ job_slots' = [job_slots EXCEPT ![job_worker.slot].state = verdict]
    /\ job_worker' = [job_worker EXCEPT !.at = "judged"]
    /\ UNCHANGED <<adapters, replay, mutations, job_queue, next_job_id>>

FinishJob ==
    /\ job_worker.at = "judged"
    /\ job_slots' = [job_slots EXCEPT ![job_worker.slot].status =
                       IF job_slots[job_worker.slot].state = "FAILED" THEN "ERROR" ELSE "OK"]
    /\ job_worker' = [at |-> "idle", slot |-> 0]
    /\ UNCHANGED <<adapters, replay, mutations, job_queue, next_job_id>>

\* A poll that expires whatever is overdue
ExpiredByAnyPoll(i) ==
    IF Overdue(i)
    THEN [job_slots EXCEPT ![i].state = "EXPIRED", ![i].status = "TIMEOUT"]
    ELSE job_slots

\* spaghetti_communication_job_get_status expires a job that is not finished in time.
ExpiredByPoll(i) ==
    IF job_slots[i].state \in {"PENDING", "RUNNING"} /\ Overdue(i)
    THEN [job_slots EXCEPT ![i].state = "EXPIRED", ![i].status = "TIMEOUT"]
    ELSE job_slots

\* An immediate read, in the adapter's thread.  The one with an effect is
\* GET_JOB_STATUS, whose body is a job identifier.
Read(a) ==
    LET q == Request(a)
        named == {i \in Slots : job_slots[i].state # "FREE" /\ job_slots[i].id = q.body}
        mine == {i \in named : job_slots[i].request.principal = q.principal
                                 \/ q.principal \in Provisioners}
    IN
    /\ At(a, "admitted") /\ q.execution = "read"
    /\ job_slots' = IF mine # {} THEN ExpiredByPoll(Min(mine)) ELSE job_slots
    /\ ToStore(a, IF mine # {} THEN "OK" ELSE "ERROR")
    /\ UNCHANGED <<replay, mutations, job_queue, job_worker, next_job_id>>

-----------------------------------------------------------------------------
\* spaghetti_communication_invalidate_principal
Invalidate(p) ==
    /\ replay_cache' = [i \in Slots |->
          IF replay_cache[i] # None /\ replay_cache[i].request.principal = p THEN None
          ELSE replay_cache[i]]
    /\ UNCHANGED <<adapters, replay_next_victim, mutations, jobs>>

\* k_uptime_get advances.
Tick ==
    /\ replay_cache' = [i \in Slots |->
          IF replay_cache[i] = None THEN None
          ELSE [replay_cache[i] EXCEPT !.ttl = IF @ > 0 THEN @ - 1 ELSE 0]]
    /\ job_slots' = [i \in Slots |->
          [job_slots[i] EXCEPT !.left = IF job_slots[i].state = "FREE" THEN 0
                                        ELSE IF @ >= 0 THEN @ - 1 ELSE -1]]
    /\ UNCHANGED <<adapters, replay_next_victim, mutations, job_queue, job_worker, next_job_id>>

Arrive(a) == \E q \in Requests : Refuse(a, q) \/ Replay(a, q) \/ Deny(a, q) \/ Admit(a, q)

Proceed(a) ==
    \/ Read(a) \/ AcquireMutation(a) \/ PutMutation(a) \/ Woken(a)
    \/ AcquireJob(a) \/ PutJob(a) \/ Store(a) \/ Return(a)

MutationWorker == StartMutation \/ \E status \in {"OK", "ERROR"} : FinishMutation(status)

JobWorker ==
    \/ ExpireJob \/ CheckJob \/ RunJob \/ FinishJob
    \/ \E verdict \in {"COMPLETED", "FAILED"} : JudgeJob(verdict)

Next ==
    \/ \E a \in Adapters : Arrive(a) \/ Proceed(a)
    \/ MutationWorker \/ JobWorker \/ Tick
    \/ \E p \in {q.principal : q \in Requests} : Invalidate(p)

Spec == Init /\ [][Next]_vars

\* Zephyr's preemptive scheduler runs every ready thread, and handlers return.
FairSpec ==
    /\ Spec
    /\ \A a \in Adapters : WF_vars(Proceed(a))
    /\ WF_vars(MutationWorker)
    /\ WF_vars(JobWorker)

-----------------------------------------------------------------------------
(* Properties *)

\* Every request that was admitted is answered: k_sem_take waits for ever, so the
\* worker must give every semaphore.
RequestsAnswered ==
    \A a \in Adapters : At(a, "admitted") ~> At(a, "answered")

\* Every accepted job ends.
JobsEnd ==
    \A i \in Slots : job_slots[i].state = "PENDING"
                       ~> job_slots[i].state \in {"COMPLETED", "FAILED", "EXPIRED"}

\* communication/README.md: "Async jobs return `job_id`".  An async request may be
\* refused for lack of space while another job has not ended, but not when none is
\* in flight.
AsyncReturnsJob ==
    [][\A a \in Adapters :
         (AcquireJob(a) /\ adapters'[a].at = "store")
            => \/ \E i \in Slots : job_slots[i].state \in {"PENDING", "RUNNING"}
               \/ job_worker.at # "idle"]_vars
=============================================================================
