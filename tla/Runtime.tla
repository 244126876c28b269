------------------------------- MODULE Runtime -------------------------------
(***************************************************************************)
(* subsys/runtime/runtime.c on top of the Module Manager: one worker reads  *)
(* the due jobs and publishes the queued events, callers configure, start   *)
(* and stop it, drivers emit events from their own context, and hosts use   *)
(* the same Modules directly.                                               *)
(*                                                                          *)
(* runtime_lock is held through a whole start() or stop(), which make one   *)
(* Manager call per job; the worker gives it back around every Manager and  *)
(* rule call and is then represented only by active_operations.             *)
(* The Modules are the ones Config has made READY; none is added or removed.*)
(* The shared state is declared in RuntimeState.                            *)
(***************************************************************************)
EXTENDS RuntimeState, Naturals, Sequences, FiniteSets

CONSTANTS
    Ports, Owners, Supported, MixedPorts, MaxOwners,    \* of Port
    NumSlots, Requests, NoRequest, MaxSequence,         \* of ModuleManager
    Worker,          \* runtime_worker_thread_id
    Callers,         \* threads that call configure, start and stop
    Hosts,           \* threads that send commands to Modules
    Installed,       \* the request of each live Module
    Commandable,     \* the Modules whose driver has a command operation
    Configurations,  \* the schedules Config may load
    MaxJobs,         \* SPAGHETTI_CONFIG_MAX_SCHEDULES
    MaxQueue,        \* CONFIG_SPAGHETTI_MAX_RECORD_QUEUE
    MaxDepth,        \* the command depth at which a chain of actions is cut
    Nobody           \* runtime_lock is free; also an event without a source

VARIABLES
    owners, transport, slots, pc, at, loads, contexts, armed    \* of ModuleManager

manager == <<owners, transport, slots, pc, at, loads, contexts, armed>>
run == <<jobs, armed_jobs, rules, stopped, lock, listener, giving, caller>>
vars == <<manager, run, state, due, active, queue, wake, worker>>

Manager == INSTANCE ModuleManager WITH Threads <- Callers \cup Hosts \cup {Worker}

Slots == 0 .. NumSlots - 1

\* A job polls one source; Config rejects two schedules of the same source.
ASSUME RuntimeAssumption ==
    /\ MaxJobs \in Nat \ {0}
    /\ MaxQueue \in Nat
    /\ MaxDepth \in Nat
    /\ Worker \notin Callers \cup Hosts
    /\ Callers \cap Hosts = {}
    /\ Nobody \notin Callers \cup Slots
    /\ Installed \in [Slots -> Requests]
    /\ Commandable \subseteq Slots
    /\ \A c \in Configurations :
          /\ c \in Seq([source : Slots, enabled : BOOLEAN])
          /\ Len(c) <= MaxJobs
          /\ \A i, j \in DOMAIN c : c[i].source = c[j].source => i = j

Events == [source : Slots \cup {Nobody}, depth : 0 .. MaxDepth]

WorkerPlaces == {"loop", "parked", "poll", "sleep", "drain", "event", "jobs",
                 "read", "reading", "advance", "publish", "dispatch", "rules",
                 "command", "complete"}
CallerPlaces == {"idle", "arm", "arming", "disarm", "disarming", "await"}

TypeOK ==
    /\ Manager!TypeOK
    /\ state \in {"STOPPED", "RUNNING", "STOPPING"}
    /\ jobs \in Configurations
    /\ armed_jobs \subseteq DOMAIN jobs
    /\ due \subseteq DOMAIN jobs
    /\ rules \in {0, 1}
    /\ active \in 0 .. 2
    /\ queue \in Seq(Events) /\ Len(queue) <= MaxQueue
    /\ wake \in BOOLEAN /\ stopped \in BOOLEAN
    /\ lock \in Callers \cup {Nobody}
    /\ listener \in [Slots -> 1 .. MaxJobs]
    /\ giving \subseteq Slots
    /\ worker \in [place : WorkerPlaces, back : {"loop", "drain", "jobs"},
                   wait : {"none", "timed", "forever"}, job : 1 .. MaxJobs,
                   event : Events, rules : {0, 1}, ok : BOOLEAN]
    /\ caller \in [Callers -> [place : CallerPlaces, job : 1 .. MaxJobs + 1, starting : BOOLEAN]]

NoEvent == [source |-> Nobody, depth |-> 0]

\* The worker between two operations
At(place) == [place |-> place, back |-> "loop", wait |-> "none", job |-> 1,
              event |-> NoEvent, rules |-> 0, ok |-> FALSE]

Init ==
    /\ owners = [p \in Ports |-> {Installed[s].key :
                                    s \in {q \in Slots : Installed[q].port = p /\ Manager!NeedsPort(Installed[q])}}]
    /\ transport \in [Ports -> Manager!Transports \cup {Manager!NoTransport}]
    /\ \A p \in Ports :
          IF owners[p] = {}
          THEN transport[p] = Manager!NoTransport
          ELSE \E s \in Slots : Installed[s].port = p /\ transport[p] = Manager!TransportOf(Installed[s])
    /\ slots = [s \in Slots |-> [Manager!Cleared EXCEPT !.used = TRUE, !.state = "READY",
                                   !.request = Installed[s], !.power_attached = Installed[s].rail,
                                   !.read_sequence = MaxSequence]]   \* reads made by earlier runs
    /\ pc = [t \in Callers \cup Hosts \cup {Worker} |-> "idle"]
    /\ at = [t \in Callers \cup Hosts \cup {Worker} |-> 0]
    /\ loads = {s \in Slots : Installed[s].rail}
    /\ contexts = Slots
    /\ armed = {}
    /\ state = "STOPPED"
    /\ jobs \in Configurations
    /\ armed_jobs = {} /\ due = {} /\ rules = 0
    /\ active = 0 /\ queue = <<>> /\ wake = FALSE /\ stopped = FALSE
    /\ lock = Nobody
    /\ listener = [s \in Slots |-> 1]
    /\ giving = {}
    /\ worker = At("loop")
    /\ caller = [c \in Callers |-> [place |-> "idle", job |-> 1, starting |-> FALSE]]

Unlocked == lock = Nobody
WorkerTo(place) == worker' = [worker EXCEPT !.place = place]

\* k_sem_give hands the token to a caller that waits for it.
GiveStopped ==
    IF \E c \in Callers : caller[c].place = "await"
    THEN /\ \E c \in Callers : /\ caller[c].place = "await"
                               /\ caller' = [caller EXCEPT ![c].place = "idle"]
         /\ UNCHANGED stopped
    ELSE stopped' = TRUE /\ UNCHANGED caller

\* finish_stop_if_quiescent without the test of active_operations
FinishStopAtOnce(operations) ==
    IF state = "STOPPING"
    THEN state' = "STOPPED" /\ GiveStopped
    ELSE UNCHANGED <<state, stopped, caller>>

\* finish_stop_if_quiescent, when `operations' are left
FinishStopIfQuiescent(operations) ==
    IF state = "STOPPING" /\ operations = 0
    THEN state' = "STOPPED" /\ GiveStopped
    ELSE UNCHANGED <<state, stopped, caller>>

-----------------------------------------------------------------------------
(* The worker: runtime_worker_entry *)

\* How long the worker may sleep: nearest_deadline_ms
Wait == IF due # {} THEN "none"
        ELSE IF \E i \in DOMAIN jobs : jobs[i].enabled THEN "timed" ELSE "forever"

LoopRunning ==
    /\ worker.place = "loop" /\ Unlocked
    /\ state = "RUNNING"
    /\ worker' = [worker EXCEPT !.place = "poll", !.wait = Wait]
    /\ UNCHANGED <<manager, run, state, due, active, queue, wake>>

LoopNotRunning ==
    /\ worker.place = "loop" /\ Unlocked
    /\ state # "RUNNING"
    /\ FinishStopIfQuiescent(active)
    /\ WorkerTo("parked")
    /\ UNCHANGED <<manager, jobs, armed_jobs, rules, lock, listener, giving, due, active, queue, wake>>

Unpark ==
    /\ worker.place = "parked"
    /\ wake
    /\ wake' = FALSE
    /\ WorkerTo("loop")
    /\ UNCHANGED <<manager, run, state, due, active, queue>>

\* k_msgq_get: once before the worker sleeps, and until the queue is empty after it.
TakeEvent ==
    /\ worker.place \in {"poll", "drain"}
    /\ queue # <<>>
    /\ queue' = Tail(queue)
    /\ worker' = [worker EXCEPT !.place = "event", !.event = Head(queue),
                                !.wait = "none",
                                !.back = IF worker.place = "poll" THEN "loop" ELSE "drain"]
    /\ UNCHANGED <<manager, run, state, due, active, wake>>

NoMoreEvents ==
    /\ worker.place \in {"poll", "drain"}
    /\ queue = <<>>
    /\ WorkerTo(IF worker.place = "poll" THEN "sleep" ELSE "jobs")
    /\ UNCHANGED <<manager, run, state, due, active, queue, wake>>

\* The wait ends with a token, or with the deadline it was computed from.
WakeUp ==
    /\ worker.place = "sleep"
    /\ wake \/ worker.wait = "none" \/ (worker.wait = "timed" /\ due # {})
    /\ wake' = FALSE
    /\ worker' = At("drain")
    /\ UNCHANGED <<manager, run, state, due, active, queue>>

\* Where the worker goes after an operation, or instead of one
NextPlace ==
    IF worker.back = "jobs" /\ worker.job < MaxJobs
    THEN [At("jobs") EXCEPT !.job = worker.job + 1]
    ELSE At(IF worker.back = "jobs" THEN "loop" ELSE worker.back)

\* process_event: an event of a source without a job is dropped, unless a rule's
\* command made it.
KeepEvent ==
    /\ state = "RUNNING"
    /\ worker.event.depth > 0 \/ \E i \in DOMAIN jobs : jobs[i].source = worker.event.source

ProcessEvent ==
    /\ worker.place = "event" /\ Unlocked
    /\ KeepEvent
    /\ active' = active + 1
    /\ WorkerTo("publish")
    /\ UNCHANGED <<manager, run, state, due, queue, wake>>

DropEvent ==
    /\ worker.place = "event" /\ Unlocked
    /\ ~KeepEvent
    /\ worker' = NextPlace
    /\ UNCHANGED <<manager, run, state, due, active, queue, wake>>

\* process_due_jobs, one job at a time
JobIsDue ==
    /\ state = "RUNNING"
    /\ worker.job \in DOMAIN jobs
    /\ jobs[worker.job].enabled
    /\ worker.job \in due

TakeJob ==
    /\ worker.place = "jobs" /\ Unlocked
    /\ JobIsDue
    /\ active' = active + 1
    /\ worker' = [worker EXCEPT !.place = "read", !.back = "jobs",
                                !.event = [source |-> jobs[worker.job].source, depth |-> 0]]
    /\ UNCHANGED <<manager, run, state, due, queue, wake>>

SkipJob ==
    /\ worker.place = "jobs" /\ Unlocked
    /\ ~JobIsDue
    /\ worker' = IF worker.job < MaxJobs THEN [worker EXCEPT !.job = @ + 1] ELSE At("loop")
    /\ UNCHANGED <<manager, run, state, due, active, queue, wake>>

MayBorrow(s, op) == Manager!Available(s) /\ Manager!MayBorrow(s, op)

ReadJob ==
    /\ worker.place = "read"
    /\ Manager!Borrow(Worker, worker.event.source, "read")
    /\ WorkerTo("reading")
    /\ UNCHANGED <<run, state, due, active, queue, wake>>

\* A Module that another thread is using answers -EBUSY.
ReadRefused ==
    /\ worker.place = "read"
    /\ ~MayBorrow(worker.event.source, "read")
    /\ worker' = [worker EXCEPT !.place = "advance", !.ok = FALSE]
    /\ UNCHANGED <<manager, run, state, due, active, queue, wake>>

ReadReturns ==
    /\ worker.place = "reading"
    /\ \/ Manager!FinishRead(Worker) /\ worker' = [worker EXCEPT !.place = "advance", !.ok = TRUE]
       \/ Manager!FinishUnchanged(Worker) /\ worker' = [worker EXCEPT !.place = "advance", !.ok = FALSE]
    /\ UNCHANGED <<run, state, due, active, queue, wake>>

\* The deadline moves on only in a run that is still the same; the record is
\* published in any case.
Advance ==
    /\ worker.place = "advance" /\ Unlocked
    /\ due' = IF /\ state = "RUNNING"
                 /\ worker.job \in DOMAIN jobs
                 /\ jobs[worker.job].source = worker.event.source
              THEN due \ {worker.job} ELSE due
    /\ worker' = [worker EXCEPT !.place = IF worker.ok THEN "publish" ELSE "complete", !.ok = FALSE]
    /\ UNCHANGED <<manager, run, state, active, queue, wake>>

\* A path out of publish_record that forgets complete_operation
PublishForgotten ==
    /\ worker.place = "publish"
    /\ \/ WorkerTo("dispatch")
       \/ worker' = NextPlace
    /\ UNCHANGED <<manager, run, state, due, active, queue, wake>>

\* publish_record: Data takes the record or refuses it.
Publish ==
    /\ worker.place = "publish"
    /\ \E next \in {"dispatch", "complete"} : WorkerTo(next)
    /\ UNCHANGED <<manager, run, state, due, active, queue, wake>>

\* dispatch_rules that does not count itself as an operation
DispatchUncounted ==
    /\ worker.place = "dispatch" /\ Unlocked
    /\ state = "RUNNING"
    /\ worker' = [worker EXCEPT !.place = "rules", !.rules = rules]
    /\ UNCHANGED <<manager, run, state, due, active, queue, wake>>

\* dispatch_rules copies the rule slots, whose contexts are used unlocked.
Dispatch ==
    /\ worker.place = "dispatch" /\ Unlocked
    /\ state = "RUNNING"
    /\ active' = active + 1
    /\ worker' = [worker EXCEPT !.place = "rules", !.rules = rules]
    /\ UNCHANGED <<manager, run, state, due, queue, wake>>

DispatchStopped ==
    /\ worker.place = "dispatch" /\ Unlocked
    /\ state # "RUNNING"
    /\ WorkerTo("complete")
    /\ UNCHANGED <<manager, run, state, due, active, queue, wake>>

\* emit_rule_action: a rule commands a Module from inside on_record.
RuleCommands(s) ==
    /\ worker.place = "rules"
    /\ worker.event.depth < MaxDepth
    /\ Manager!Borrow(Worker, s, "command")
    /\ WorkerTo("command")
    /\ UNCHANGED <<run, state, due, active, queue, wake>>

\* The command's result, if it has one, becomes an event of the target.
CommandReturns ==
    /\ worker.place = "command"
    /\ Manager!FinishUnchanged(Worker)
    /\ WorkerTo("rules")
    /\ \/ UNCHANGED <<queue, wake>>
       \/ /\ Len(queue) < MaxQueue
          /\ queue' = Append(queue, [source |-> at[Worker], depth |-> worker.event.depth + 1])
          /\ wake' = TRUE
    /\ UNCHANGED <<run, state, due, active>>

\* complete_operation
CompleteOperation(next) ==
    /\ Unlocked
    /\ active' = active - 1
    /\ FinishStopIfQuiescent(active - 1)
    /\ worker' = next
    /\ UNCHANGED <<manager, jobs, armed_jobs, rules, lock, listener, giving, due, queue, wake>>

\* Records derived from the first one follow it through the same rules.
RulesDone ==
    /\ worker.place = "rules"
    /\ \E place \in {"dispatch", "complete"} : CompleteOperation([worker EXCEPT !.place = place, !.rules = 0])

Complete ==
    /\ worker.place = "complete"
    /\ CompleteOperation(NextPlace)

WorkerStep ==
    \/ LoopRunning \/ LoopNotRunning \/ Unpark \/ TakeEvent \/ NoMoreEvents \/ WakeUp
    \/ ProcessEvent \/ DropEvent \/ TakeJob \/ SkipJob
    \/ ReadJob \/ ReadRefused \/ ReadReturns \/ Advance \/ Publish
    \/ Dispatch \/ DispatchStopped \/ (\E s \in Commandable : RuleCommands(s))
    \/ CommandReturns \/ RulesDone \/ Complete

-----------------------------------------------------------------------------
(* Callers: configure, start, stop *)

CallerTo(c, place, job) == caller' = [caller EXCEPT ![c].place = place, ![c].job = job]

\* The check of configure() that only looks for RUNNING
ConfigureUnlessRunning(c, schedules) ==
    /\ caller[c].place = "idle" /\ Unlocked
    /\ state # "RUNNING"
    /\ jobs' = schedules
    /\ rules' = 1 - rules
    /\ armed_jobs' = {} /\ due' = {}
    /\ UNCHANGED <<manager, state, active, queue, wake, stopped, lock, listener, giving, worker, caller>>

\* spaghetti_runtime_configure: new rule contexts replace the old ones, which are
\* deinitialised, and the jobs start over.
Configure(c, schedules) ==
    /\ caller[c].place = "idle" /\ Unlocked
    /\ state = "STOPPED"
    /\ jobs' = schedules
    /\ rules' = 1 - rules
    /\ armed_jobs' = {} /\ due' = {}
    /\ UNCHANGED <<manager, state, active, queue, wake, stopped, lock, listener, giving, worker, caller>>

\* spaghetti_runtime_start up to the loop that arms events.  Rules without a
\* schedule are work too.
BeginStart(c) ==
    /\ caller[c].place = "idle" /\ Unlocked
    /\ state = "STOPPED"
    /\ \A i \in DOMAIN jobs : slots[jobs[i].source].state = "READY"
    /\ due' = {i \in DOMAIN jobs : jobs[i].enabled}
    /\ armed_jobs' = {}
    /\ queue' = <<>> /\ wake' = FALSE /\ stopped' = FALSE
    /\ lock' = c
    /\ caller' = [caller EXCEPT ![c] = [place |-> "arm", job |-> 1, starting |-> TRUE]]
    /\ UNCHANGED <<manager, state, jobs, rules, active, listener, giving, worker>>

Source(c) == jobs[caller[c].job].source
InArm(c) == caller[c].place = "arm" /\ caller[c].job \in DOMAIN jobs
HasEvents(s) == Manager!Request(s).driver.events

\* -ENOTSUP: a source without events is only polled.
ArmPolled(c) ==
    /\ InArm(c)
    /\ ~HasEvents(Source(c))
    /\ CallerTo(c, "arm", caller[c].job + 1)
    /\ UNCHANGED <<manager, jobs, armed_jobs, rules, stopped, lock, listener, giving,
                   state, due, active, queue, wake, worker>>

\* The job's address goes to the driver with the call.
Arm(c) ==
    /\ InArm(c)
    /\ Manager!Borrow(c, Source(c), "start_events")
    /\ listener' = [listener EXCEPT ![Source(c)] = caller[c].job]
    /\ CallerTo(c, "arming", caller[c].job)
    /\ UNCHANGED <<jobs, armed_jobs, rules, stopped, lock, giving,
                   state, due, active, queue, wake, worker>>

Armed(c) ==
    /\ caller[c].place = "arming"
    /\ Manager!FinishStartEvents(c)
    /\ armed_jobs' = armed_jobs \cup {caller[c].job}
    /\ CallerTo(c, "arm", caller[c].job + 1)
    /\ UNCHANGED <<jobs, rules, stopped, lock, listener, giving,
                   state, due, active, queue, wake, worker>>

\* start_events fails inside the driver, or is refused (-EBUSY, -EALREADY)
ArmFails(c) ==
    /\ \/ caller[c].place = "arming" /\ Manager!FinishUnchanged(c)
       \/ /\ InArm(c) /\ HasEvents(Source(c)) /\ ~MayBorrow(Source(c), "start_events")
          /\ UNCHANGED manager
    /\ CallerTo(c, "disarm", 1)
    /\ UNCHANGED <<jobs, armed_jobs, rules, stopped, lock, listener, giving,
                   state, due, active, queue, wake, worker>>

\* The token is cleared after the drivers have been armed.
StartedTokenLost(c) ==
    /\ caller[c].place = "arm" /\ caller[c].job \notin DOMAIN jobs
    /\ state' = "RUNNING"
    /\ wake' = FALSE
    /\ lock' = Nobody
    /\ CallerTo(c, "idle", 1)
    /\ UNCHANGED <<manager, jobs, armed_jobs, rules, stopped, listener, giving,
                   due, active, queue, worker>>

Started(c) ==
    /\ caller[c].place = "arm" /\ caller[c].job \notin DOMAIN jobs
    /\ state' = "RUNNING"
    /\ wake' = TRUE
    /\ lock' = Nobody
    /\ CallerTo(c, "idle", 1)
    /\ UNCHANGED <<manager, jobs, armed_jobs, rules, stopped, listener, giving,
                   due, active, queue, worker>>

\* spaghetti_runtime_stop up to stop_armed_events_locked
BeginStop(c) ==
    /\ caller[c].place = "idle" /\ Unlocked
    /\ state = "RUNNING"
    /\ state' = "STOPPING"
    /\ lock' = c
    /\ caller' = [caller EXCEPT ![c] = [place |-> "disarm", job |-> 1, starting |-> FALSE]]
    /\ UNCHANGED <<manager, jobs, armed_jobs, rules, stopped, listener, giving,
                   due, active, queue, wake, worker>>

\* stop_armed_events_locked, for a stop and for a start that failed
InDisarm(c) == caller[c].place = "disarm" /\ caller[c].job \in DOMAIN jobs

SkipDisarm(c) ==
    /\ InDisarm(c)
    /\ caller[c].job \notin armed_jobs
    /\ CallerTo(c, "disarm", caller[c].job + 1)
    /\ UNCHANGED <<manager, jobs, armed_jobs, rules, stopped, lock, listener, giving,
                   state, due, active, queue, wake, worker>>

Disarm(c) ==
    /\ InDisarm(c)
    /\ caller[c].job \in armed_jobs
    /\ Manager!Borrow(c, Source(c), "stop_events")
    /\ CallerTo(c, "disarming", caller[c].job)
    /\ UNCHANGED <<jobs, armed_jobs, rules, stopped, lock, listener, giving,
                   state, due, active, queue, wake, worker>>

\* Whatever the Manager answers, also -EBUSY, the job counts as disarmed.
Disarmed(c) ==
    /\ \/ caller[c].place = "disarming" /\ (Manager!FinishStopEvents(c) \/ Manager!FinishUnchanged(c))
       \/ /\ InDisarm(c) /\ caller[c].job \in armed_jobs /\ ~MayBorrow(Source(c), "stop_events")
          /\ UNCHANGED manager
    /\ armed_jobs' = armed_jobs \ {caller[c].job}
    /\ CallerTo(c, "disarm", caller[c].job + 1)
    /\ UNCHANGED <<jobs, rules, stopped, lock, listener, giving,
                   state, due, active, queue, wake, worker>>

StartFailed(c) ==
    /\ caller[c].place = "disarm" /\ caller[c].job \notin DOMAIN jobs
    /\ caller[c].starting
    /\ lock' = Nobody
    /\ CallerTo(c, "idle", 1)
    /\ UNCHANGED <<manager, jobs, armed_jobs, rules, stopped, listener, giving,
                   state, due, active, queue, wake, worker>>

\* The rest of stop() under the lock; then the caller waits for the worker.
StopRequested(c) ==
    /\ caller[c].place = "disarm" /\ caller[c].job \notin DOMAIN jobs
    /\ ~caller[c].starting
    /\ queue' = <<>>
    /\ state' = IF active = 0 THEN "STOPPED" ELSE state
    /\ stopped' = (active = 0)
    /\ wake' = TRUE
    /\ lock' = Nobody
    /\ CallerTo(c, "await", 1)
    /\ UNCHANGED <<manager, jobs, armed_jobs, rules, listener, giving, due, active, worker>>

\* The wait ends with the token or with -ETIMEDOUT.
StopReturns(c) ==
    /\ caller[c].place = "await"
    /\ stopped' = FALSE
    /\ CallerTo(c, "idle", 1)
    /\ UNCHANGED <<manager, jobs, armed_jobs, rules, lock, listener, giving,
                   state, due, active, queue, wake, worker>>

CallerStep(c) ==
    \/ ArmPolled(c) \/ Arm(c) \/ Armed(c) \/ ArmFails(c) \/ Started(c)
    \/ SkipDisarm(c) \/ Disarm(c) \/ Disarmed(c) \/ StartFailed(c) \/ StopRequested(c)

-----------------------------------------------------------------------------
(* Drivers, hosts and time *)

\* runtime_event_emit reads the job it was armed with, without any lock.
EmitPut(s) ==
    /\ s \in armed \ giving
    /\ listener[s] \in DOMAIN jobs
    /\ Len(queue) < MaxQueue
    /\ queue' = Append(queue, [source |-> jobs[listener[s]].source, depth |-> 0])
    /\ giving' = giving \cup {s}
    /\ UNCHANGED <<manager, jobs, armed_jobs, rules, stopped, lock, listener, caller,
                   state, due, active, wake, worker>>

EmitGive(s) ==
    /\ s \in giving
    /\ wake' = TRUE
    /\ giving' = giving \ {s}
    /\ UNCHANGED <<manager, jobs, armed_jobs, rules, stopped, lock, listener, caller,
                   state, due, active, queue, worker>>

\* A host command on a Module: the Manager's busy mark is all Runtime sees of it.
HostBegins(h, s) ==
    /\ Manager!Borrow(h, s, "command")
    /\ UNCHANGED <<run, state, due, active, queue, wake, worker>>

HostEnds(h) ==
    /\ Manager!FinishUnchanged(h)
    /\ UNCHANGED <<run, state, due, active, queue, wake, worker>>

\* spaghetti_runtime_post_command_result
Post(s) ==
    /\ Unlocked
    /\ state = "RUNNING"
    /\ \E i \in DOMAIN jobs : jobs[i].source = s
    /\ Len(queue) < MaxQueue
    /\ queue' = Append(queue, [source |-> s, depth |-> 0])
    /\ wake' = TRUE
    /\ UNCHANGED <<manager, run, state, due, active, worker>>

\* A deadline passes.
Tick(i) ==
    /\ state = "RUNNING"
    /\ i \in DOMAIN jobs \ due
    /\ jobs[i].enabled
    /\ due' = due \cup {i}
    /\ UNCHANGED <<manager, run, state, active, queue, wake, worker>>

Next ==
    \/ WorkerStep
    \/ \E c \in Callers :
          \/ \E schedules \in Configurations : Configure(c, schedules)
          \/ BeginStart(c) \/ BeginStop(c) \/ CallerStep(c) \/ StopReturns(c)
    \/ \E s \in Slots : EmitPut(s) \/ EmitGive(s)
    \/ \E s \in Commandable : Post(s)
    \/ \E h \in Hosts : HostEnds(h) \/ \E s \in Commandable : HostBegins(h, s)
    \/ \E i \in 1 .. MaxJobs : Tick(i)

Spec == Init /\ [][Next]_vars

\* The worker and a thread inside an operation are scheduled; a driver call returns;
\* a rule does not command Modules for ever.
FairSpec ==
    /\ Spec
    /\ WF_vars(WorkerStep)
    /\ SF_vars(RulesDone)
    /\ \A c \in Callers : WF_vars(CallerStep(c))
    /\ \A h \in Hosts : WF_vars(HostEnds(h))

-----------------------------------------------------------------------------
(* Properties *)

\* start() is all or nothing: in a run every source that has events is armed and
\* remembered as armed.
RunningMeansArmed ==
    state = "RUNNING" =>
        \A i \in DOMAIN jobs :
            HasEvents(jobs[i].source) => i \in armed_jobs /\ jobs[i].source \in armed

\* A stop always comes to an end, however many reads, rules and commands are under
\* way when it begins, and whether or not its caller still waits.
StopCompletes == state = "STOPPING" ~> state = "STOPPED"

\* README.md of the subsystem: "Stop disarms events first".  A stop that has reached
\* STOPPED leaves no driver that may still emit.
StopDisarms ==
    \A c \in Callers : caller[c].place = "await" /\ state = "STOPPED" => armed = {}
=============================================================================
