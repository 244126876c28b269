---------------------------- MODULE RuntimeState ----------------------------
(***************************************************************************)
(* What the threads of subsys/runtime/runtime.c share, with the place of    *)
(* each, and what Runtime promises of it.  Its steps are in Runtime.        *)
(***************************************************************************)
EXTENDS Sequences

VARIABLES
    state,         \* runtime_state
    jobs,          \* jobs[0 .. job_count - 1], as a sequence of sources
    armed_jobs,    \* the jobs with events_armed
    due,           \* the jobs whose deadline has passed
    rules,         \* the generation of rule contexts that is alive
    active,        \* active_operations
    queue,         \* runtime_event_queue
    wake,          \* runtime_wake_sem
    stopped,       \* runtime_stopped_sem
    lock,          \* the caller that holds runtime_lock, or Nobody
    listener,      \* external: the job each armed driver got as user_data
    giving,        \* drivers between k_msgq_put and k_sem_give
    worker,        \* where the worker is
    caller         \* where each caller is

\* The operations the worker is in the middle of: a record it reads or publishes,
\* and inside it the rules that record is given to.
OpenOperations ==
    CASE worker.place \in {"read", "reading", "advance", "publish", "dispatch", "complete"} -> 1
      [] worker.place \in {"rules", "command"} -> 2
      [] OTHER -> 0

\* active_operations counts exactly what the worker has open, so that a stop is
\* neither early nor waits for an operation nobody will complete.
ActiveCountsWork == active = OpenOperations

\* When the state says STOPPED, and Config is free to remove Modules, the worker is
\* in no driver, no rule and no publication.
StoppedIsQuiet == state = "STOPPED" => OpenOperations = 0

\* The worker only calls rules whose contexts are alive: configure() never
\* deinitialises the contexts of a dispatch that is under way.
RulesOutliveDispatch == worker.place \in {"rules", "command"} => worker.rules = rules

\* The worker never sleeps through work: a start, or an event in the queue, always
\* has a token, or a driver about to give it, behind it.
NoLostWakeup ==
    state = "RUNNING" =>
        /\ worker.place = "parked" => wake
        /\ worker.place = "sleep" /\ queue # <<>> => wake \/ giving # {}

=============================================================================
