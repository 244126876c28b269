-------------------------- MODULE ConfigTransaction --------------------------
(***************************************************************************)
(* subsys/config/config.c: spaghetti_config_apply, the transaction that     *)
(* replaces Modules, Runtime plan, MQTT settings, connectivity policy and   *)
(* the persistent record, or puts all of them back.  config_lock is held    *)
(* from the first check to the answer, but Runtime, its other callers and a *)
(* loss of power do not take it: every call the transaction makes is a step,*)
(* each may fail, and a reboot may come between any two of them.  Core      *)
(* applies the stored record at boot, as one more caller.                   *)
(***************************************************************************)
EXTENDS Integers, FiniteSets, FiniteSetsExt

CONSTANTS
    Configs,        \* valid snapshots: [modules, plan, mqtt, policy]
    Default,        \* the empty one of spaghetti_config_init(NULL)
    Keys,           \* module keys, 1 .. n in the order of a snapshot
    Users,          \* clients of APPLY_CONFIG
    Core,           \* the caller at boot
    MaxGeneration,  \* UINT32_MAX
    Absent,         \* no module under a key
    Faulty,         \* a module whose stop failed: SPAGHETTI_MODULE_ERROR
    NoPlan,         \* no schedules and no rules
    None

Sources(config) == config.plan \ {NoPlan}

\* spaghetti_config_validate ends every call before config_lock is taken for a
\* transaction: what is left is that a schedule reads a module of the same snapshot.
Valid(config) ==
    /\ config.plan = {NoPlan} \/ config.plan \subseteq Keys
    /\ \A k \in Sources(config) : config.modules[k] # Absent

\* The empty configuration has neither modules nor a plan.
ASSUME ConfigAssumption ==
    /\ Cardinality(Keys) \in Nat /\ Keys = 1 .. Cardinality(Keys)
    /\ Default \in Configs
    /\ Default.modules = [k \in Keys |-> Absent] /\ Default.plan = {NoPlan}
    /\ MaxGeneration \in Nat \ {0}
    /\ Core \notin Users
    /\ None \notin Configs
    /\ \A config \in Configs :
         Valid(config) /\ config.modules = [k \in Keys |-> config.modules[k]]

VARIABLES
    current,     \* current_config
    generation,  \* current_revision.generation
    modules,     \* the Module Manager's live module of each key
    runtime,     \* [state, plan]: Runtime and Processing
    mqtt,        \* the MQTT settings loaded
    policy,      \* the connectivity policy in force
    flash,       \* the persistent record, or None
    tx,          \* the transaction under config_lock
    snapshot,    \* what each caller read: [config, generation], or None
    stored,      \* what Core read from Storage and has not applied yet, or None
    booted,      \* Core has taken its snapshot
    written,     \* history: Storage was written since boot
    broken       \* history: a rollback failed since boot, answered with -EIO

live == <<modules, runtime, mqtt, policy>>
revision == <<current, generation>>
callers == <<snapshot, stored, booted>>
history == <<written, broken>>
vars == <<revision, live, flash, tx, callers, history>>

Callers == Users \cup {Core}
Variants == {Faulty, Absent} \cup (UNION {{config.modules[k] : k \in Keys} : config \in Configs})

Phases == {"free", "remove", "add", "load", "mqtt", "connectivity", "persist", "start", "commit",
           "rb_remove", "rb_restore", "rb_runtime", "rb_mqtt", "rb_policy", "rb_store", "rb_end"}

Free == [at |-> "free", by |-> None, candidate |-> None, removed |-> {}, added |-> {},
         mqtt_reconfigured |-> FALSE, connectivity_reconfigured |-> FALSE,
         candidate_persisted |-> FALSE, err |-> FALSE]

TypeOK ==
    /\ current \in Configs /\ generation \in 1 .. MaxGeneration
    /\ modules \in [Keys -> Variants]
    /\ runtime.state \in {"STOPPED", "RUNNING", "STOPPING"}
    /\ runtime.plan \in {config.plan : config \in Configs} \cup {{NoPlan}}
    /\ mqtt \in {config.mqtt : config \in Configs}
    /\ policy \in {config.policy : config \in Configs}
    /\ flash \in Configs \cup {None}
    /\ tx \in [at : Phases, by : Callers \cup {None}, candidate : Configs \cup {None},
               removed : SUBSET Keys, added : SUBSET Keys, mqtt_reconfigured : BOOLEAN,
               connectivity_reconfigured : BOOLEAN, candidate_persisted : BOOLEAN, err : BOOLEAN]
    /\ \A c \in Callers : snapshot[c] = None
          \/ snapshot[c] \in [config : Configs, generation : 1 .. MaxGeneration]
    /\ stored \in Configs \cup {None}
    /\ booted \in BOOLEAN /\ written \in BOOLEAN /\ broken \in BOOLEAN

\* A boot starts from the empty state; MQTT is initialized disabled and
\* Connectivity starts with the policy of the stored record.
StartupPolicy == IF flash = None THEN Default.policy ELSE flash.policy

Init ==
    /\ current = Default /\ generation = 1
    /\ modules = [k \in Keys |-> Absent]
    /\ runtime = [state |-> "STOPPED", plan |-> {NoPlan}]
    /\ mqtt = Default.mqtt
    /\ flash \in Configs \cup {None}
    /\ policy = StartupPolicy
    /\ tx = Free
    /\ snapshot = [c \in Callers |-> None]
    /\ stored = None /\ booted = FALSE
    /\ written = FALSE /\ broken = FALSE

-----------------------------------------------------------------------------
(* Callers *)

\* spaghetti_config_get_snapshot
GetSnapshot(c) ==
    /\ tx.at = "free"
    /\ c = Core => ~booted
    /\ snapshot' = [snapshot EXCEPT ![c] = [config |-> current, generation |-> generation]]
    /\ booted' = (booted \/ c = Core)
    /\ UNCHANGED <<revision, live, flash, tx, stored, history>>

\* Core reads the record; Storage has a lock of its own, so this may fall into the
\* middle of a client's transaction.
ReadStored ==
    /\ booted /\ snapshot[Core] # None /\ stored = None /\ flash # None
    /\ stored' = flash
    /\ UNCHANGED <<revision, live, flash, tx, snapshot, booted, history>>

Candidates(c) == IF c = Core THEN {stored} \ {None} ELSE Configs

\* The caller gets its answer: a client reads the configuration again before its next
\* attempt, Core is through.
Answered(c) ==
    /\ snapshot' = [snapshot EXCEPT ![c] = None]
    /\ stored' = IF c = Core THEN None ELSE stored
    /\ UNCHANGED booted

\* Any generation will do
AnyGeneration(c) == TRUE
Fresh(c) == snapshot[c].generation = generation

\* Checks that end the call: a stale generation, the same hash, the last
\* generation, or a write too soon after the last commit.
Refuse(c, candidate) ==
    /\ tx.at = "free" /\ snapshot[c] # None
    /\ \/ ~Fresh(c)
       \/ candidate = current
       \/ generation = MaxGeneration
       \/ generation > 1
    /\ Answered(c)
    /\ UNCHANGED <<revision, live, flash, tx, history>>

NeedsRuntime(config) == config.plan # {NoPlan}

\* spaghetti_runtime_stop: 0 and -EALREADY go on, -ETIMEDOUT and -EBUSY return.
MayProceed(answer) == answer \in {"done", "already"}

StopAnswers == CASE runtime.state = "RUNNING"  -> {"done", "timeout"}
                 [] runtime.state = "STOPPED"  -> {"already"}
                 [] runtime.state = "STOPPING" -> {"busy"}

StateAfterStop(answer) == IF answer = "timeout" THEN "STOPPING"
                          ELSE IF answer = "done" THEN "STOPPED" ELSE runtime.state

Started(c, candidate) == [Free EXCEPT !.at = "remove", !.by = c, !.candidate = candidate]

Accepted(c, candidate) ==
    /\ tx.at = "free" /\ snapshot[c] # None
    /\ Fresh(c)
    /\ candidate # current
    /\ generation < MaxGeneration

\* The lock is taken and Runtime stopped, when there is anything to stop.
Begin(c, candidate) ==
    /\ Accepted(c, candidate)
    /\ \E answer \in IF NeedsRuntime(current) THEN StopAnswers ELSE {"already"} :
         /\ MayProceed(answer)
         /\ runtime' = [runtime EXCEPT !.state =
                          IF NeedsRuntime(current) THEN StateAfterStop(answer) ELSE @]
    /\ tx' = IF \E k \in Keys : current.modules[k] # Absent /\ modules[k] = Absent
             THEN [Started(c, candidate) EXCEPT !.at = "rb_remove"]   \* snapshot_modules
             ELSE Started(c, candidate)
    /\ UNCHANGED <<revision, modules, mqtt, policy, flash, callers, history>>

\* Runtime did not stop in time: the call returns, and nothing is put back.
StopTimesOut(c, candidate) ==
    /\ Accepted(c, candidate)
    /\ NeedsRuntime(current)
    /\ \E answer \in StopAnswers :
         /\ ~MayProceed(answer)
         /\ runtime' = [runtime EXCEPT !.state = StateAfterStop(answer)]
    /\ Answered(c)
    /\ UNCHANGED <<revision, modules, mqtt, policy, flash, tx, history>>

-----------------------------------------------------------------------------
(* The transaction *)

Goto(phase) == tx' = [tx EXCEPT !.at = phase]
Fail == Goto("rb_remove")

Changed(k) == current.modules[k] # tx.candidate.modules[k]
ToRemove == {k \in Keys : Changed(k) /\ current.modules[k] # Absent} \ tx.removed
ToAdd == {k \in Keys : Changed(k) /\ tx.candidate.modules[k] # Absent} \ tx.added

\* A removal fails and leaves the module, in ERROR when it was its event source
\* that did not stop; an error after which it is gone counts as a removal.
RemoveModule ==
    /\ tx.at = "remove"
    /\ IF ToRemove = {}
       THEN Goto("add") /\ UNCHANGED modules
       ELSE LET k == Min(ToRemove) IN
            \/ /\ modules' = [modules EXCEPT ![k] = Absent]
               /\ tx' = [tx EXCEPT !.removed = @ \cup {k}]
            \/ /\ modules' = IF k \in Sources(current) THEN [modules EXCEPT ![k] = Faulty] ELSE modules
               /\ Fail
            \/ UNCHANGED modules /\ Fail
    /\ UNCHANGED <<revision, runtime, mqtt, policy, flash, callers, history>>

AddModule ==
    /\ tx.at = "add"
    /\ IF ToAdd = {}
       THEN Goto("load") /\ UNCHANGED modules
       ELSE LET k == Min(ToAdd) IN
            \/ /\ modules[k] = Absent
               /\ modules' = [modules EXCEPT ![k] = tx.candidate.modules[k]]
               /\ tx' = [tx EXCEPT !.added = @ \cup {k}]
            \/ UNCHANGED modules /\ Fail
    /\ UNCHANGED <<revision, runtime, mqtt, policy, flash, callers, history>>

\* load_runtime: a failure of Processing leaves Runtime without a plan.
LoadRuntime ==
    /\ tx.at = "load"
    /\ \/ /\ runtime.state = "STOPPED"
          /\ runtime' = [runtime EXCEPT !.plan = tx.candidate.plan]
          /\ Goto("mqtt")
       \/ /\ runtime' \in {runtime, [runtime EXCEPT !.plan = {NoPlan}]}
          /\ Fail
    /\ UNCHANGED <<revision, modules, mqtt, policy, flash, callers, history>>

\* configure_mqtt may fail before or after the new settings are in place, and so may
\* apply_connectivity_policy.
ConfigureMqtt ==
    /\ tx.at = "mqtt"
    /\ IF current.mqtt = tx.candidate.mqtt
       THEN Goto("connectivity") /\ UNCHANGED mqtt
       ELSE \/ /\ mqtt' = tx.candidate.mqtt
               /\ tx' = [tx EXCEPT !.at = "connectivity", !.mqtt_reconfigured = TRUE]
            \/ /\ mqtt' \in {mqtt, tx.candidate.mqtt}
               /\ tx' = [tx EXCEPT !.at = "rb_remove", !.mqtt_reconfigured = TRUE]
    /\ UNCHANGED <<revision, modules, runtime, policy, flash, callers, history>>

ApplyPolicy ==
    /\ tx.at = "connectivity"
    /\ IF current.policy = tx.candidate.policy
       THEN Goto("persist") /\ UNCHANGED policy
       ELSE \/ /\ policy' = tx.candidate.policy
               /\ tx' = [tx EXCEPT !.at = "persist", !.connectivity_reconfigured = TRUE]
            \/ /\ policy' \in {policy, tx.candidate.policy}
               /\ tx' = [tx EXCEPT !.at = "rb_remove", !.connectivity_reconfigured = TRUE]
    /\ UNCHANGED <<revision, modules, runtime, mqtt, flash, callers, history>>

\* spaghetti_storage_write_config
Persist ==
    /\ tx.at = "persist"
    /\ \/ /\ flash' = tx.candidate
          /\ written' = TRUE
          /\ tx' = [tx EXCEPT !.at = "start", !.candidate_persisted = TRUE]
       \/ Fail /\ UNCHANGED <<flash, written>>
    /\ UNCHANGED <<revision, live, callers, broken>>

Ready(k) == modules[k] \notin {Absent, Faulty}

\* spaghetti_runtime_start: every source must be READY and let its events start.
StartRuntime ==
    /\ tx.at = "start"
    /\ \/ /\ ~NeedsRuntime(tx.candidate)
          /\ Goto("commit") /\ UNCHANGED runtime
       \/ /\ NeedsRuntime(tx.candidate)
          /\ runtime.state = "STOPPED" /\ \A k \in Sources(tx.candidate) : Ready(k)
          /\ runtime' = [runtime EXCEPT !.state = "RUNNING"]
          /\ Goto("commit")
       \/ /\ NeedsRuntime(tx.candidate)
          /\ Fail /\ UNCHANGED runtime
    /\ UNCHANGED <<revision, modules, mqtt, policy, flash, callers, history>>

Commit ==
    /\ tx.at = "commit"
    /\ current' = tx.candidate
    /\ generation' = generation + 1
    /\ tx' = Free
    /\ Answered(tx.by)
    /\ UNCHANGED <<live, flash, history>>

-----------------------------------------------------------------------------
(* The rollback *)

\* Every phase records the first error and goes on.
Note(failed) == [tx EXCEPT !.err = @ \/ failed]

RollBackAdded ==
    /\ tx.at = "rb_remove"
    /\ IF tx.added = {}
       THEN Goto("rb_restore") /\ UNCHANGED modules
       ELSE LET k == Max(tx.added) IN
            \/ /\ modules' = [modules EXCEPT ![k] = Absent]
               /\ tx' = [tx EXCEPT !.added = @ \ {k}]
            \/ /\ tx' = [Note(TRUE) EXCEPT !.added = @ \ {k}]
               /\ UNCHANGED modules
    /\ UNCHANGED <<revision, runtime, mqtt, policy, flash, callers, history>>

RestoreRemoved ==
    /\ tx.at = "rb_restore"
    /\ IF tx.removed = {}
       THEN Goto("rb_runtime") /\ UNCHANGED modules
       ELSE LET k == Min(tx.removed) IN
            \/ /\ modules[k] = Absent
               /\ modules' = [modules EXCEPT ![k] = current.modules[k]]
               /\ tx' = [tx EXCEPT !.removed = @ \ {k}]
            \/ /\ tx' = [Note(TRUE) EXCEPT !.removed = @ \ {k}]
               /\ UNCHANGED modules
    /\ UNCHANGED <<revision, runtime, mqtt, policy, flash, callers, history>>

\* restore_runtime, when the modules are back: it stops, loads and starts.
RestoreRuntime ==
    /\ tx.at = "rb_runtime"
    /\ IF tx.err
       THEN Goto("rb_mqtt") /\ UNCHANGED runtime
       ELSE \/ /\ runtime.state = "STOPPED"
               /\ NeedsRuntime(current) => \A k \in Sources(current) : Ready(k)
               /\ runtime' = [state |-> IF NeedsRuntime(current) THEN "RUNNING" ELSE "STOPPED",
                              plan |-> current.plan]
               /\ Goto("rb_mqtt")
            \/ /\ runtime' \in {runtime, [runtime EXCEPT !.plan = {NoPlan}],
                                [runtime EXCEPT !.plan = current.plan]}
               /\ tx' = [Note(TRUE) EXCEPT !.at = "rb_mqtt"]
    /\ UNCHANGED <<revision, modules, mqtt, policy, flash, callers, history>>

RestoreMqtt ==
    /\ tx.at = "rb_mqtt"
    /\ IF ~tx.mqtt_reconfigured
       THEN Goto("rb_policy") /\ UNCHANGED mqtt
       ELSE \/ /\ mqtt' = current.mqtt
               /\ Goto("rb_policy")
            \/ /\ mqtt' \in {mqtt, current.mqtt}
               /\ tx' = [Note(TRUE) EXCEPT !.at = "rb_policy"]
    /\ UNCHANGED <<revision, modules, runtime, policy, flash, callers, history>>

RestorePolicy ==
    /\ tx.at = "rb_policy"
    /\ IF ~tx.connectivity_reconfigured
       THEN Goto("rb_store") /\ UNCHANGED policy
       ELSE \/ /\ policy' = current.policy
               /\ Goto("rb_store")
            \/ /\ policy' \in {policy, current.policy}
               /\ tx' = [Note(TRUE) EXCEPT !.at = "rb_store"]
    /\ UNCHANGED <<revision, modules, runtime, mqtt, flash, callers, history>>

\* A rollback that leaves the record
LeaveStored ==
    /\ tx.at = "rb_store"
    /\ Goto("rb_end")
    /\ UNCHANGED <<revision, live, flash, callers, history>>

RestoreStored ==
    /\ tx.at = "rb_store"
    /\ IF ~tx.candidate_persisted
       THEN Goto("rb_end") /\ UNCHANGED flash
       ELSE \/ flash' = current /\ Goto("rb_end")
            \/ tx' = [Note(TRUE) EXCEPT !.at = "rb_end"] /\ UNCHANGED flash
    /\ UNCHANGED <<revision, live, callers, history>>

\* The error of a rollback is kept only for the last phase
EndOfRollbackSilent ==
    /\ tx.at = "rb_end"
    /\ UNCHANGED broken
    /\ tx' = Free
    /\ Answered(tx.by)
    /\ UNCHANGED <<revision, live, flash, written>>

\* The answer: the error of the phase, or -EIO when something was not restored.
EndOfRollback ==
    /\ tx.at = "rb_end"
    /\ broken' = (broken \/ tx.err)
    /\ tx' = Free
    /\ Answered(tx.by)
    /\ UNCHANGED <<revision, live, flash, written>>

-----------------------------------------------------------------------------
(* What does not take the lock *)

\* ota_ble.c and factory_reset.c stop Runtime too.
Quiesce ==
    /\ runtime.state = "RUNNING"
    /\ runtime' \in {[runtime EXCEPT !.state = s] : s \in {"STOPPED", "STOPPING"}}
    /\ UNCHANGED <<revision, modules, mqtt, policy, flash, tx, callers, history>>

\* The worker finishes the call that held the stop up.
Drained ==
    /\ runtime.state = "STOPPING"
    /\ runtime' = [runtime EXCEPT !.state = "STOPPED"]
    /\ UNCHANGED <<revision, modules, mqtt, policy, flash, tx, callers, history>>

\* Power fails, or an operator reboots: only the record survives.
Reboot ==
    /\ current' = Default /\ generation' = 1
    /\ modules' = [k \in Keys |-> Absent]
    /\ runtime' = [state |-> "STOPPED", plan |-> {NoPlan}]
    /\ mqtt' = Default.mqtt /\ policy' = StartupPolicy
    /\ tx' = Free
    /\ snapshot' = [c \in Callers |-> None]
    /\ stored' = None /\ booted' = FALSE
    /\ written' = FALSE /\ broken' = FALSE
    /\ UNCHANGED flash

Apply(c) ==
    \E candidate \in Candidates(c) :
        Refuse(c, candidate) \/ Begin(c, candidate) \/ StopTimesOut(c, candidate)

Step ==
    \/ RemoveModule \/ AddModule \/ LoadRuntime \/ ConfigureMqtt \/ ApplyPolicy
    \/ Persist \/ StartRuntime \/ Commit
    \/ RollBackAdded \/ RestoreRemoved \/ RestoreRuntime \/ RestoreMqtt
    \/ RestorePolicy \/ RestoreStored \/ EndOfRollback

Next ==
    \/ \E c \in Callers : GetSnapshot(c) \/ Apply(c)
    \/ ReadStored \/ Step \/ Quiesce \/ Drained \/ Reboot

Spec == Init /\ [][Next]_vars

-----------------------------------------------------------------------------
(* Properties *)

\* Whatever failed at whatever step: once the call has answered, unless it answered
\* -EIO, the live modules, the loaded plan and the MQTT settings are those of the
\* configuration that get_snapshot reports.
RestoredOrBroken ==
    (tx.at = "free" /\ ~broken) =>
        /\ modules = current.modules
        /\ runtime.plan = current.plan
        /\ mqtt = current.mqtt

\* Once written, the record is the reported configuration, or the candidate of
\* the transaction in progress: a loss of power at any step boots into one of the
\* two, never into one that was given up.
FlashIsWhole ==
    (written /\ ~broken) => \/ flash = current
                            \/ tx.at # "free" /\ flash = tx.candidate

\* config/README.md: the expected generation prevents lost updates.  Who commits
\* had read the configuration that the commit replaces.
NoLostUpdate ==
    [][tx.at = "commit" /\ generation' = generation + 1
         => snapshot[tx.by].config = current]_vars

\* Modules are replaced only while Runtime is at rest: no dispatch and no event
\* source meets a module that goes away.
ModulesChangeAtRest ==
    [][modules' # modules => runtime.state = "STOPPED" \/ Reboot]_vars

\* core.c: "A missing module or rejected profile is not consent to erase the saved
\* project. Keep its record for diagnosis/retry."
BootKeepsProject ==
    [][tx.by = Core /\ flash = tx.candidate => flash' = tx.candidate]_vars
=============================================================================
