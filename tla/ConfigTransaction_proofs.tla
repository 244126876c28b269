---------------------- MODULE ConfigTransaction_proofs ----------------------
(***************************************************************************)
(* Safety of ConfigTransaction for every set of configurations and callers,  *)
(* every number of modules, and any loss of power.                          *)
(*                                                                          *)
(* None of the properties is inductive.  GenerationInv keeps what the       *)
(* callers have read behind the generation in force, FlashInv tells by      *)
(* candidate_persisted what the record holds, and ForwardInv and BackInv    *)
(* tell by the sets of the keys removed and added what is live.             *)
(***************************************************************************)
EXTENDS ConfigTransaction, TLAPS, WellFoundedInduction

-----------------------------------------------------------------------------
(* Min and Max of sets of keys                                              *)

NatLess == {pair \in Nat \X Nat : pair[1] < pair[2]}

LEMMA NatLessWellFounded == IsWellFoundedOn(NatLess, Nat)
  BY NatLessThanWellFounded DEF OpToRel, NatLess

LEMMA NotLess ==
  ASSUME NEW x \in Nat, NEW y \in Nat, <<y, x>> \notin NatLess
  PROVE  x =< y
<1>1. SUFFICES ASSUME y < x PROVE FALSE
  OBVIOUS
<1>2. <<y, x>> \in Nat \X Nat
  OBVIOUS
<1>3. <<y, x>>[1] < <<y, x>>[2]
  BY <1>1
<1> QED
  BY <1>2, <1>3 DEF NatLess

LEMMA MinOfKeys ==
  ASSUME NEW S \in SUBSET Keys, S # {}
  PROVE  Min(S) \in S
<1>1. S \subseteq Nat
  BY ConfigAssumption
<1>2. PICK x \in S : \A y \in S : ~ (<<y, x>> \in NatLess)
  BY <1>1, WFMin, NatLessWellFounded
<1>3. \A y \in S : x =< y
  BY <1>1, <1>2, NotLess
<1> QED
  BY <1>3 DEF Min

LEMMA MaxOfKeys ==
  ASSUME NEW S \in SUBSET Keys, S # {}
  PROVE  Max(S) \in S
<1>1. PICK n \in Nat : Keys = 1 .. n
  BY ConfigAssumption
<1> DEFINE T == {n - k : k \in S}
<1>2. T \subseteq Nat /\ T # {}
  <2>1. \A k \in S : k \in 1 .. n
    BY <1>1
  <2>2. \A k \in S : n - k \in Nat
    BY <2>1
  <2> QED
    BY <2>2
<1>3. PICK t \in T : \A y \in T : ~ (<<y, t>> \in NatLess)
  BY <1>2, WFMin, NatLessWellFounded
<1>4. \A y \in T : t =< y
  BY <1>2, <1>3, NotLess
<1>5. PICK x \in S : t = n - x
  BY DEF T
<1>6. \A y \in S : x >= y
  <2> TAKE y \in S
  <2>1. n - y \in T
    BY DEF T
  <2>2. t =< n - y
    BY <2>1, <1>4
  <2>3. x \in Int /\ y \in Int /\ n \in Int
    BY <1>1
  <2> QED
    BY <2>2, <2>3, <1>5
<1> QED
  BY <1>6 DEF Max
-----------------------------------------------------------------------------
(* The invariant                                                            *)

Forward == {"remove", "add", "load", "mqtt", "connectivity", "persist", "start", "commit"}
Rollback == {"rb_remove", "rb_restore", "rb_runtime", "rb_mqtt", "rb_policy", "rb_store", "rb_end"}

\* The caller under the lock has read the generation in force; what the others
\* have read is older or the same.
GenerationInv ==
    /\ tx.at # "free" =>
         /\ tx.by \in Callers /\ tx.candidate \in Configs
         /\ snapshot[tx.by] # None /\ snapshot[tx.by].generation = generation
         /\ generation < MaxGeneration
    /\ \A c \in Callers : snapshot[c] # None =>
         /\ snapshot[c].generation <= generation
         /\ snapshot[c].generation = generation => snapshot[c].config = current

\* The record is the candidate exactly between the write and its undoing.
FlashInv ==
    /\ tx.at \in {"start", "commit"} => tx.candidate_persisted
    /\ (written /\ ~broken) =>
         /\ tx.at = "free" => flash = current
         /\ (tx.at # "free" /\ ~tx.candidate_persisted) => flash = current
         /\ (tx.at # "free" /\ tx.candidate_persisted) =>
                flash = tx.candidate \/ (tx.at = "rb_end" /\ flash = current)
         /\ (tx.at = "rb_end" /\ ~tx.err) => flash = current

Kept(k) == modules[k] = current.modules[k]

RestInv ==
    tx.at = "free" =>
        modules = current.modules /\ runtime.plan = current.plan /\ mqtt = current.mqtt

\* The keys done, and what is live under each key
ForwardInv ==
    tx.at \in Forward =>
        /\ \A k \in tx.added : Changed(k) /\ modules[k] = tx.candidate.modules[k]
                               /\ (k \in tx.removed \/ current.modules[k] = Absent)
        /\ \A k \in tx.removed \ tx.added : Changed(k) /\ modules[k] = Absent
        /\ \A k \in Keys \ (tx.removed \cup tx.added) : Kept(k)
        /\ tx.at = "remove" => tx.added = {}
        /\ tx.at \in {"remove", "add", "load", "mqtt"} => ~tx.mqtt_reconfigured
        /\ tx.at # "remove" =>
             \A k \in Keys : Changed(k) /\ current.modules[k] # Absent => k \in tx.removed
        /\ tx.at \notin {"remove", "add"} =>
             \A k \in Keys : Changed(k) /\ tx.candidate.modules[k] # Absent => k \in tx.added
        /\ tx.at \notin {"remove", "add", "load"} => runtime.plan = tx.candidate.plan
        /\ tx.at \notin {"remove", "add", "load", "mqtt"} => mqtt = tx.candidate.mqtt

\* The keys still to be put back; a module left in ERROR is a source of Runtime
\* and keeps Runtime from starting.
BackInv ==
    (tx.at \in Rollback /\ ~tx.err) =>
        /\ \A k \in tx.added \ tx.removed : current.modules[k] = Absent
        /\ \A k \in tx.removed \ tx.added : modules[k] = Absent
        /\ \A k \in Keys \ (tx.removed \cup tx.added) :
              \/ Kept(k)
              \/ /\ modules[k] = Faulty /\ k \in Sources(current)
                 /\ tx.at \in {"rb_remove", "rb_restore", "rb_runtime"}
        /\ tx.at # "rb_remove" => tx.added = {}
        /\ tx.at \notin {"rb_remove", "rb_restore"} => tx.removed = {}
        /\ tx.at \notin {"rb_remove", "rb_restore", "rb_runtime"} => runtime.plan = current.plan
        /\ tx.at \in {"rb_policy", "rb_store", "rb_end"} => mqtt = current.mqtt

MqttInv ==
    (tx.at # "free" /\ ~tx.mqtt_reconfigured) =>
        mqtt = current.mqtt

LiveInv == ~broken => RestInv /\ ForwardInv /\ BackInv /\ MqttInv

-----------------------------------------------------------------------------
(* Types                                                                    *)

Plans == {config.plan : config \in Configs} \cup {{NoPlan}}
Mqtts == {config.mqtt : config \in Configs}
Policies == {config.policy : config \in Configs}
Snapshots == [config : Configs, generation : 1 .. MaxGeneration]
Transactions ==
    [at : Phases, by : Callers \cup {None}, candidate : Configs \cup {None},
     removed : SUBSET Keys, added : SUBSET Keys, mqtt_reconfigured : BOOLEAN,
     connectivity_reconfigured : BOOLEAN, candidate_persisted : BOOLEAN, err : BOOLEAN]

LiveOK ==
    /\ modules \in [Keys -> Variants]
    /\ runtime.state \in {"STOPPED", "RUNNING", "STOPPING"} /\ runtime.plan \in Plans
    /\ mqtt \in Mqtts /\ policy \in Policies
CallersOK ==
    /\ snapshot \in [Callers -> Snapshots \cup {None}]
    /\ stored \in Configs \cup {None}
    /\ booted \in BOOLEAN
RevisionOK == current \in Configs /\ generation \in 1 .. MaxGeneration
FlashOK == flash \in Configs \cup {None} /\ written \in BOOLEAN /\ broken \in BOOLEAN
Shape ==
    /\ runtime = [state |-> runtime.state, plan |-> runtime.plan]
    /\ RevisionOK /\ LiveOK /\ FlashOK /\ tx \in Transactions /\ CallersOK

LEMMA ShapeTypes == Shape => TypeOK
  BY DEF Shape, RevisionOK, LiveOK, FlashOK, CallersOK, TypeOK, Transactions, Snapshots, Plans,
         Mqtts, Policies

LEMMA ConfigTypes ==
  /\ \A config \in Configs :
       /\ config.modules \in [Keys -> Variants]
       /\ config.plan \in Plans /\ config.mqtt \in Mqtts /\ config.policy \in Policies
  /\ Absent \in Variants /\ Faulty \in Variants
  /\ {NoPlan} \in Plans
<1>1. \A config \in Configs, k \in Keys : config.modules[k] \in Variants
  <2> TAKE config \in Configs, k \in Keys
  <2> DEFINE Row(c) == {c.modules[j] : j \in Keys}
  <2>1. config.modules[k] \in Row(config)
    OBVIOUS
  <2>2. Row(config) \in {Row(c) : c \in Configs}
    OBVIOUS
  <2>3. Variants = {Faulty, Absent} \cup (UNION {Row(c) : c \in Configs})
    BY DEF Variants
  <2> HIDE DEF Row
  <2> QED
    BY <2>1, <2>2, <2>3
<1>2. \A config \in Configs : config.modules = [k \in Keys |-> config.modules[k]]
  BY ConfigAssumption
<1>3. \A config \in Configs : config.modules \in [Keys -> Variants]
  <2> TAKE config \in Configs
  <2>1. [k \in Keys |-> config.modules[k]] \in [Keys -> Variants]
    BY <1>1
  <2> QED
    BY <2>1, <1>2
<1>4. \A config \in Configs :
         config.plan \in Plans /\ config.mqtt \in Mqtts /\ config.policy \in Policies
  BY DEF Plans, Mqtts, Policies
<1>5. Absent \in Variants /\ Faulty \in Variants
  BY DEF Variants
<1>6. {NoPlan} \in Plans
  BY DEF Plans
<1> QED
  BY <1>3, <1>4, <1>5, <1>6

LEMMA FreeTypes == Free \in Transactions
  BY DEF Free, Transactions, Phases

LEMMA StartupTypes ==
  ASSUME Shape
  PROVE  StartupPolicy \in Policies
<1>1. CASE flash = None
  BY <1>1, ConfigTypes, ConfigAssumption DEF StartupPolicy
<1>2. CASE flash \in Configs
  BY <1>2, ConfigTypes, ConfigAssumption DEF StartupPolicy
<1> QED
  BY <1>1, <1>2 DEF Shape, FlashOK

LEMMA TypeInit == Init => Shape
<1> SUFFICES ASSUME Init PROVE Shape
  OBVIOUS
<1>1. RevisionOK
  BY ConfigAssumption DEF Init, RevisionOK
<1>2. LiveOK
  BY ConfigTypes, ConfigAssumption DEF Init, LiveOK, StartupPolicy
<1>3. FlashOK /\ tx \in Transactions
  BY FreeTypes DEF Init, FlashOK
<1>4. CallersOK
  BY DEF Init, CallersOK
<1> QED
  BY <1>1, <1>2, <1>3, <1>4 DEF Shape, Init

LEMMA GotoTypes ==
  ASSUME Shape, NEW phase \in Phases, Goto(phase)
  PROVE  tx' \in Transactions
  BY DEF Shape, Goto, Transactions

LEMMA ReconfiguredTypes ==
  ASSUME Shape, NEW phase \in Phases
  PROVE  /\ [tx EXCEPT !.at = phase, !.mqtt_reconfigured = TRUE] \in Transactions
         /\ [tx EXCEPT !.at = phase, !.connectivity_reconfigured = TRUE] \in Transactions
  BY DEF Shape, Transactions

LEMMA FailTypes ==
  ASSUME Shape, Fail
  PROVE  tx' \in Transactions
  BY GotoTypes DEF Fail, Phases

LEMMA NoteTypes ==
  ASSUME Shape, NEW phase \in Phases
  PROVE  [Note(TRUE) EXCEPT !.at = phase] \in Transactions
  BY DEF Shape, Note, Transactions

LEMMA UndoneTypes ==
  ASSUME Shape, NEW k
  PROVE  /\ [tx EXCEPT !.removed = @ \ {k}] \in Transactions
         /\ [Note(TRUE) EXCEPT !.removed = @ \ {k}] \in Transactions
         /\ [tx EXCEPT !.added = @ \ {k}] \in Transactions
         /\ [Note(TRUE) EXCEPT !.added = @ \ {k}] \in Transactions
<1>1. tx \in Transactions
  BY DEF Shape
<1>2. Note(TRUE) \in Transactions
  BY <1>1 DEF Note, Transactions
<1>3. \A x \in Transactions : [x EXCEPT !.removed = @ \ {k}] \in Transactions
  BY DEF Transactions
<1>4. \A x \in Transactions : [x EXCEPT !.added = @ \ {k}] \in Transactions
  BY DEF Transactions
<1> QED
  BY <1>1, <1>2, <1>3, <1>4

LEMMA AnsweredTypes ==
  ASSUME Shape, NEW c \in Callers, Answered(c)
  PROVE  CallersOK'
  BY DEF Shape, CallersOK, Answered

LEMMA CallerTypes ==
  ASSUME Shape, GenerationInv, NEW c \in Callers, GetSnapshot(c) \/ Apply(c)
  PROVE  Shape'
<1>1. CASE GetSnapshot(c)
  <2>1. [config |-> current, generation |-> generation] \in Snapshots
    BY DEF Shape, RevisionOK, Snapshots
  <2>2. CallersOK'
    BY <1>1, <2>1 DEF GetSnapshot, Shape, CallersOK
  <2> QED
    BY <1>1, <2>2 DEF GetSnapshot, Shape, RevisionOK, LiveOK, FlashOK, revision, live, history
<1>2. ASSUME NEW candidate \in Candidates(c), Refuse(c, candidate)
      PROVE  Shape'
  BY <1>2, AnsweredTypes
  DEF Refuse, Shape, RevisionOK, LiveOK, FlashOK, revision, live, history
<1>3. ASSUME NEW candidate \in Candidates(c), Begin(c, candidate)
      PROVE  Shape'
  <2>1. candidate \in Configs
    BY DEF Candidates, Shape, CallersOK
  <2>2. PICK answer \in IF NeedsRuntime(current) THEN StopAnswers ELSE {"already"} :
          runtime' = [runtime EXCEPT !.state =
                        IF NeedsRuntime(current) THEN StateAfterStop(answer) ELSE @]
    BY <1>3 DEF Begin
  <2>3. runtime' = [state |-> runtime'.state, plan |-> runtime'.plan]
        /\ runtime'.state \in {"STOPPED", "RUNNING", "STOPPING"} /\ runtime'.plan = runtime.plan
    BY <2>2 DEF Shape, LiveOK, StateAfterStop
  <2>4. tx' \in Transactions
    BY <1>3, <2>1 DEF Begin, Started, Free, Transactions, Phases
  <2> QED
    BY <1>3, <2>3, <2>4
    DEF Begin, Shape, RevisionOK, LiveOK, FlashOK, CallersOK, revision, callers, history
<1>4. ASSUME NEW candidate \in Candidates(c), StopTimesOut(c, candidate)
      PROVE  Shape'
  <2>1. PICK answer \in StopAnswers :
          runtime' = [runtime EXCEPT !.state = StateAfterStop(answer)]
    BY <1>4 DEF StopTimesOut
  <2>2. runtime' = [state |-> runtime'.state, plan |-> runtime'.plan]
        /\ runtime'.state \in {"STOPPED", "RUNNING", "STOPPING"} /\ runtime'.plan = runtime.plan
    BY <2>1 DEF Shape, LiveOK, StateAfterStop
  <2>3. CallersOK'
    BY <1>4, AnsweredTypes DEF StopTimesOut
  <2> QED
    BY <1>4, <2>2, <2>3
    DEF StopTimesOut, Shape, RevisionOK, LiveOK, FlashOK, revision, history
<1> QED
  BY <1>1, <1>2, <1>3, <1>4 DEF Apply

LEMMA ForwardTypes ==
  ASSUME Shape, GenerationInv,
         RemoveModule \/ AddModule \/ LoadRuntime \/ ConfigureMqtt \/ ApplyPolicy
         \/ Persist \/ StartRuntime \/ Commit
  PROVE  Shape'
<1> USE DEF Shape
<1>1. CASE RemoveModule
  <2>1. CASE ToRemove = {}
    BY <1>1, <2>1, GotoTypes
    DEF RemoveModule, RevisionOK, LiveOK, FlashOK, CallersOK, revision, callers, history, Phases
  <2>2. CASE ToRemove # {}
    <3>1. Min(ToRemove) \in Keys
      BY <2>2, MinOfKeys DEF ToRemove
    <3> HIDE DEF Shape
    <3> DEFINE k == Min(ToRemove)
    <3>2. modules' \in {[modules EXCEPT ![k] = Absent], [modules EXCEPT ![k] = Faulty], modules}
          /\ (tx' = [tx EXCEPT !.removed = @ \cup {k}] \/ Fail)
      BY <1>1, <2>2 DEF RemoveModule
    <3> HIDE DEF k
    <3>3. k \in Keys
      BY <3>1 DEF k
    <3>4. modules' \in [Keys -> Variants]
      BY <3>2, <3>3, ConfigTypes DEF Shape, LiveOK
    <3>5. tx' \in Transactions
      BY <3>2, <3>3, FailTypes DEF Shape, Transactions
    <3> QED
      BY <1>1, <3>4, <3>5
      DEF RemoveModule, Shape, RevisionOK, LiveOK, FlashOK, CallersOK, revision, callers, history
  <2> QED
    BY <2>1, <2>2
<1>2. CASE AddModule
  <2>1. CASE ToAdd = {}
    BY <1>2, <2>1, GotoTypes
    DEF AddModule, RevisionOK, LiveOK, FlashOK, CallersOK, revision, callers, history, Phases
  <2>2. CASE ToAdd # {}
    <3>1. Min(ToAdd) \in Keys
      BY <2>2, MinOfKeys DEF ToAdd
    <3> HIDE DEF Shape
    <3> DEFINE k == Min(ToAdd)
    <3>2. modules' \in {[modules EXCEPT ![k] = tx.candidate.modules[k]], modules}
          /\ (tx' = [tx EXCEPT !.added = @ \cup {k}] \/ Fail)
      BY <1>2, <2>2 DEF AddModule
    <3> HIDE DEF k
    <3>3. k \in Keys
      BY <3>1 DEF k
    <3>4. tx.candidate.modules \in [Keys -> Variants]
      BY <1>2, ConfigTypes DEF GenerationInv, AddModule
    <3>5. modules' \in [Keys -> Variants]
      BY <3>2, <3>3, <3>4 DEF Shape, LiveOK
    <3>6. tx' \in Transactions
      BY <3>2, <3>3, FailTypes DEF Shape, Transactions
    <3> QED
      BY <1>2, <3>5, <3>6
      DEF AddModule, Shape, RevisionOK, LiveOK, FlashOK, CallersOK, revision, callers, history
  <2> QED
    BY <2>1, <2>2
<1>3. CASE LoadRuntime
  <2>1. tx' \in Transactions
    BY <1>3, GotoTypes, FailTypes DEF LoadRuntime, Phases
  <2>2. tx.candidate \in Configs
    BY <1>3 DEF LoadRuntime, GenerationInv
  <2>3. runtime' = [state |-> runtime.state, plan |-> runtime'.plan] /\ runtime'.plan \in Plans
    BY <1>3, <2>2, ConfigTypes DEF LoadRuntime, LiveOK
  <2> QED
    BY <1>3, <2>1, <2>3
    DEF LoadRuntime, RevisionOK, LiveOK, FlashOK, CallersOK, revision, callers, history
<1>4. CASE ConfigureMqtt
  <2>1. tx' \in Transactions
    <3>1. CASE current.mqtt = tx.candidate.mqtt
      BY <1>4, <3>1, GotoTypes DEF ConfigureMqtt, Phases
    <3>2. CASE current.mqtt # tx.candidate.mqtt
      <4>1. \/ tx' = [tx EXCEPT !.at = "connectivity", !.mqtt_reconfigured = TRUE]
            \/ tx' = [tx EXCEPT !.at = "rb_remove", !.mqtt_reconfigured = TRUE]
        BY <1>4, <3>2 DEF ConfigureMqtt
      <4>2. "connectivity" \in Phases /\ "rb_remove" \in Phases
        BY DEF Phases
      <4> HIDE DEF Shape
      <4> QED
        BY <4>1, <4>2, ReconfiguredTypes
    <3> QED
      BY <3>1, <3>2
  <2>2. mqtt' \in {mqtt, tx.candidate.mqtt}
    BY <1>4 DEF ConfigureMqtt
  <2>3. mqtt' \in Mqtts
    <3>1. tx.candidate.mqtt \in Mqtts
      BY <1>4, ConfigTypes DEF ConfigureMqtt, GenerationInv
    <3> QED
      BY <2>2, <3>1 DEF LiveOK
  <2> QED
    BY <1>4, <2>1, <2>3
    DEF ConfigureMqtt, RevisionOK, LiveOK, FlashOK, CallersOK, revision, callers, history
<1>5. CASE ApplyPolicy
  <2>1. tx' \in Transactions
    <3>1. CASE current.policy = tx.candidate.policy
      BY <1>5, <3>1, GotoTypes DEF ApplyPolicy, Phases
    <3>2. CASE current.policy # tx.candidate.policy
      <4>1. \/ tx' = [tx EXCEPT !.at = "persist", !.connectivity_reconfigured = TRUE]
            \/ tx' = [tx EXCEPT !.at = "rb_remove", !.connectivity_reconfigured = TRUE]
        BY <1>5, <3>2 DEF ApplyPolicy
      <4>2. "persist" \in Phases /\ "rb_remove" \in Phases
        BY DEF Phases
      <4> HIDE DEF Shape
      <4> QED
        BY <4>1, <4>2, ReconfiguredTypes
    <3> QED
      BY <3>1, <3>2
  <2>2. policy' \in {policy, tx.candidate.policy}
    BY <1>5 DEF ApplyPolicy
  <2>3. policy' \in Policies
    <3>1. tx.candidate.policy \in Policies
      BY <1>5, ConfigTypes DEF ApplyPolicy, GenerationInv
    <3> QED
      BY <2>2, <3>1 DEF LiveOK
  <2> QED
    BY <1>5, <2>1, <2>3
    DEF ApplyPolicy, RevisionOK, LiveOK, FlashOK, CallersOK, revision, callers, history
<1>6. CASE Persist
  <2>1. tx' \in Transactions
    BY <1>6, FailTypes DEF Persist, Transactions, Phases
  <2>2. FlashOK'
    BY <1>6 DEF Persist, GenerationInv, FlashOK
  <2> QED
    BY <1>6, <2>1, <2>2 DEF Persist, RevisionOK, LiveOK, CallersOK, revision, callers, live
<1>7. CASE StartRuntime
  <2>1. tx' \in Transactions
    BY <1>7, GotoTypes, FailTypes DEF StartRuntime, Phases
  <2>2. runtime' = [state |-> runtime'.state, plan |-> runtime.plan]
        /\ runtime'.state \in {"STOPPED", "RUNNING", "STOPPING"}
    BY <1>7 DEF StartRuntime, LiveOK
  <2> QED
    BY <1>7, <2>1, <2>2
    DEF StartRuntime, RevisionOK, LiveOK, FlashOK, CallersOK, revision, callers, history
<1>8. CASE Commit
  <2>1. CallersOK'
    BY <1>8, AnsweredTypes DEF Commit, GenerationInv
  <2>2. RevisionOK'
    BY <1>8, ConfigAssumption DEF Commit, GenerationInv, RevisionOK
  <2> QED
    BY <1>8, <2>1, <2>2, FreeTypes DEF Commit, LiveOK, FlashOK, live, history
<1> QED
  BY <1>1, <1>2, <1>3, <1>4, <1>5, <1>6, <1>7, <1>8

LEMMA RollbackTypes ==
  ASSUME Shape, GenerationInv,
         RollBackAdded \/ RestoreRemoved \/ RestoreRuntime \/ RestoreMqtt
         \/ RestorePolicy \/ RestoreStored \/ EndOfRollback
  PROVE  Shape'
<1> USE DEF Shape
<1>1. CASE RollBackAdded
  <2>1. CASE tx.added = {}
    BY <1>1, <2>1, GotoTypes
    DEF RollBackAdded, RevisionOK, LiveOK, FlashOK, CallersOK, revision, callers, history, Phases
  <2>2. CASE tx.added # {}
    <3>1. tx.added \in SUBSET Keys
      BY DEF Transactions
    <3> DEFINE k == Max(tx.added)
    <3>2. k \in Keys
      BY <2>2, <3>1, MaxOfKeys
    <3>3. modules' \in {[modules EXCEPT ![k] = Absent], modules}
          /\ tx' \in {[tx EXCEPT !.added = @ \ {k}], [Note(TRUE) EXCEPT !.added = @ \ {k}]}
      BY <1>1, <2>2 DEF RollBackAdded
    <3> HIDE DEF k
    <3>4. modules' \in [Keys -> Variants]
      BY <3>2, <3>3, ConfigTypes DEF LiveOK
    <3>5. tx' \in Transactions
      BY <3>3, UndoneTypes
    <3> QED
      BY <1>1, <3>4, <3>5
      DEF RollBackAdded, RevisionOK, LiveOK, FlashOK, CallersOK, revision, callers, history
  <2> QED
    BY <2>1, <2>2
<1>2. CASE RestoreRemoved
  <2>1. CASE tx.removed = {}
    BY <1>2, <2>1, GotoTypes
    DEF RestoreRemoved, RevisionOK, LiveOK, FlashOK, CallersOK, revision, callers, history, Phases
  <2>2. CASE tx.removed # {}
    <3>1. tx.removed \in SUBSET Keys
      BY DEF Transactions
    <3> DEFINE k == Min(tx.removed)
    <3>2. k \in Keys
      BY <2>2, <3>1, MinOfKeys
    <3>3. modules' \in {[modules EXCEPT ![k] = current.modules[k]], modules}
          /\ tx' \in {[tx EXCEPT !.removed = @ \ {k}], [Note(TRUE) EXCEPT !.removed = @ \ {k}]}
      BY <1>2, <2>2 DEF RestoreRemoved
    <3> HIDE DEF k
    <3>4. current.modules \in [Keys -> Variants]
      BY ConfigTypes DEF RevisionOK
    <3>5. modules' \in [Keys -> Variants]
      BY <3>2, <3>3, <3>4 DEF LiveOK
    <3>6. tx' \in Transactions
      BY <3>3, UndoneTypes
    <3> QED
      BY <1>2, <3>5, <3>6
      DEF RestoreRemoved, RevisionOK, LiveOK, FlashOK, CallersOK, revision, callers, history
  <2> QED
    BY <2>1, <2>2
<1>3. CASE RestoreRuntime
  <2>1. tx' \in Transactions
    BY <1>3, GotoTypes, NoteTypes DEF RestoreRuntime, Phases
  <2>2. runtime' = [state |-> runtime'.state, plan |-> runtime'.plan]
        /\ runtime'.state \in {runtime.state, "STOPPED", "RUNNING"}
        /\ runtime'.plan \in {runtime.plan, {NoPlan}, current.plan}
    <3>1. \/ runtime' \in {runtime, [runtime EXCEPT !.plan = {NoPlan}],
                          [runtime EXCEPT !.plan = current.plan]}
          \/ runtime' = [state |-> IF NeedsRuntime(current) THEN "RUNNING" ELSE "STOPPED",
                         plan |-> current.plan]
      BY <1>3 DEF RestoreRuntime
    <3>2. CASE runtime' \in {runtime, [runtime EXCEPT !.plan = {NoPlan}],
                            [runtime EXCEPT !.plan = current.plan]}
      BY <3>2
    <3>3. CASE runtime' = [state |-> IF NeedsRuntime(current) THEN "RUNNING" ELSE "STOPPED",
                           plan |-> current.plan]
      BY <3>3
    <3> QED
      BY <3>1, <3>2, <3>3
  <2>3. LiveOK'
    BY <1>3, <2>2, ConfigTypes DEF RestoreRuntime, LiveOK, RevisionOK
  <2> QED
    BY <1>3, <2>1, <2>2, <2>3
    DEF RestoreRuntime, RevisionOK, FlashOK, CallersOK, revision, callers, history
<1>4. CASE RestoreMqtt
  <2>1. tx' \in Transactions
    BY <1>4, GotoTypes, NoteTypes DEF RestoreMqtt, Phases
  <2>2. mqtt' \in Mqtts
    BY <1>4, ConfigTypes DEF RestoreMqtt, LiveOK, RevisionOK
  <2> QED
    BY <1>4, <2>1, <2>2
    DEF RestoreMqtt, RevisionOK, LiveOK, FlashOK, CallersOK, revision, callers, history
<1>5. CASE RestorePolicy
  <2>1. tx' \in Transactions
    BY <1>5, GotoTypes, NoteTypes DEF RestorePolicy, Phases
  <2>2. policy' \in Policies
    BY <1>5, ConfigTypes DEF RestorePolicy, LiveOK, RevisionOK
  <2> QED
    BY <1>5, <2>1, <2>2
    DEF RestorePolicy, RevisionOK, LiveOK, FlashOK, CallersOK, revision, callers, history
<1>6. CASE RestoreStored
  <2>1. tx' \in Transactions
    BY <1>6, GotoTypes, NoteTypes DEF RestoreStored, Phases
  <2>2. FlashOK'
    BY <1>6 DEF RestoreStored, FlashOK, RevisionOK, history
  <2> QED
    BY <1>6, <2>1, <2>2 DEF RestoreStored, RevisionOK, LiveOK, CallersOK, revision, callers, live
<1>7. CASE EndOfRollback
  <2>1. CallersOK'
    BY <1>7, AnsweredTypes DEF EndOfRollback, GenerationInv
  <2>2. FlashOK'
    BY <1>7 DEF EndOfRollback, FlashOK, Transactions
  <2> QED
    BY <1>7, <2>1, <2>2, FreeTypes DEF EndOfRollback, RevisionOK, LiveOK, revision, live
<1> QED
  BY <1>1, <1>2, <1>3, <1>4, <1>5, <1>6, <1>7

LEMMA OutsideTypes ==
  ASSUME Shape, ReadStored \/ Quiesce \/ Drained \/ Reboot \/ UNCHANGED vars
  PROVE  Shape'
<1> USE DEF Shape
<1>1. CASE ReadStored
  BY <1>1
  DEF ReadStored, RevisionOK, LiveOK, FlashOK, CallersOK, revision, live, history
<1>2. CASE Quiesce \/ Drained
  <2>1. runtime' = [state |-> runtime'.state, plan |-> runtime.plan]
        /\ runtime'.state \in {"STOPPED", "STOPPING"}
    BY <1>2 DEF Quiesce, Drained
  <2> QED
    BY <1>2, <2>1
    DEF Quiesce, Drained, RevisionOK, LiveOK, FlashOK, CallersOK, revision, callers, history
<1>3. CASE Reboot
  <2>1. RevisionOK'
    BY <1>3, ConfigAssumption DEF Reboot, RevisionOK
  <2>2. LiveOK'
    BY <1>3, ConfigTypes, StartupTypes, ConfigAssumption DEF Reboot, LiveOK
  <2>3. FlashOK' /\ CallersOK'
    BY <1>3 DEF Reboot, FlashOK, CallersOK
  <2> QED
    BY <1>3, <2>1, <2>2, <2>3, FreeTypes DEF Reboot
<1>4. CASE UNCHANGED vars
  BY <1>4
  DEF vars, RevisionOK, LiveOK, FlashOK, CallersOK, revision, live, callers, history
<1> QED
  BY <1>1, <1>2, <1>3, <1>4

LEMMA TypeStep ==
  ASSUME Shape, GenerationInv, [Next]_vars
  PROVE  Shape'
  BY CallerTypes, ForwardTypes, RollbackTypes, OutsideTypes DEF Next, Step

-----------------------------------------------------------------------------
(* Generations                                                              *)

LEMMA GenerationInit == Init => GenerationInv
  BY DEF Init, GenerationInv, Free

\* The steps that leave the revision and what the callers have read
LEMMA GenerationKept ==
  ASSUME GenerationInv, UNCHANGED <<revision, snapshot>>,
         (tx'.at = "free") \/ (tx.at # "free" /\ tx'.by = tx.by /\ tx'.candidate = tx.candidate)
  PROVE  GenerationInv'
  BY DEF GenerationInv, revision

\* The steps that answer the caller
LEMMA GenerationAnswered ==
  ASSUME Shape, GenerationInv, UNCHANGED revision, NEW c \in Callers, Answered(c),
         tx'.at = "free"
  PROVE  GenerationInv'
  BY DEF Shape, CallersOK, GenerationInv, Answered, revision

LEMMA TxOfStep ==
  ASSUME Shape, Step, tx'.at # "free"
  PROVE  /\ tx.at # "free" /\ tx'.by = tx.by /\ tx'.candidate = tx.candidate
         /\ UNCHANGED <<revision, snapshot>>
<1>1. tx \in Transactions
  BY DEF Shape
<1>2. CASE RemoveModule \/ AddModule
  BY <1>1, <1>2 DEF RemoveModule, AddModule, Goto, Fail, Transactions, callers
<1>3. CASE LoadRuntime \/ ConfigureMqtt \/ ApplyPolicy \/ Persist \/ StartRuntime
  BY <1>1, <1>3
  DEF LoadRuntime, ConfigureMqtt, ApplyPolicy, Persist, StartRuntime, Goto, Fail, Transactions,
      callers
<1>4. CASE Commit \/ EndOfRollback
  BY <1>4 DEF Commit, EndOfRollback, Free
<1>5. CASE RollBackAdded \/ RestoreRemoved
  BY <1>1, <1>5 DEF RollBackAdded, RestoreRemoved, Goto, Note, Transactions, callers
<1>6. CASE RestoreRuntime \/ RestoreMqtt \/ RestorePolicy \/ RestoreStored
  BY <1>1, <1>6
  DEF RestoreRuntime, RestoreMqtt, RestorePolicy, RestoreStored, Goto, Note, Transactions, callers
<1> QED
  BY <1>2, <1>3, <1>4, <1>5, <1>6 DEF Step

LEMMA FreeOfStep ==
  ASSUME Shape, Step, tx'.at = "free"
  PROVE  Commit \/ EndOfRollback
<1>1. tx \in Transactions
  BY DEF Shape
<1>2. ~RemoveModule /\ ~AddModule
  BY <1>1 DEF RemoveModule, AddModule, Goto, Fail, Transactions
<1>3. ~LoadRuntime /\ ~ConfigureMqtt /\ ~ApplyPolicy /\ ~Persist /\ ~StartRuntime
  BY <1>1
  DEF LoadRuntime, ConfigureMqtt, ApplyPolicy, Persist, StartRuntime, Goto, Fail, Transactions
<1>4. ~RollBackAdded /\ ~RestoreRemoved
  BY <1>1 DEF RollBackAdded, RestoreRemoved, Goto, Note, Transactions
<1>5. ~RestoreRuntime /\ ~RestoreMqtt /\ ~RestorePolicy /\ ~RestoreStored
  BY <1>1
  DEF RestoreRuntime, RestoreMqtt, RestorePolicy, RestoreStored, Goto, Note, Transactions
<1> QED
  BY <1>2, <1>3, <1>4, <1>5 DEF Step

LEMMA GenerationStep ==
  ASSUME Shape, GenerationInv, [Next]_vars
  PROVE  GenerationInv'
<1>1. ASSUME NEW c \in Callers, GetSnapshot(c)
      PROVE  GenerationInv'
  BY <1>1 DEF GetSnapshot, GenerationInv, Shape, CallersOK, RevisionOK, revision
<1>2. ASSUME NEW c \in Callers, NEW candidate \in Candidates(c), Refuse(c, candidate)
      PROVE  GenerationInv'
  BY <1>2, GenerationAnswered DEF Refuse
<1>3. ASSUME NEW c \in Callers, NEW candidate \in Candidates(c), Begin(c, candidate)
      PROVE  GenerationInv'
  <2>1. candidate \in Configs
    BY DEF Candidates, Shape, CallersOK
  <2>2. tx'.at # "free" /\ tx'.by = c /\ tx'.candidate = candidate
    BY <1>3 DEF Begin, Started, Free
  <2> QED
    BY <1>3, <2>1, <2>2 DEF Begin, Accepted, Fresh, GenerationInv, revision, callers
<1>4. ASSUME NEW c \in Callers, NEW candidate \in Candidates(c), StopTimesOut(c, candidate)
      PROVE  GenerationInv'
  <2>1. tx'.at = "free"
    BY <1>4 DEF StopTimesOut, Accepted
  <2> QED
    BY <1>4, <2>1, GenerationAnswered DEF StopTimesOut
<1>5. CASE Commit
  <2>1. tx.by \in Callers /\ generation < MaxGeneration
    BY <1>5 DEF Commit, GenerationInv
  <2>2. generation \in Int /\ generation' = generation + 1
    BY <1>5 DEF Commit, Shape, RevisionOK
  <2>3. \A c \in Callers : snapshot[c] # None => snapshot[c].generation <= generation
    BY DEF GenerationInv
  <2>4. \A c \in Callers : snapshot[c] \in Snapshots \cup {None}
    BY DEF Shape, CallersOK
  <2>5. \A c \in Callers : snapshot'[c] # None => snapshot'[c] = snapshot[c]
    BY <1>5, <2>1 DEF Commit, Answered, Shape, CallersOK
  <2>6. \A c \in Callers : snapshot'[c] # None =>
          snapshot'[c].generation <= generation /\ snapshot'[c].generation \in Int
    BY <2>3, <2>4, <2>5 DEF Snapshots
  <2>7. \A c \in Callers : snapshot'[c] # None =>
          snapshot'[c].generation <= generation' /\ snapshot'[c].generation # generation'
    BY <2>2, <2>6
  <2>8. tx'.at = "free"
    BY <1>5 DEF Commit, Free
  <2> QED
    BY <2>7, <2>8 DEF GenerationInv
<1>6. CASE EndOfRollback
  <2>1. tx.by \in Callers
    BY <1>6 DEF EndOfRollback, GenerationInv
  <2> QED
    BY <1>6, <2>1, GenerationAnswered DEF EndOfRollback, Free
<1>7. CASE Step /\ tx'.at # "free"
  BY <1>7, TxOfStep, GenerationKept
<1>8. CASE ReadStored \/ Quiesce \/ Drained \/ UNCHANGED vars
  BY <1>8, GenerationKept DEF ReadStored, Quiesce, Drained, vars, callers
<1>9. CASE Reboot
  BY <1>9 DEF Reboot, GenerationInv, Free
<1> QED
  BY <1>1, <1>2, <1>3, <1>4, <1>5, <1>6, <1>7, <1>8, <1>9, FreeOfStep DEF Next, Apply

-----------------------------------------------------------------------------
(* The record                                                               *)

LEMMA FlashInit == Init => FlashInv
  BY DEF Init, FlashInv, Free

\* A step that fails or does the next thing, and does not touch the record
Quiet ==
    /\ UNCHANGED <<current, flash, written, broken>>
    /\ tx.at \notin {"free", "persist", "start", "rb_store", "rb_end"}
    /\ tx'.at \notin {"free", "start", "commit", "rb_end"}
    /\ tx'.candidate = tx.candidate /\ tx'.candidate_persisted = tx.candidate_persisted

LEMMA QuietKeepsFlash ==
  ASSUME FlashInv, Quiet
  PROVE  FlashInv'
  BY DEF FlashInv, Quiet

LEMMA QuietSteps ==
  ASSUME Shape,
         RemoveModule \/ AddModule \/ LoadRuntime \/ ConfigureMqtt \/ ApplyPolicy
         \/ RollBackAdded \/ RestoreRemoved \/ RestoreRuntime \/ RestoreMqtt \/ RestorePolicy
  PROVE  Quiet
<1>1. tx \in Transactions
  BY DEF Shape
<1>2. CASE RemoveModule \/ AddModule
  BY <1>1, <1>2
  DEF RemoveModule, AddModule, Goto, Fail, Transactions, history, revision, Quiet
<1>3. CASE LoadRuntime \/ ConfigureMqtt \/ ApplyPolicy
  BY <1>1, <1>3
  DEF LoadRuntime, ConfigureMqtt, ApplyPolicy, Goto, Fail, Transactions, history, revision, Quiet
<1>4. CASE RollBackAdded \/ RestoreRemoved
  BY <1>1, <1>4
  DEF RollBackAdded, RestoreRemoved, Goto, Note, Transactions, history, revision, Quiet
<1>5. CASE RestoreRuntime \/ RestoreMqtt \/ RestorePolicy
  BY <1>1, <1>5
  DEF RestoreRuntime, RestoreMqtt, RestorePolicy, Goto, Note, Transactions, history, revision, Quiet
<1> QED
  BY <1>2, <1>3, <1>4, <1>5

LEMMA FlashStep ==
  ASSUME Shape, GenerationInv, FlashInv, [Next]_vars
  PROVE  FlashInv'
<1> USE DEF Shape
<1>1. ASSUME NEW c \in Callers, GetSnapshot(c)
      PROVE  FlashInv'
  BY <1>1 DEF GetSnapshot, FlashInv, revision, history
<1>2. ASSUME NEW c \in Callers, NEW candidate \in Candidates(c),
             Refuse(c, candidate) \/ StopTimesOut(c, candidate)
      PROVE  FlashInv'
  BY <1>2 DEF Refuse, StopTimesOut, FlashInv, revision, history
<1>3. ASSUME NEW c \in Callers, NEW candidate \in Candidates(c), Begin(c, candidate)
      PROVE  FlashInv'
  <2>1. tx'.at \in {"remove", "rb_remove"} /\ ~tx'.candidate_persisted
    BY <1>3 DEF Begin, Started, Free
  <2> QED
    BY <1>3, <2>1 DEF Begin, Accepted, FlashInv, revision, history
<1>4. CASE Quiet
  BY <1>4, QuietKeepsFlash
<1>5. CASE Persist
  <2>1. CASE /\ flash' = tx.candidate
             /\ tx' = [tx EXCEPT !.at = "start", !.candidate_persisted = TRUE]
    BY <1>5, <2>1 DEF Persist, FlashInv, Transactions
  <2>2. CASE Fail /\ UNCHANGED <<flash, written>>
    BY <1>5, <2>2 DEF Persist, Fail, Goto, FlashInv, Transactions, revision
  <2> QED
    BY <1>5, <2>1, <2>2 DEF Persist
<1>6. CASE StartRuntime
  BY <1>6 DEF StartRuntime, Fail, Goto, FlashInv, Transactions, revision, history
<1>7. CASE Commit
  BY <1>7 DEF Commit, FlashInv, Free, history
<1>8. CASE RestoreStored
  BY <1>8 DEF RestoreStored, Goto, Note, FlashInv, Transactions, revision, history
<1>9. CASE EndOfRollback
  BY <1>9 DEF EndOfRollback, FlashInv, Free, Transactions, revision
<1>10. CASE ReadStored \/ Quiesce \/ Drained \/ UNCHANGED vars
  BY <1>10 DEF ReadStored, Quiesce, Drained, vars, revision, history, FlashInv
<1>11. CASE Reboot
  BY <1>11 DEF Reboot, FlashInv, Free
<1> QED
  BY <1>1, <1>2, <1>3, <1>4, <1>5, <1>6, <1>7, <1>8, <1>9, <1>10, <1>11, QuietSteps
  DEF Next, Apply, Step

LEMMA FlashConsequence == FlashInv => FlashIsWhole
  BY DEF FlashInv, FlashIsWhole

-----------------------------------------------------------------------------
(* What is live                                                             *)

AllLive == RestInv /\ ForwardInv /\ BackInv /\ MqttInv

LEMMA LiveInit == Init => AllLive
  BY ConfigAssumption
  DEF Init, AllLive, RestInv, ForwardInv, BackInv, MqttInv, Free, Forward, Rollback

LEMMA ShapeFields ==
  ASSUME Shape
  PROVE  /\ tx \in Transactions
         /\ modules \in [Keys -> Variants]
         /\ current \in Configs
         /\ current.modules \in [Keys -> Variants]
         /\ tx.candidate \in Configs => tx.candidate.modules \in [Keys -> Variants]
         /\ runtime = [state |-> runtime.state, plan |-> runtime.plan]
  BY ConfigTypes DEF Shape, LiveOK, RevisionOK

\* Any failure ends in the rollback, with the sets of keys as they are.
LEMMA FailedLive ==
  ASSUME Shape, AllLive, tx.at \in Forward, current' = current, modules' = modules,
         tx'.at = "rb_remove", tx'.removed = tx.removed, tx'.added = tx.added,
         (~tx'.mqtt_reconfigured) => ~tx.mqtt_reconfigured /\ mqtt' = mqtt
  PROVE  AllLive'
<1>1. RestInv' /\ ForwardInv'
  BY DEF RestInv, ForwardInv, Forward
<1>2. BackInv'
  BY DEF AllLive, ForwardInv, BackInv, Rollback, Kept
<1>3. MqttInv'
  BY DEF AllLive, MqttInv, Forward
<1> QED
  BY <1>1, <1>2, <1>3 DEF AllLive

\* A step that touches neither the modules nor the plan nor MQTT
LEMMA UntouchedLive ==
  ASSUME AllLive, UNCHANGED <<current, modules, runtime.plan, mqtt, tx>>
  PROVE  AllLive'
<1>1. RestInv' /\ MqttInv'
  BY DEF AllLive, RestInv, MqttInv
<1>2. ForwardInv'
  BY DEF AllLive, ForwardInv, Changed, Kept
<1>3. BackInv'
  BY DEF AllLive, BackInv, Kept, Sources
<1> QED
  BY <1>1, <1>2, <1>3 DEF AllLive

LEMMA RemoveLive ==
  ASSUME Shape, GenerationInv, AllLive, RemoveModule
  PROVE  AllLive'
<1> USE ShapeFields
<1>1. /\ tx.at = "remove" /\ tx.added = {} /\ tx.at # "free" /\ tx.at \in Forward
      /\ current' = current /\ mqtt' = mqtt /\ runtime' = runtime
  BY DEF RemoveModule, AllLive, ForwardInv, Forward, revision
<1>2. CASE ToRemove = {}
  <2>1. modules' = modules /\ tx' = [tx EXCEPT !.at = "add"]
    BY <1>2 DEF RemoveModule, Goto
  <2>2. RestInv' /\ BackInv' /\ MqttInv'
    BY <1>1, <2>1 DEF AllLive, RestInv, BackInv, MqttInv, Rollback, Transactions
  <2>3. \A k \in Keys : Changed(k) /\ current.modules[k] # Absent => k \in tx.removed
    BY <1>2 DEF ToRemove
  <2>4. ForwardInv'
    BY <1>1, <2>1, <2>3 DEF AllLive, ForwardInv, Forward, Changed, Kept, Transactions
  <2> QED
    BY <2>2, <2>4 DEF AllLive
<1>3. CASE ToRemove # {}
  <2> DEFINE k == Min(ToRemove)
  <2>1. k \in ToRemove
    BY <1>3, MinOfKeys DEF ToRemove
  <2>2. k \in Keys /\ Changed(k) /\ current.modules[k] # Absent /\ k \notin tx.removed
    BY <2>1 DEF ToRemove
  <2>3. \/ modules' = [modules EXCEPT ![k] = Absent] /\ tx' = [tx EXCEPT !.removed = @ \cup {k}]
        \/ k \in Sources(current) /\ modules' = [modules EXCEPT ![k] = Faulty] /\ Fail
        \/ UNCHANGED modules /\ Fail
    BY <1>3 DEF RemoveModule
  <2> HIDE DEF k
  <2>4. CASE modules' = [modules EXCEPT ![k] = Absent] /\ tx' = [tx EXCEPT !.removed = @ \cup {k}]
    <3>1. RestInv' /\ BackInv' /\ MqttInv'
      BY <1>1, <2>4 DEF AllLive, RestInv, BackInv, MqttInv, Rollback, Transactions
    <3>2. ForwardInv'
      BY <1>1, <2>2, <2>4 DEF AllLive, ForwardInv, Forward, Changed, Kept, Transactions
    <3> QED
      BY <3>1, <3>2 DEF AllLive
  <2>5. CASE k \in Sources(current) /\ modules' = [modules EXCEPT ![k] = Faulty] /\ Fail
    <3>1. RestInv' /\ ForwardInv' /\ MqttInv'
      BY <1>1, <2>5
      DEF AllLive, RestInv, ForwardInv, MqttInv, Forward, Transactions, Fail, Goto
    <3>2. BackInv'
      BY <1>1, <2>2, <2>5
      DEF AllLive, ForwardInv, BackInv, Rollback, Kept, Transactions, Fail, Goto, Sources
    <3> QED
      BY <3>1, <3>2 DEF AllLive
  <2>6. CASE UNCHANGED modules /\ Fail
    BY <1>1, <2>6, FailedLive DEF Fail, Goto, Transactions
  <2> QED
    BY <2>3, <2>4, <2>5, <2>6
<1> QED
  BY <1>2, <1>3

LEMMA AddLive ==
  ASSUME Shape, GenerationInv, AllLive, AddModule
  PROVE  AllLive'
<1> USE ShapeFields
<1>1. /\ tx.at = "add" /\ tx.at \in Forward /\ tx.candidate \in Configs
      /\ current' = current /\ mqtt' = mqtt /\ runtime' = runtime
  BY DEF AddModule, GenerationInv, Forward, revision
<1>2. CASE ToAdd = {}
  <2>1. modules' = modules /\ tx' = [tx EXCEPT !.at = "load"]
    BY <1>2 DEF AddModule, Goto
  <2>2. RestInv' /\ BackInv' /\ MqttInv'
    BY <1>1, <2>1 DEF AllLive, RestInv, BackInv, MqttInv, Rollback, Transactions
  <2>3. \A k \in Keys : Changed(k) /\ tx.candidate.modules[k] # Absent => k \in tx.added
    BY <1>2 DEF ToAdd
  <2>4. ForwardInv'
    BY <1>1, <2>1, <2>3 DEF AllLive, ForwardInv, Forward, Changed, Kept, Transactions
  <2> QED
    BY <2>2, <2>4 DEF AllLive
<1>3. CASE ToAdd # {}
  <2> DEFINE k == Min(ToAdd)
  <2>1. k \in ToAdd
    BY <1>3, MinOfKeys DEF ToAdd
  <2>2. k \in Keys /\ Changed(k) /\ k \notin tx.added
    BY <2>1 DEF ToAdd
  <2>3. \/ /\ modules' = [modules EXCEPT ![k] = tx.candidate.modules[k]]
           /\ tx' = [tx EXCEPT !.added = @ \cup {k}]
        \/ UNCHANGED modules /\ Fail
    BY <1>3 DEF AddModule
  <2> HIDE DEF k
  <2>4. CASE /\ modules' = [modules EXCEPT ![k] = tx.candidate.modules[k]]
             /\ tx' = [tx EXCEPT !.added = @ \cup {k}]
    <3>1. RestInv' /\ BackInv' /\ MqttInv'
      BY <1>1, <2>4 DEF AllLive, RestInv, BackInv, MqttInv, Rollback, Transactions
    <3>2. k \in tx.removed \/ current.modules[k] = Absent
      BY <1>1, <2>2 DEF AllLive, ForwardInv
    <3>3. ForwardInv'
      BY <1>1, <2>2, <2>4, <3>2 DEF AllLive, ForwardInv, Forward, Changed, Kept, Transactions
    <3> QED
      BY <3>1, <3>3 DEF AllLive
  <2>5. CASE UNCHANGED modules /\ Fail
    BY <1>1, <2>5, FailedLive DEF Fail, Goto, Transactions
  <2> QED
    BY <2>3, <2>4, <2>5
<1> QED
  BY <1>2, <1>3

\* A step forward that touches no module
LEMMA OnwardLive ==
  ASSUME Shape, AllLive, UNCHANGED <<current, modules>>,
         tx.at \in Forward \ {"remove", "add"}, tx'.at \in Forward \ {"remove", "add"},
         tx'.removed = tx.removed, tx'.added = tx.added, tx'.candidate = tx.candidate,
         tx'.at \in {"load", "mqtt"} =>
             tx.at = "load" /\ tx'.mqtt_reconfigured = tx.mqtt_reconfigured,
         tx'.at # "load" => runtime'.plan = tx.candidate.plan,
         tx'.at \notin {"load", "mqtt"} => mqtt' = tx.candidate.mqtt,
         (~tx'.mqtt_reconfigured) => ~tx.mqtt_reconfigured /\ mqtt' = mqtt
  PROVE  AllLive'
<1>1. RestInv' /\ BackInv'
  BY DEF RestInv, BackInv, Forward, Rollback
<1>2. ForwardInv'
  BY DEF AllLive, ForwardInv, Forward, Changed, Kept
<1>3. MqttInv'
  BY DEF AllLive, MqttInv, Forward
<1> QED
  BY <1>1, <1>2, <1>3 DEF AllLive

LEMMA OnwardSteps ==
  ASSUME Shape, AllLive, LoadRuntime \/ ConfigureMqtt \/ ApplyPolicy \/ Persist \/ StartRuntime
  PROVE  AllLive'
<1> USE ShapeFields
<1>0. UNCHANGED <<current, modules>>
  BY DEF LoadRuntime, ConfigureMqtt, ApplyPolicy, Persist, StartRuntime, revision, live
<1>1. CASE LoadRuntime
  <2>1. tx.at = "load" /\ mqtt' = mqtt
    BY <1>1 DEF LoadRuntime
  <2>2. CASE runtime' = [runtime EXCEPT !.plan = tx.candidate.plan] /\ Goto("mqtt")
    BY <1>0, <2>1, <2>2, OnwardLive DEF Goto, Forward, Transactions
  <2>3. CASE Fail
    BY <1>0, <2>1, <2>3, FailedLive DEF Fail, Goto, Forward, Transactions
  <2> QED
    BY <1>1, <2>2, <2>3 DEF LoadRuntime
<1>2. CASE ConfigureMqtt
  <2>1. /\ tx.at = "mqtt" /\ runtime' = runtime /\ runtime.plan = tx.candidate.plan
    BY <1>2 DEF ConfigureMqtt, AllLive, ForwardInv, Forward
  <2>2. CASE current.mqtt = tx.candidate.mqtt
    <3>1. Goto("connectivity") /\ mqtt' = mqtt
      BY <1>2, <2>2 DEF ConfigureMqtt
    <3>2. mqtt = tx.candidate.mqtt
      BY <2>1, <2>2 DEF AllLive, ForwardInv, MqttInv, Forward
    <3> QED
      BY <1>0, <2>1, <3>1, <3>2, OnwardLive DEF Goto, Forward, Transactions
  <2>3. CASE tx' = [tx EXCEPT !.at = "connectivity", !.mqtt_reconfigured = TRUE]
             /\ mqtt' = tx.candidate.mqtt
    BY <1>0, <2>1, <2>3, OnwardLive DEF Forward, Transactions
  <2>4. CASE tx' = [tx EXCEPT !.at = "rb_remove", !.mqtt_reconfigured = TRUE]
    BY <1>0, <2>1, <2>4, FailedLive DEF Forward, Transactions
  <2> QED
    BY <1>2, <2>2, <2>3, <2>4 DEF ConfigureMqtt
<1>3. CASE ApplyPolicy
  <2>1. /\ tx.at = "connectivity" /\ runtime' = runtime /\ runtime.plan = tx.candidate.plan
        /\ mqtt' = mqtt /\ mqtt = tx.candidate.mqtt
    BY <1>3 DEF ApplyPolicy, AllLive, ForwardInv, Forward
  <2>2. CASE tx' = [tx EXCEPT !.at = "rb_remove", !.connectivity_reconfigured = TRUE]
    BY <1>0, <2>1, <2>2, FailedLive DEF Forward, Transactions
  <2>3. CASE \/ tx' = [tx EXCEPT !.at = "persist", !.connectivity_reconfigured = TRUE]
             \/ Goto("persist")
    BY <1>0, <2>1, <2>3, OnwardLive DEF Goto, Forward, Transactions
  <2> QED
    BY <1>3, <2>2, <2>3 DEF ApplyPolicy
<1>4. CASE Persist
  <2>1. /\ tx.at = "persist" /\ runtime' = runtime /\ runtime.plan = tx.candidate.plan
        /\ mqtt' = mqtt /\ mqtt = tx.candidate.mqtt
    BY <1>4 DEF Persist, AllLive, ForwardInv, Forward, live
  <2>2. CASE Fail
    BY <1>0, <2>1, <2>2, FailedLive DEF Fail, Goto, Forward, Transactions
  <2>3. CASE tx' = [tx EXCEPT !.at = "start", !.candidate_persisted = TRUE]
    BY <1>0, <2>1, <2>3, OnwardLive DEF Forward, Transactions
  <2> QED
    BY <1>4, <2>2, <2>3 DEF Persist
<1>5. CASE StartRuntime
  <2>1. /\ tx.at = "start" /\ runtime'.plan = runtime.plan /\ runtime.plan = tx.candidate.plan
        /\ mqtt' = mqtt /\ mqtt = tx.candidate.mqtt
    BY <1>5 DEF StartRuntime, AllLive, ForwardInv, Forward
  <2>2. CASE Fail
    BY <1>0, <2>1, <2>2, FailedLive DEF Fail, Goto, Forward, Transactions
  <2>3. CASE Goto("commit")
    BY <1>0, <2>1, <2>3, OnwardLive DEF Goto, Forward, Transactions
  <2> QED
    BY <1>5, <2>2, <2>3 DEF StartRuntime
<1> QED
  BY <1>1, <1>2, <1>3, <1>4, <1>5

\* A step of the rollback that touches no module; once an error is noted,
\* nothing more is claimed but MqttInv.
LEMMA BackwardLive ==
  ASSUME Shape, AllLive, UNCHANGED <<current, modules>>,
         tx.at \in Rollback \ {"rb_remove", "rb_restore"},
         tx'.at \in Rollback \ {"rb_remove", "rb_restore", "rb_runtime"},
         tx'.removed = tx.removed, tx'.added = tx.added,
         tx'.mqtt_reconfigured = tx.mqtt_reconfigured,
         tx.err => tx'.err,
         ~tx'.err => /\ runtime'.plan = current.plan
                     /\ tx.at = "rb_runtime" => \A k \in Sources(current) : Ready(k)
                     /\ tx'.at # "rb_mqtt" => mqtt' = current.mqtt,
         ~tx.mqtt_reconfigured => mqtt' = mqtt
  PROVE  AllLive'
<1>1. RestInv' /\ ForwardInv'
  BY DEF RestInv, ForwardInv, Forward, Rollback
<1>2. BackInv'
  <2> SUFFICES ASSUME ~tx'.err PROVE BackInv'
    BY DEF BackInv
  <2>1. ~tx.err /\ tx.added = {} /\ tx.removed = {}
    BY DEF AllLive, BackInv
  <2>2. \A k \in Keys : Kept(k)
    BY <2>1 DEF AllLive, BackInv, Ready
  <2> QED
    BY <2>1, <2>2 DEF BackInv, Kept
<1>3. MqttInv'
  BY DEF AllLive, MqttInv, Rollback
<1> QED
  BY <1>1, <1>2, <1>3 DEF AllLive

\* A step of the rollback that notes an error and leaves MQTT
LEMMA ErrorLive ==
  ASSUME AllLive, UNCHANGED <<current, mqtt>>, tx.at \in Rollback, tx'.at \in Rollback,
         tx'.err, tx'.mqtt_reconfigured = tx.mqtt_reconfigured
  PROVE  AllLive'
  BY DEF AllLive, RestInv, ForwardInv, BackInv, MqttInv, Forward, Rollback

LEMMA RollBackAddedLive ==
  ASSUME Shape, AllLive, RollBackAdded
  PROVE  AllLive'
<1> USE ShapeFields
<1>1. /\ tx.at = "rb_remove" /\ tx.at \in Rollback
      /\ current' = current /\ mqtt' = mqtt /\ runtime' = runtime
  BY DEF RollBackAdded, Rollback, revision
<1>2. CASE tx.added = {}
  <2>1. modules' = modules /\ tx' = [tx EXCEPT !.at = "rb_restore"]
    BY <1>2 DEF RollBackAdded, Goto
  <2>2. RestInv' /\ ForwardInv' /\ MqttInv'
    BY <1>1, <2>1 DEF AllLive, RestInv, ForwardInv, MqttInv, Forward, Transactions
  <2>3. BackInv'
    BY <1>1, <1>2, <2>1 DEF AllLive, BackInv, Kept, Rollback, Sources, Transactions
  <2> QED
    BY <2>2, <2>3 DEF AllLive
<1>3. CASE tx.added # {}
  <2> DEFINE k == Max(tx.added)
  <2>1. k \in tx.added /\ k \in Keys
    BY <1>3, MaxOfKeys DEF Transactions
  <2>2. \/ modules' = [modules EXCEPT ![k] = Absent] /\ tx' = [tx EXCEPT !.added = @ \ {k}]
        \/ tx' = [Note(TRUE) EXCEPT !.added = @ \ {k}]
    BY <1>3 DEF RollBackAdded
  <2> HIDE DEF k
  <2>3. CASE modules' = [modules EXCEPT ![k] = Absent] /\ tx' = [tx EXCEPT !.added = @ \ {k}]
    <3>1. RestInv' /\ ForwardInv' /\ MqttInv'
      BY <1>1, <2>3 DEF AllLive, RestInv, ForwardInv, MqttInv, Forward, Transactions
    <3>2. BackInv'
      BY <1>1, <2>1, <2>3 DEF AllLive, BackInv, Kept, Rollback, Sources, Transactions
    <3> QED
      BY <3>1, <3>2 DEF AllLive
  <2>4. CASE tx' = [Note(TRUE) EXCEPT !.added = @ \ {k}]
    BY <1>1, <2>4, ErrorLive DEF Note, Transactions
  <2> QED
    BY <2>2, <2>3, <2>4
<1> QED
  BY <1>2, <1>3

LEMMA RestoreRemovedLive ==
  ASSUME Shape, AllLive, RestoreRemoved
  PROVE  AllLive'
<1> USE ShapeFields
<1>1. /\ tx.at = "rb_restore" /\ tx.at \in Rollback
      /\ current' = current /\ mqtt' = mqtt /\ runtime' = runtime
  BY DEF RestoreRemoved, Rollback, revision
<1>2. CASE tx.removed = {}
  <2>1. modules' = modules /\ tx' = [tx EXCEPT !.at = "rb_runtime"]
    BY <1>2 DEF RestoreRemoved, Goto
  <2>2. RestInv' /\ ForwardInv' /\ MqttInv'
    BY <1>1, <2>1 DEF AllLive, RestInv, ForwardInv, MqttInv, Forward, Transactions
  <2>3. BackInv'
    BY <1>1, <1>2, <2>1 DEF AllLive, BackInv, Kept, Rollback, Sources, Transactions
  <2> QED
    BY <2>2, <2>3 DEF AllLive
<1>3. CASE tx.removed # {}
  <2> DEFINE k == Min(tx.removed)
  <2>1. k \in tx.removed /\ k \in Keys
    BY <1>3, MinOfKeys DEF Transactions
  <2>2. \/ /\ modules' = [modules EXCEPT ![k] = current.modules[k]]
           /\ tx' = [tx EXCEPT !.removed = @ \ {k}]
        \/ tx' = [Note(TRUE) EXCEPT !.removed = @ \ {k}]
    BY <1>3 DEF RestoreRemoved
  <2> HIDE DEF k
  <2>3. CASE /\ modules' = [modules EXCEPT ![k] = current.modules[k]]
             /\ tx' = [tx EXCEPT !.removed = @ \ {k}]
    <3>1. RestInv' /\ ForwardInv' /\ MqttInv'
      BY <1>1, <2>3 DEF AllLive, RestInv, ForwardInv, MqttInv, Forward, Transactions
    <3>2. BackInv'
      BY <1>1, <2>1, <2>3 DEF AllLive, BackInv, Kept, Rollback, Sources, Transactions
    <3> QED
      BY <3>1, <3>2 DEF AllLive
  <2>4. CASE tx' = [Note(TRUE) EXCEPT !.removed = @ \ {k}]
    BY <1>1, <2>4, ErrorLive DEF Note, Transactions
  <2> QED
    BY <2>2, <2>3, <2>4
<1> QED
  BY <1>2, <1>3

LEMMA BackwardSteps ==
  ASSUME Shape, AllLive, RestoreRuntime \/ RestoreMqtt \/ RestorePolicy \/ RestoreStored
  PROVE  AllLive'
<1> USE ShapeFields
<1>0. UNCHANGED <<current, modules>>
  BY DEF RestoreRuntime, RestoreMqtt, RestorePolicy, RestoreStored, revision, live
<1>1. CASE RestoreRuntime
  <2>1. tx.at = "rb_runtime" /\ mqtt' = mqtt
    BY <1>1 DEF RestoreRuntime
  <2>2. CASE tx.err \/ tx' = [Note(TRUE) EXCEPT !.at = "rb_mqtt"]
    <3>1. tx'.at = "rb_mqtt" /\ tx'.err /\ tx'.mqtt_reconfigured = tx.mqtt_reconfigured
      BY <1>1, <2>2 DEF RestoreRuntime, Note, Goto, Transactions
    <3> QED
      BY <1>0, <2>1, <3>1, ErrorLive DEF Rollback
  <2>3. CASE /\ NeedsRuntime(current) => \A k \in Sources(current) : Ready(k)
             /\ runtime' = [state |-> IF NeedsRuntime(current) THEN "RUNNING" ELSE "STOPPED",
                            plan |-> current.plan]
             /\ Goto("rb_mqtt")
    <3>1. \A k \in Sources(current) : Ready(k)
      BY <2>3 DEF NeedsRuntime, Sources
    <3> QED
      BY <1>0, <2>1, <2>3, <3>1, BackwardLive DEF Goto, Rollback, Transactions
  <2> QED
    BY <1>1, <2>2, <2>3 DEF RestoreRuntime
<1>2. CASE RestoreMqtt
  <2>1. tx.at = "rb_mqtt" /\ runtime' = runtime
        /\ (~tx.err => runtime.plan = current.plan)
    BY <1>2 DEF RestoreMqtt, AllLive, BackInv, Rollback
  <2>2. CASE ~tx.mqtt_reconfigured
    <3>1. Goto("rb_policy") /\ mqtt' = mqtt /\ mqtt = current.mqtt
      BY <1>2, <2>1, <2>2 DEF RestoreMqtt, AllLive, MqttInv
    <3> QED
      BY <1>0, <2>1, <3>1, BackwardLive DEF Goto, Rollback, Transactions
  <2>3. CASE tx.mqtt_reconfigured /\ mqtt' = current.mqtt /\ Goto("rb_policy")
    BY <1>0, <2>1, <2>3, BackwardLive DEF Goto, Rollback, Transactions
  <2>4. CASE tx.mqtt_reconfigured /\ tx' = [Note(TRUE) EXCEPT !.at = "rb_policy"]
    BY <1>0, <2>1, <2>4, BackwardLive DEF Note, Rollback, Transactions
  <2> QED
    BY <1>2, <2>2, <2>3, <2>4 DEF RestoreMqtt
<1>3. CASE RestorePolicy
  <2>1. /\ tx.at = "rb_policy" /\ runtime' = runtime /\ mqtt' = mqtt
        /\ (~tx.err => runtime.plan = current.plan /\ mqtt = current.mqtt)
    BY <1>3 DEF RestorePolicy, AllLive, BackInv, Rollback
  <2>2. Goto("rb_store") \/ tx' = [Note(TRUE) EXCEPT !.at = "rb_store"]
    BY <1>3 DEF RestorePolicy
  <2>3. CASE Goto("rb_store")
    BY <1>0, <2>1, <2>3, BackwardLive DEF Goto, Rollback, Transactions
  <2>4. CASE tx' = [Note(TRUE) EXCEPT !.at = "rb_store"]
    BY <1>0, <2>1, <2>4, BackwardLive DEF Note, Rollback, Transactions
  <2> QED
    BY <2>2, <2>3, <2>4
<1>4. CASE RestoreStored
  <2>1. /\ tx.at = "rb_store" /\ runtime' = runtime /\ mqtt' = mqtt
        /\ (~tx.err => runtime.plan = current.plan /\ mqtt = current.mqtt)
    BY <1>4 DEF RestoreStored, AllLive, BackInv, Rollback, live
  <2>2. Goto("rb_end") \/ tx' = [Note(TRUE) EXCEPT !.at = "rb_end"]
    BY <1>4 DEF RestoreStored
  <2>3. CASE Goto("rb_end")
    BY <1>0, <2>1, <2>3, BackwardLive DEF Goto, Rollback, Transactions
  <2>4. CASE tx' = [Note(TRUE) EXCEPT !.at = "rb_end"]
    BY <1>0, <2>1, <2>4, BackwardLive DEF Note, Rollback, Transactions
  <2> QED
    BY <2>2, <2>3, <2>4
<1> QED
  BY <1>1, <1>2, <1>3, <1>4

\* A commit finds every key of the candidate live, and an end without an error
\* every key of the configuration in force.
LEMMA CommitLive ==
  ASSUME Shape, GenerationInv, AllLive, Commit
  PROVE  AllLive'
<1> USE ShapeFields
<1>1. /\ tx.at = "commit" /\ tx.candidate \in Configs /\ current' = tx.candidate
      /\ modules' = modules /\ runtime' = runtime /\ mqtt' = mqtt /\ tx' = Free
  BY DEF Commit, GenerationInv, live
<1>2. \A k \in Keys : modules[k] = tx.candidate.modules[k]
  BY <1>1 DEF AllLive, ForwardInv, Forward, Changed, Kept
<1>3. modules = tx.candidate.modules
  BY <1>1, <1>2
<1>4. runtime.plan = tx.candidate.plan /\ mqtt = tx.candidate.mqtt
  BY <1>1 DEF AllLive, ForwardInv, Forward
<1> QED
  BY <1>1, <1>3, <1>4
  DEF AllLive, RestInv, ForwardInv, BackInv, MqttInv, Free, Forward, Rollback

LEMMA EndLive ==
  ASSUME Shape, AllLive, EndOfRollback, ~tx.err
  PROVE  AllLive'
<1> USE ShapeFields
<1>1. /\ tx.at = "rb_end" /\ current' = current
      /\ modules' = modules /\ runtime' = runtime /\ mqtt' = mqtt /\ tx' = Free
  BY DEF EndOfRollback, revision, live
<1>2. \A k \in Keys : modules[k] = current.modules[k]
  BY <1>1 DEF AllLive, BackInv, Rollback, Kept
<1>3. modules = current.modules
  BY <1>1, <1>2
<1>4. runtime.plan = current.plan /\ mqtt = current.mqtt
  BY <1>1 DEF AllLive, BackInv, Rollback
<1> QED
  BY <1>1, <1>3, <1>4
  DEF AllLive, RestInv, ForwardInv, BackInv, MqttInv, Free, Forward, Rollback

LEMMA BeginLive ==
  ASSUME Shape, AllLive, NEW c \in Callers, NEW candidate \in Candidates(c), Begin(c, candidate)
  PROVE  AllLive'
<1> USE ShapeFields
<1>1. /\ tx.at = "free" /\ current' = current /\ modules' = modules /\ mqtt' = mqtt
      /\ modules = current.modules /\ mqtt = current.mqtt
  BY DEF Begin, Accepted, AllLive, RestInv, revision
<1>2. /\ tx'.at \in {"remove", "rb_remove"} /\ tx'.removed = {} /\ tx'.added = {}
      /\ ~tx'.mqtt_reconfigured
  BY DEF Begin, Started, Free
<1>3. RestInv' /\ MqttInv'
  BY <1>1, <1>2 DEF RestInv, MqttInv
<1>4. ForwardInv' /\ BackInv'
  BY <1>1, <1>2 DEF ForwardInv, BackInv, Kept, Forward, Rollback
<1> QED
  BY <1>3, <1>4 DEF AllLive

LEMMA LiveStep ==
  ASSUME Shape, GenerationInv, LiveInv, [Next]_vars
  PROVE  LiveInv'
<1> SUFFICES ASSUME ~broken' PROVE AllLive'
  BY DEF LiveInv, AllLive
<1>1. CASE Reboot
  BY <1>1, ConfigAssumption
  DEF Reboot, AllLive, RestInv, ForwardInv, BackInv, MqttInv, Free, Forward, Rollback
<1>2. CASE ~Reboot
  <2>1. ~broken /\ (EndOfRollback => ~tx.err)
    <3>1. CASE EndOfRollback
      <4>1. broken' = (broken \/ tx.err)
        BY <3>1 DEF EndOfRollback
      <4> QED
        BY <4>1
    <3>2. CASE ~EndOfRollback
      <4>1. Commit \/ RemoveModule \/ AddModule \/ LoadRuntime \/ ConfigureMqtt
            \/ ApplyPolicy \/ Persist \/ StartRuntime => broken' = broken
        BY DEF RemoveModule, AddModule, LoadRuntime, ConfigureMqtt, ApplyPolicy, Persist,
                    StartRuntime, Commit, history
      <4>2. RollBackAdded \/ RestoreRemoved \/ RestoreRuntime \/ RestoreMqtt
            \/ RestorePolicy \/ RestoreStored => broken' = broken
        BY DEF RollBackAdded, RestoreRemoved, RestoreRuntime, RestoreMqtt, RestorePolicy,
                    RestoreStored, history
      <4>3. (\E c \in Callers : GetSnapshot(c) \/ Apply(c)) => broken' = broken
        BY DEF GetSnapshot, Apply, Refuse, Begin, StopTimesOut, history
      <4>4. ReadStored \/ Quiesce \/ Drained \/ UNCHANGED vars => broken' = broken
        BY DEF ReadStored, Quiesce, Drained, vars, history
      <4>5. broken' = broken
        BY <1>2, <3>2, <4>1, <4>2, <4>3, <4>4 DEF Next, Step
      <4> QED
        BY <3>2, <4>5
    <3> QED
      BY <3>1, <3>2
  <2>2. AllLive
    BY <2>1 DEF LiveInv, AllLive
  <2>3. CASE Step
    BY <2>1, <2>2, <2>3, RemoveLive, AddLive, OnwardSteps, CommitLive, RollBackAddedLive,
       RestoreRemovedLive, BackwardSteps, EndLive DEF Step
  <2>4. ASSUME NEW c \in Callers, GetSnapshot(c)
        PROVE  AllLive'
    BY <2>2, <2>4, UntouchedLive DEF GetSnapshot, revision, live
  <2>5. ASSUME NEW c \in Callers, Apply(c)
        PROVE  AllLive'
    <3>1. PICK candidate \in Candidates(c) :
            Refuse(c, candidate) \/ Begin(c, candidate) \/ StopTimesOut(c, candidate)
      BY <2>5 DEF Apply
    <3>2. CASE Refuse(c, candidate)
      BY <2>2, <3>2, UntouchedLive DEF Refuse, revision, live
    <3>3. CASE Begin(c, candidate)
      BY <2>2, <3>3, BeginLive
    <3>4. CASE StopTimesOut(c, candidate)
      BY <2>2, <3>4, ShapeFields, UntouchedLive DEF StopTimesOut, revision
    <3> QED
      BY <3>1, <3>2, <3>3, <3>4
  <2>6. CASE ReadStored \/ Quiesce \/ Drained \/ UNCHANGED vars
    BY <2>2, <2>6, ShapeFields, UntouchedLive
    DEF ReadStored, Quiesce, Drained, vars, revision, live
  <2> QED
    BY <1>2, <2>3, <2>4, <2>5, <2>6 DEF Next
<1> QED
  BY <1>1, <1>2

-----------------------------------------------------------------------------
(* Theorems                                                                 *)

IInv == Shape /\ GenerationInv /\ FlashInv /\ LiveInv

LEMMA Inductive == Spec => []IInv
<1>1. Init => IInv
  BY TypeInit, GenerationInit, FlashInit, LiveInit DEF IInv, LiveInv, AllLive
<1>2. IInv /\ [Next]_vars => IInv'
  BY TypeStep, GenerationStep, FlashStep, LiveStep DEF IInv
<1> QED
  BY <1>1, <1>2, PTL DEF Spec

\* The variables keep their types: above all, every live module is of a
\* configuration, in ERROR or absent, and the generation never passes its bound.
THEOREM TypeCorrect == Spec => []TypeOK
<1>1. IInv => TypeOK
  BY ShapeTypes DEF IInv
<1> QED
  BY <1>1, Inductive, PTL

\* Whatever power does, the record that was written is the reported configuration
\* or the candidate of the transaction in progress, for any set of callers.
THEOREM RecordIsWhole == Spec => []FlashIsWhole
<1>1. IInv => FlashIsWhole
  BY FlashConsequence DEF IInv
<1> QED
  BY <1>1, Inductive, PTL

\* A transaction that fails at any of its steps, over any number of modules, puts
\* modules, plan and MQTT settings back, unless it answers -EIO.
THEOREM RollbackRestores == Spec => []RestoredOrBroken
<1>1. IInv => RestoredOrBroken
  BY DEF IInv, LiveInv, RestInv, RestoredOrBroken
<1> QED
  BY <1>1, Inductive, PTL

\* Who commits had read the configuration that the commit replaces, whatever the
\* other callers and a reboot do.
THEOREM NothingIsLost == Spec => NoLostUpdate
<1>1. IInv => [tx.at = "commit" /\ generation' = generation + 1
                 => snapshot[tx.by].config = current]_vars
  BY DEF IInv, GenerationInv
<1> QED
  BY <1>1, Inductive, PTL DEF NoLostUpdate
=============================================================================
