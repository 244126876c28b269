------------------------ MODULE ModuleManager_proofs ------------------------
(***************************************************************************)
(* Safety of ModuleManager for every number of slots, threads and Ports.    *)
(*                                                                          *)
(* The properties are not inductive.  What makes them so is PhaseInv: the   *)
(* place of a thread inside an operation determines the flags of its slot.  *)
(* A thread can only enter a slot that is unclaimed, or used and not busy,  *)
(* and PhaseInv excludes both for the slot of another thread.               *)
(*                                                                          *)
(* The second half is about Runtime, whose worker, callers and hosts are    *)
(* the threads that call the Manager: what Runtime counts before and after  *)
(* a driver call (Quiet), and that every step of Runtime is a step of this  *)
(* module or leaves it alone, so that its safety carries over (RunInv).     *)
(***************************************************************************)
EXTENDS ModuleManager, RuntimeState, TLAPS

Configuring == {"acquire_port", "attach_power", "init_driver"}

\* What the place of a thread says about its slot
ThreadPhase(t) ==
    LET s == at[t] IN
    /\ pc[t] \in Configuring =>
          ~slots[s].used /\ slots[s].reserved /\ s \notin contexts
    /\ pc[t] \in DriverCalls =>
          slots[s].used /\ slots[s].busy /\ s \in contexts
    /\ pc[t] \in Rollback =>
          /\ (~slots[s].used /\ slots[s].reserved) \/ (slots[s].used /\ slots[s].busy)
          /\ s \notin contexts
    /\ pc[t] \in {"deinit"} \cup Rollback => ~slots[s].events_started

\* What the flags of a slot say, whoever works on it
SlotPhase(s) ==
    /\ Claimed(s) => Request(s) \in Requests
    /\ ~Claimed(s) => s \notin contexts
    /\ slots[s].used /\ ~slots[s].busy => s \in contexts
    /\ slots[s].events_started => slots[s].used
    /\ s \in armed => s \in contexts /\ slots[s].events_started

PhaseInv ==
    /\ \A t \in Threads : ThreadPhase(t)
    /\ \A s \in Slots : SlotPhase(s)

\* Two threads inside operations are in different slots.
SlotsApart ==
    \A t, u \in Threads : t # u /\ pc[t] # "idle" /\ pc[u] # "idle" => at[t] # at[u]

SafeInv == TypeOK /\ PhaseInv /\ SlotsApart

-----------------------------------------------------------------------------
\* Whether two endpoints collide does not depend on which one asks.
LEMMA ConflictSymmetric ==
    ASSUME NEW e, NEW f, EndpointsConflict(e, f)
    PROVE  EndpointsConflict(f, e)
  BY DEF EndpointsConflict

LEMMA RequestFields ==
    ASSUME NEW r \in Requests
    PROVE  r.key \in Owners /\ r.port \in Ports /\ r.rail \in BOOLEAN
  BY ManagerAssumption DEF RequestType

LEMMA ZeroSlot == 0 \in Slots
  BY ManagerAssumption DEF Slots

LEMMA InitSafe == Init => SafeInv
  BY PortAssumption, ManagerAssumption
  DEF Init, SafeInv, TypeOK, PortTypeOK, PortInit, SlotType, Cleared, ModuleStates,
      Slots, PhaseInv, ThreadPhase, SlotPhase, SlotsApart, Claimed, Request,
      Configuring, DriverCalls, Rollback, Steps

LEMMA NextSequenceInRange ==
    ASSUME NEW n \in 0 .. MaxSequence PROVE NextSequence(n) \in 0 .. MaxSequence
  BY ManagerAssumption DEF NextSequence

-----------------------------------------------------------------------------
(* The steps of an operation that has begun *)

\* Steps that change nothing but the place of the thread
QuietStep(t) ==
    SkipPort(t) \/ PortRefused(t) \/ SkipPower(t) \/ PowerRefused(t) \/ InitFails(t) \/ SkipStop(t)

LEMMA QuietStepSafe == ASSUME SafeInv, NEW t \in Threads, QuietStep(t) PROVE SafeInv'
<1>1. PICK step \in Steps :
         /\ pc' = [pc EXCEPT ![t] = step]
         /\ pc[t] # "idle"
         /\ pc[t] \in Configuring => step \in Configuring \cup Rollback
         /\ pc[t] \notin Configuring =>
               pc[t] = "stop_driver" /\ step = "deinit" /\ ~slots[at[t]].events_started
  BY DEF QuietStep, SkipPort, PortRefused, SkipPower, PowerRefused, InitFails, SkipStop, Goto,
         Steps, Configuring, Rollback, DriverCalls
<1>2. UNCHANGED <<owners, transport, slots, at, loads, contexts, armed>>
  BY DEF QuietStep, SkipPort, PortRefused, PortRefuse, SkipPower, PowerRefused, InitFails,
         SkipStop, portVars, externals
<1>3. TypeOK'
  BY <1>1, <1>2 DEF SafeInv, TypeOK, PortTypeOK
<1>4. \A u \in Threads : ThreadPhase(u)'
  BY <1>1, <1>2 DEF SafeInv, TypeOK, PhaseInv, ThreadPhase, SlotPhase, SlotType, Claimed,
                    Configuring, DriverCalls, Rollback
<1>5. \A s \in Slots : SlotPhase(s)'
  BY <1>2 DEF SafeInv, PhaseInv, SlotPhase, Claimed, Request
<1>6. SlotsApart'
  BY <1>1, <1>2 DEF SafeInv, TypeOK, SlotsApart
<1> QED BY <1>3, <1>4, <1>5, <1>6 DEF SafeInv, PhaseInv

LEMMA AcquirePortSafe == ASSUME SafeInv, NEW t \in Threads, AcquirePort(t) PROVE SafeInv'
<1> USE DEF SafeInv, Goto, Leave, externals
<1>1. TypeOK'
  <2>1. at[t] \in Slots /\ slots[at[t]] \in SlotType
    BY DEF TypeOK
  <2>2. PortTypeOK'
    <3>1. TransportOf(Request(at[t])) \in Transports
      BY PortAssumption, RequestFields, <2>1
      DEF PhaseInv, SlotPhase, ThreadPhase, Claimed, Configuring, PortAcquire, MayAcquire,
      AcquirePort
    <3>2. Request(at[t]).key \in Owners
      BY RequestFields, <2>1 DEF PhaseInv, ThreadPhase, SlotPhase, Claimed, Configuring,
         AcquirePort
    <3> QED BY <3>1, <3>2 DEF TypeOK, PortTypeOK, PortAcquire, AcquirePort
  <2>3. slots' \in [Slots -> SlotType]
    BY DEF TypeOK, AcquirePort
  <2>4. pc' \in [Threads -> Steps \cup {"idle"}] /\ at' \in [Threads -> Slots]
    BY DEF TypeOK, Steps, DriverCalls, Rollback, AcquirePort
  <2>5. loads' \subseteq Slots /\ contexts' \subseteq Slots /\ armed' \subseteq Slots
    BY <2>1 DEF TypeOK, AcquirePort
  <2> QED BY <2>2, <2>3, <2>4, <2>5 DEF TypeOK
<1>2. \A u \in Threads : ThreadPhase(u)'
  BY DEF TypeOK, PhaseInv, ThreadPhase, SlotPhase, SlotsApart, SlotType, Claimed, Configuring,
         DriverCalls, Rollback, Steps, AcquirePort
<1>3. \A s \in Slots : SlotPhase(s)'
  BY DEF TypeOK, PhaseInv, ThreadPhase, SlotPhase, SlotType, Claimed, Request, Configuring,
         DriverCalls, Rollback, AcquirePort
<1>4. SlotsApart'
  BY DEF TypeOK, SlotsApart, AcquirePort
<1> QED BY <1>1, <1>2, <1>3, <1>4 DEF PhaseInv

LEMMA AttachPowerSafe == ASSUME SafeInv, NEW t \in Threads, AttachPower(t) PROVE SafeInv'
<1> USE DEF SafeInv, Goto, Leave, externals
<1>1. TypeOK'
  <2>1. at[t] \in Slots /\ slots[at[t]] \in SlotType
    BY DEF TypeOK
  <2>2. PortTypeOK'
    BY DEF TypeOK, PortTypeOK, portVars, AttachPower
  <2>3. slots' \in [Slots -> SlotType]
    BY DEF TypeOK, AttachPower
  <2>4. pc' \in [Threads -> Steps \cup {"idle"}] /\ at' \in [Threads -> Slots]
    BY DEF TypeOK, Steps, DriverCalls, Rollback, AttachPower
  <2>5. loads' \subseteq Slots /\ contexts' \subseteq Slots /\ armed' \subseteq Slots
    BY <2>1 DEF TypeOK, AttachPower
  <2> QED BY <2>2, <2>3, <2>4, <2>5 DEF TypeOK
<1>2. \A u \in Threads : ThreadPhase(u)'
  BY DEF TypeOK, PhaseInv, ThreadPhase, SlotPhase, SlotsApart, SlotType, Claimed, Configuring,
         DriverCalls, Rollback, Steps, AttachPower
<1>3. \A s \in Slots : SlotPhase(s)'
  BY DEF TypeOK, PhaseInv, ThreadPhase, SlotPhase, SlotType, Claimed, Request, Configuring,
         DriverCalls, Rollback, AttachPower
<1>4. SlotsApart'
  BY DEF TypeOK, SlotsApart, AttachPower
<1> QED BY <1>1, <1>2, <1>3, <1>4 DEF PhaseInv

LEMMA InitDriverSafe == ASSUME SafeInv, NEW t \in Threads, InitDriver(t) PROVE SafeInv'
<1> USE DEF SafeInv, Goto, Leave, externals
<1>1. TypeOK'
  <2>1. at[t] \in Slots /\ slots[at[t]] \in SlotType
    BY DEF TypeOK
  <2>2. PortTypeOK'
    BY DEF TypeOK, PortTypeOK, portVars, InitDriver
  <2>3. [slots[at[t]] EXCEPT !.used = TRUE, !.reserved = FALSE, !.state = "READY",
                         !.power_attached = Request(at[t]).rail] \in SlotType
    BY RequestFields, <2>1 DEF SlotType, ModuleStates, PhaseInv, ThreadPhase, SlotPhase,
       Claimed, Request, Configuring, InitDriver
  <2>4. slots' \in [Slots -> SlotType]
    BY <2>1, <2>3 DEF TypeOK, InitDriver
  <2>5. pc' \in [Threads -> Steps \cup {"idle"}] /\ at' \in [Threads -> Slots]
    BY ZeroSlot DEF TypeOK, Steps, DriverCalls, Rollback, InitDriver
  <2>6. loads' \subseteq Slots /\ contexts' \subseteq Slots /\ armed' \subseteq Slots
    BY <2>1 DEF TypeOK, InitDriver
  <2> QED BY <2>2, <2>4, <2>5, <2>6 DEF TypeOK
<1>2. \A u \in Threads : ThreadPhase(u)'
  BY DEF TypeOK, PhaseInv, ThreadPhase, SlotPhase, SlotsApart, SlotType, Claimed, Configuring,
         DriverCalls, Rollback, Steps, InitDriver
<1>3. \A s \in Slots : SlotPhase(s)'
  BY DEF TypeOK, PhaseInv, ThreadPhase, SlotPhase, SlotType, Claimed, Request, Configuring,
         DriverCalls, Rollback, InitDriver
<1>4. SlotsApart'
  BY DEF TypeOK, SlotsApart, InitDriver
<1> QED BY <1>1, <1>2, <1>3, <1>4 DEF PhaseInv

LEMMA StopDriverSafe == ASSUME SafeInv, NEW t \in Threads, StopDriver(t) PROVE SafeInv'
<1> USE DEF SafeInv, Goto, Leave, externals
<1>1. TypeOK'
  <2>1. at[t] \in Slots /\ slots[at[t]] \in SlotType
    BY DEF TypeOK
  <2>2. PortTypeOK'
    BY DEF TypeOK, PortTypeOK, portVars, StopDriver
  <2>3. [slots[at[t]] EXCEPT !.events_started = FALSE] \in SlotType
    BY <2>1 DEF SlotType
  <2>4. slots' \in [Slots -> SlotType]
    BY <2>1, <2>3 DEF TypeOK, StopDriver
  <2>5. pc' \in [Threads -> Steps \cup {"idle"}] /\ at' \in [Threads -> Slots]
    BY DEF TypeOK, Steps, DriverCalls, Rollback, StopDriver
  <2>6. loads' \subseteq Slots /\ contexts' \subseteq Slots /\ armed' \subseteq Slots
    BY <2>1 DEF TypeOK, StopDriver
  <2> QED BY <2>2, <2>4, <2>5, <2>6 DEF TypeOK
<1>2. \A u \in Threads : ThreadPhase(u)'
  BY DEF TypeOK, PhaseInv, ThreadPhase, SlotPhase, SlotsApart, SlotType, Claimed, Configuring,
         DriverCalls, Rollback, Steps, StopDriver
<1>3. \A s \in Slots : SlotPhase(s)'
  BY DEF TypeOK, PhaseInv, ThreadPhase, SlotPhase, SlotType, Claimed, Request, Configuring,
         DriverCalls, Rollback, StopDriver
<1>4. SlotsApart'
  BY DEF TypeOK, SlotsApart, StopDriver
<1> QED BY <1>1, <1>2, <1>3, <1>4 DEF PhaseInv

LEMMA StopFailsSafe == ASSUME SafeInv, NEW t \in Threads, StopFails(t) PROVE SafeInv'
<1> USE DEF SafeInv, Goto, Leave, externals
<1>1. TypeOK'
  <2>1. at[t] \in Slots /\ slots[at[t]] \in SlotType
    BY DEF TypeOK
  <2>2. PortTypeOK'
    BY DEF TypeOK, PortTypeOK, portVars, StopFails
  <2>3. [slots[at[t]] EXCEPT !.state = "ERROR", !.busy = FALSE] \in SlotType
    BY <2>1 DEF SlotType, ModuleStates
  <2>4. slots' \in [Slots -> SlotType]
    BY <2>1, <2>3 DEF TypeOK, StopFails
  <2>5. pc' \in [Threads -> Steps \cup {"idle"}] /\ at' \in [Threads -> Slots]
    BY ZeroSlot DEF TypeOK, Steps, DriverCalls, Rollback, StopFails
  <2>6. loads' \subseteq Slots /\ contexts' \subseteq Slots /\ armed' \subseteq Slots
    BY <2>1 DEF TypeOK, StopFails
  <2> QED BY <2>2, <2>4, <2>5, <2>6 DEF TypeOK
<1>2. ASSUME NEW u \in Threads PROVE ThreadPhase(u)'
  <2>1. CASE u = t
    BY <2>1 DEF TypeOK, PhaseInv, ThreadPhase, SlotType, Claimed, Configuring,
                DriverCalls, Rollback, Steps, StopFails
  <2>2. CASE u # t
    BY <2>2 DEF TypeOK, PhaseInv, ThreadPhase, SlotPhase, SlotsApart, SlotType, Claimed,
                Configuring, DriverCalls, Rollback, Steps, StopFails
  <2> QED BY <2>1, <2>2
<1>3. \A s \in Slots : SlotPhase(s)'
  BY DEF TypeOK, PhaseInv, ThreadPhase, SlotPhase, SlotType, Claimed, Request, Configuring,
         DriverCalls, Rollback, StopFails
<1>4. SlotsApart'
  BY DEF TypeOK, SlotsApart, StopFails
<1> QED BY <1>1, <1>2, <1>3, <1>4 DEF PhaseInv

LEMMA DeinitSafe == ASSUME SafeInv, NEW t \in Threads, Deinit(t) PROVE SafeInv'
<1> USE DEF SafeInv, Goto, Leave, externals
<1>1. TypeOK'
  <2>1. at[t] \in Slots /\ slots[at[t]] \in SlotType
    BY DEF TypeOK
  <2>2. PortTypeOK'
    BY DEF TypeOK, PortTypeOK, portVars, Deinit
  <2>3. slots' \in [Slots -> SlotType]
    BY DEF TypeOK, Deinit
  <2>4. pc' \in [Threads -> Steps \cup {"idle"}] /\ at' \in [Threads -> Slots]
    BY DEF TypeOK, Steps, DriverCalls, Rollback, Deinit
  <2>5. loads' \subseteq Slots /\ contexts' \subseteq Slots /\ armed' \subseteq Slots
    BY <2>1 DEF TypeOK, Deinit
  <2> QED BY <2>2, <2>3, <2>4, <2>5 DEF TypeOK
<1>2. \A u \in Threads : ThreadPhase(u)'
  BY DEF TypeOK, PhaseInv, ThreadPhase, SlotPhase, SlotsApart, SlotType, Claimed, Configuring,
         DriverCalls, Rollback, Steps, Deinit
<1>3. \A s \in Slots : SlotPhase(s)'
  BY DEF TypeOK, PhaseInv, ThreadPhase, SlotPhase, SlotType, Claimed, Request, Configuring,
         DriverCalls, Rollback, Deinit
<1>4. SlotsApart'
  BY DEF TypeOK, SlotsApart, Deinit
<1> QED BY <1>1, <1>2, <1>3, <1>4 DEF PhaseInv

LEMMA DetachPowerSafe == ASSUME SafeInv, NEW t \in Threads, DetachPower(t) PROVE SafeInv'
<1> USE DEF SafeInv, Goto, Leave, externals
<1>1. TypeOK'
  <2>1. at[t] \in Slots /\ slots[at[t]] \in SlotType
    BY DEF TypeOK
  <2>2. PortTypeOK'
    BY DEF TypeOK, PortTypeOK, portVars, DetachPower
  <2>3. [slots[at[t]] EXCEPT !.power_attached = FALSE] \in SlotType
    BY <2>1 DEF SlotType
  <2>4. slots' \in [Slots -> SlotType]
    BY <2>1, <2>3 DEF TypeOK, DetachPower
  <2>5. pc' \in [Threads -> Steps \cup {"idle"}] /\ at' \in [Threads -> Slots]
    BY DEF TypeOK, Steps, DriverCalls, Rollback, DetachPower
  <2>6. loads' \subseteq Slots /\ contexts' \subseteq Slots /\ armed' \subseteq Slots
    BY <2>1 DEF TypeOK, DetachPower
  <2> QED BY <2>2, <2>4, <2>5, <2>6 DEF TypeOK
<1>2. \A u \in Threads : ThreadPhase(u)'
  BY DEF TypeOK, PhaseInv, ThreadPhase, SlotPhase, SlotsApart, SlotType, Claimed, Configuring,
         DriverCalls, Rollback, Steps, DetachPower
<1>3. \A s \in Slots : SlotPhase(s)'
  BY DEF TypeOK, PhaseInv, ThreadPhase, SlotPhase, SlotType, Claimed, Request, Configuring,
         DriverCalls, Rollback, DetachPower
<1>4. SlotsApart'
  BY DEF TypeOK, SlotsApart, DetachPower
<1> QED BY <1>1, <1>2, <1>3, <1>4 DEF PhaseInv

LEMMA ReleasePortSafe == ASSUME SafeInv, NEW t \in Threads, ReleasePort(t) PROVE SafeInv'
<1> USE DEF SafeInv, Goto, Leave, externals
<1>1. TypeOK'
  <2>1. at[t] \in Slots /\ slots[at[t]] \in SlotType
    BY DEF TypeOK
  <2>2. PortTypeOK'
    BY DEF TypeOK, PortTypeOK, portVars, PortRelease, ReleasePort
  <2>3. slots' \in [Slots -> SlotType]
    BY DEF TypeOK, ReleasePort
  <2>4. pc' \in [Threads -> Steps \cup {"idle"}] /\ at' \in [Threads -> Slots]
    BY DEF TypeOK, Steps, DriverCalls, Rollback, ReleasePort
  <2>5. loads' \subseteq Slots /\ contexts' \subseteq Slots /\ armed' \subseteq Slots
    BY <2>1 DEF TypeOK, ReleasePort
  <2> QED BY <2>2, <2>3, <2>4, <2>5 DEF TypeOK
<1>2. \A u \in Threads : ThreadPhase(u)'
  BY DEF TypeOK, PhaseInv, ThreadPhase, SlotPhase, SlotsApart, SlotType, Claimed, Configuring,
         DriverCalls, Rollback, Steps, ReleasePort
<1>3. \A s \in Slots : SlotPhase(s)'
  BY DEF TypeOK, PhaseInv, ThreadPhase, SlotPhase, SlotType, Claimed, Request, Configuring,
         DriverCalls, Rollback, ReleasePort
<1>4. SlotsApart'
  BY DEF TypeOK, SlotsApart, ReleasePort
<1> QED BY <1>1, <1>2, <1>3, <1>4 DEF PhaseInv

LEMMA ClearSlotSafe == ASSUME SafeInv, NEW t \in Threads, ClearSlot(t) PROVE SafeInv'
<1> USE DEF SafeInv, Goto, Leave, externals
<1>1. TypeOK'
  <2>1. at[t] \in Slots /\ slots[at[t]] \in SlotType
    BY DEF TypeOK
  <2>2. PortTypeOK'
    BY DEF TypeOK, PortTypeOK, portVars, ClearSlot
  <2>3. Cleared \in SlotType
    BY ManagerAssumption, <2>1 DEF SlotType, Cleared, ModuleStates
  <2>4. slots' \in [Slots -> SlotType]
    BY <2>1, <2>3 DEF TypeOK, ClearSlot
  <2>5. pc' \in [Threads -> Steps \cup {"idle"}] /\ at' \in [Threads -> Slots]
    BY ZeroSlot DEF TypeOK, Steps, DriverCalls, Rollback, ClearSlot
  <2>6. loads' \subseteq Slots /\ contexts' \subseteq Slots /\ armed' \subseteq Slots
    BY <2>1 DEF TypeOK, ClearSlot
  <2> QED BY <2>2, <2>4, <2>5, <2>6 DEF TypeOK
<1>2. \A u \in Threads : ThreadPhase(u)'
  BY DEF TypeOK, PhaseInv, ThreadPhase, SlotPhase, SlotsApart, SlotType, Claimed, Configuring,
         DriverCalls, Rollback, Steps, ClearSlot
<1>3. \A s \in Slots : SlotPhase(s)'
  BY DEF TypeOK, PhaseInv, ThreadPhase, SlotPhase, SlotType, Claimed, Request, Configuring,
         DriverCalls, Rollback, ClearSlot, Cleared
<1>4. SlotsApart'
  BY DEF TypeOK, SlotsApart, ClearSlot
<1> QED BY <1>1, <1>2, <1>3, <1>4 DEF PhaseInv

LEMMA FinishReadSafe == ASSUME SafeInv, NEW t \in Threads, FinishRead(t) PROVE SafeInv'
<1> USE DEF SafeInv, Goto, Leave, externals
<1>1. TypeOK'
  <2>1. at[t] \in Slots /\ slots[at[t]] \in SlotType
    BY DEF TypeOK
  <2>2. PortTypeOK'
    BY DEF TypeOK, PortTypeOK, portVars, FinishRead, Return
  <2>3. [slots[at[t]] EXCEPT !.read_sequence = NextSequence(@), !.busy = FALSE] \in SlotType
    BY NextSequenceInRange, <2>1 DEF SlotType
  <2>4. slots' \in [Slots -> SlotType]
    BY <2>1, <2>3 DEF TypeOK, FinishRead, Return
  <2>5. pc' \in [Threads -> Steps \cup {"idle"}] /\ at' \in [Threads -> Slots]
    BY ZeroSlot DEF TypeOK, Steps, DriverCalls, Rollback, FinishRead, Return
  <2>6. loads' \subseteq Slots /\ contexts' \subseteq Slots /\ armed' \subseteq Slots
    BY <2>1 DEF TypeOK, FinishRead, Return
  <2> QED BY <2>2, <2>4, <2>5, <2>6 DEF TypeOK
<1>2. \A u \in Threads : ThreadPhase(u)'
  BY DEF TypeOK, PhaseInv, ThreadPhase, SlotPhase, SlotsApart, SlotType, Claimed, Configuring,
         DriverCalls, Rollback, Steps, FinishRead, Return
<1>3. \A s \in Slots : SlotPhase(s)'
  BY DEF TypeOK, PhaseInv, ThreadPhase, SlotPhase, SlotType, Claimed, Request, Configuring,
         DriverCalls, Rollback, FinishRead, Return
<1>4. SlotsApart'
  BY DEF TypeOK, SlotsApart, FinishRead, Return
<1> QED BY <1>1, <1>2, <1>3, <1>4 DEF PhaseInv

LEMMA FinishStartEventsSafe ==
    ASSUME SafeInv, NEW t \in Threads, FinishStartEvents(t)
    PROVE  SafeInv'
<1> USE DEF SafeInv, Goto, Leave, externals
<1>1. TypeOK'
  <2>1. at[t] \in Slots /\ slots[at[t]] \in SlotType
    BY DEF TypeOK
  <2>2. PortTypeOK'
    BY DEF TypeOK, PortTypeOK, portVars, FinishStartEvents, Return
  <2>3. [slots[at[t]] EXCEPT !.events_started = TRUE, !.busy = FALSE] \in SlotType
    BY <2>1 DEF SlotType
  <2>4. slots' \in [Slots -> SlotType]
    BY <2>1, <2>3 DEF TypeOK, FinishStartEvents, Return
  <2>5. pc' \in [Threads -> Steps \cup {"idle"}] /\ at' \in [Threads -> Slots]
    BY ZeroSlot DEF TypeOK, Steps, DriverCalls, Rollback, FinishStartEvents, Return
  <2>6. loads' \subseteq Slots /\ contexts' \subseteq Slots /\ armed' \subseteq Slots
    BY <2>1 DEF TypeOK, FinishStartEvents, Return
  <2> QED BY <2>2, <2>4, <2>5, <2>6 DEF TypeOK
<1>2. \A u \in Threads : ThreadPhase(u)'
  BY DEF TypeOK, PhaseInv, ThreadPhase, SlotPhase, SlotsApart, SlotType, Claimed, Configuring,
         DriverCalls, Rollback, Steps, FinishStartEvents, Return
<1>3. \A s \in Slots : SlotPhase(s)'
  BY DEF TypeOK, PhaseInv, ThreadPhase, SlotPhase, SlotType, Claimed, Request, Configuring,
         DriverCalls, Rollback, FinishStartEvents, Return
<1>4. SlotsApart'
  BY DEF TypeOK, SlotsApart, FinishStartEvents, Return
<1> QED BY <1>1, <1>2, <1>3, <1>4 DEF PhaseInv

LEMMA FinishStopEventsSafe ==
    ASSUME SafeInv, NEW t \in Threads, FinishStopEvents(t)
    PROVE  SafeInv'
<1> USE DEF SafeInv, Goto, Leave, externals
<1>1. TypeOK'
  <2>1. at[t] \in Slots /\ slots[at[t]] \in SlotType
    BY DEF TypeOK
  <2>2. PortTypeOK'
    BY DEF TypeOK, PortTypeOK, portVars, FinishStopEvents, Return
  <2>3. [slots[at[t]] EXCEPT !.events_started = FALSE, !.busy = FALSE] \in SlotType
    BY <2>1 DEF SlotType
  <2>4. slots' \in [Slots -> SlotType]
    BY <2>1, <2>3 DEF TypeOK, FinishStopEvents, Return
  <2>5. pc' \in [Threads -> Steps \cup {"idle"}] /\ at' \in [Threads -> Slots]
    BY ZeroSlot DEF TypeOK, Steps, DriverCalls, Rollback, FinishStopEvents, Return
  <2>6. loads' \subseteq Slots /\ contexts' \subseteq Slots /\ armed' \subseteq Slots
    BY <2>1 DEF TypeOK, FinishStopEvents, Return
  <2> QED BY <2>2, <2>4, <2>5, <2>6 DEF TypeOK
<1>2. \A u \in Threads : ThreadPhase(u)'
  BY DEF TypeOK, PhaseInv, ThreadPhase, SlotPhase, SlotsApart, SlotType, Claimed, Configuring,
         DriverCalls, Rollback, Steps, FinishStopEvents, Return
<1>3. \A s \in Slots : SlotPhase(s)'
  BY DEF TypeOK, PhaseInv, ThreadPhase, SlotPhase, SlotType, Claimed, Request, Configuring,
         DriverCalls, Rollback, FinishStopEvents, Return
<1>4. SlotsApart'
  BY DEF TypeOK, SlotsApart, FinishStopEvents, Return
<1> QED BY <1>1, <1>2, <1>3, <1>4 DEF PhaseInv

LEMMA FinishUnchangedSafe ==
    ASSUME SafeInv, NEW t \in Threads, FinishUnchanged(t)
    PROVE  SafeInv'
<1> USE DEF SafeInv, Goto, Leave, externals
<1>1. TypeOK'
  <2>1. at[t] \in Slots /\ slots[at[t]] \in SlotType
    BY DEF TypeOK
  <2>2. PortTypeOK'
    BY DEF TypeOK, PortTypeOK, portVars, FinishUnchanged, Return
  <2>3. [slots[at[t]] EXCEPT !.busy = FALSE] \in SlotType
    BY <2>1 DEF SlotType
  <2>4. slots' \in [Slots -> SlotType]
    BY <2>1, <2>3 DEF TypeOK, FinishUnchanged, Return
  <2>5. pc' \in [Threads -> Steps \cup {"idle"}] /\ at' \in [Threads -> Slots]
    BY ZeroSlot DEF TypeOK, Steps, DriverCalls, Rollback, FinishUnchanged, Return
  <2>6. loads' \subseteq Slots /\ contexts' \subseteq Slots /\ armed' \subseteq Slots
    BY <2>1 DEF TypeOK, FinishUnchanged, Return
  <2> QED BY <2>2, <2>4, <2>5, <2>6 DEF TypeOK
<1>2. \A u \in Threads : ThreadPhase(u)'
  BY DEF TypeOK, PhaseInv, ThreadPhase, SlotPhase, SlotsApart, SlotType, Claimed, Configuring,
         DriverCalls, Rollback, Steps, FinishUnchanged, Return
<1>3. \A s \in Slots : SlotPhase(s)'
  BY DEF TypeOK, PhaseInv, ThreadPhase, SlotPhase, SlotType, Claimed, Request, Configuring,
         DriverCalls, Rollback, FinishUnchanged, Return
<1>4. SlotsApart'
  BY DEF TypeOK, SlotsApart, FinishUnchanged, Return
<1> QED BY <1>1, <1>2, <1>3, <1>4 DEF PhaseInv

-----------------------------------------------------------------------------
(* The steps that enter a slot *)

LEMMA ReserveSafe == ASSUME SafeInv, NEW t \in Threads, NEW r \in Requests, Reserve(t, r)
                     PROVE SafeInv'
<1> USE DEF SafeInv, Goto, Leave, externals
<1>1. PICK s \in Slots :
         /\ ~Claimed(s)
         /\ slots' = [slots EXCEPT ![s] = [Cleared EXCEPT !.reserved = TRUE, !.request = r]]
         /\ at' = [at EXCEPT ![t] = s]
  BY DEF Reserve
<1>2. TypeOK'
  <2>1. PortTypeOK'
    BY DEF TypeOK, PortTypeOK, portVars, Reserve
  <2>2. [Cleared EXCEPT !.reserved = TRUE, !.request = r] \in SlotType
    <3>1. Cleared \in SlotType
      BY ManagerAssumption DEF SlotType, Cleared, ModuleStates
    <3> QED BY <3>1 DEF SlotType
  <2>3. slots' \in [Slots -> SlotType] /\ at' \in [Threads -> Slots]
    BY <1>1, <2>2 DEF TypeOK
  <2>4. pc' \in [Threads -> Steps \cup {"idle"}]
    BY DEF TypeOK, Steps, Reserve
  <2>5. loads' \subseteq Slots /\ contexts' \subseteq Slots /\ armed' \subseteq Slots
    BY DEF TypeOK, Reserve
  <2> QED BY <2>1, <2>3, <2>4, <2>5 DEF TypeOK
<1>3. ASSUME NEW u \in Threads, u # t, pc[u] # "idle" PROVE at[u] # s
  BY <1>1, <1>3 DEF TypeOK, PhaseInv, ThreadPhase, Claimed, Configuring, DriverCalls,
     Rollback, Steps
<1>4. \A u \in Threads : ThreadPhase(u)'
  BY <1>1, <1>3 DEF TypeOK, PhaseInv, ThreadPhase, SlotPhase, Cleared, Configuring,
                    DriverCalls, Rollback, Steps, Reserve
<1>5. \A q \in Slots : SlotPhase(q)'
  BY <1>1 DEF TypeOK, PhaseInv, SlotPhase, Claimed, Request, Cleared, Reserve
<1>6. SlotsApart'
  BY <1>1, <1>3 DEF TypeOK, SlotsApart, Reserve
<1> QED BY <1>2, <1>4, <1>5, <1>6 DEF PhaseInv

\* Entering a Module that is used and not busy is safe whatever the thread does there
\* first, as long as it is a call into the driver that respects events_started.
LEMMA EnterSafe ==
    ASSUME SafeInv, NEW t \in Threads, NEW s \in Slots, NEW op \in DriverCalls \ {"deinit"},
           pc[t] = "idle", Available(s),
           slots' = [slots EXCEPT ![s].busy = TRUE],
           at' = [at EXCEPT ![t] = s],
           Goto(t, op),
           UNCHANGED <<portVars, externals>>
    PROVE  SafeInv'
<1> USE DEF SafeInv, Goto, Leave, externals, Available
<1>1. TypeOK'
  <2>1. PortTypeOK'
    BY DEF TypeOK, PortTypeOK, portVars
  <2>2. [slots[s] EXCEPT !.busy = TRUE] \in SlotType
    BY DEF TypeOK, SlotType
  <2>3. slots' \in [Slots -> SlotType] /\ at' \in [Threads -> Slots]
    BY <2>2 DEF TypeOK
  <2>4. pc' \in [Threads -> Steps \cup {"idle"}]
    BY DEF TypeOK, Steps
  <2> QED BY <2>1, <2>3, <2>4 DEF TypeOK
<1>2. ASSUME NEW u \in Threads, u # t, pc[u] # "idle" PROVE at[u] # s
  BY <1>2 DEF TypeOK, PhaseInv, ThreadPhase, Configuring, DriverCalls, Rollback, Steps
<1>3. \A u \in Threads : ThreadPhase(u)'
  BY <1>2 DEF TypeOK, PhaseInv, ThreadPhase, SlotPhase, SlotType, Configuring, DriverCalls,
              Rollback, Steps
<1>4. \A q \in Slots : SlotPhase(q)'
  BY DEF TypeOK, PhaseInv, SlotPhase, SlotType, Claimed, Request
<1>5. SlotsApart'
  BY <1>2 DEF TypeOK, SlotsApart
<1> QED BY <1>1, <1>3, <1>4, <1>5 DEF PhaseInv

LEMMA ContinueSafe == ASSUME SafeInv, NEW t \in Threads, Continue(t) PROVE SafeInv'
  BY QuietStepSafe, AcquirePortSafe, AttachPowerSafe, InitDriverSafe, StopDriverSafe,
     StopFailsSafe, DeinitSafe, DetachPowerSafe, ReleasePortSafe, ClearSlotSafe,
     FinishReadSafe, FinishStartEventsSafe, FinishStopEventsSafe, FinishUnchangedSafe
  DEF Continue, QuietStep

LEMMA BeginSafe == ASSUME SafeInv, NEW t \in Threads, Begin(t) PROVE SafeInv'
<1>1. ASSUME NEW r \in Requests, Reserve(t, r) PROVE SafeInv'
  BY <1>1, ReserveSafe
<1>2. ASSUME NEW s \in Slots, NEW r \in Requests, BeginRemove(t, s, r.revision) PROVE SafeInv'
  BY <1>2, EnterSafe DEF BeginRemove, DriverCalls
<1>3. ASSUME NEW s \in Slots, NEW op \in {"read", "command", "start_events", "stop_events"},
             Borrow(t, s, op)
      PROVE SafeInv'
  BY <1>3, EnterSafe DEF Borrow, DriverCalls
<1> QED BY <1>1, <1>2, <1>3 DEF Begin

LEMMA StutterSafe == ASSUME SafeInv, UNCHANGED vars PROVE SafeInv'
  BY DEF vars, SafeInv, TypeOK, PortTypeOK, PhaseInv, ThreadPhase, SlotPhase, SlotsApart,
         Claimed, Request

\* The strengthened invariant holds in every reachable state.
THEOREM Safety == Spec => []SafeInv
<1>1. Init => SafeInv
  BY InitSafe
<1>2. SafeInv /\ [Next]_vars => SafeInv'
  BY ContinueSafe, BeginSafe, StutterSafe DEF Next
<1> QED BY <1>1, <1>2, PTL DEF Spec

\* Every variable keeps its type: the fixed slot pool is never indexed outside
\* its bounds and read_sequence never leaves its range.
THEOREM TypeCorrect == Spec => []TypeOK
  BY Safety, PTL DEF SafeInv

\* No two threads are ever inside an operation on the same slot.
THEOREM MutualExclusion == Spec => []OneThreadPerModule
<1>1. SafeInv => OneThreadPerModule
  BY DEF SafeInv, SlotsApart, OneThreadPerModule, Working
<1> QED BY <1>1, Safety, PTL

\* A driver is only ever entered with a context that its init() built and its
\* deinit() has not yet destroyed.
THEOREM NoDeadContext == Spec => []CallsReachLiveContext
<1>1. SafeInv => CallsReachLiveContext
  BY DEF SafeInv, PhaseInv, ThreadPhase, CallsReachLiveContext
<1> QED BY <1>1, Safety, PTL

\* A driver that may still emit events always has its context.
THEOREM EventsFirst == Spec => []EventsEndBeforeContext
<1>1. SafeInv => EventsEndBeforeContext
  BY DEF SafeInv, TypeOK, PhaseInv, SlotPhase, EventsEndBeforeContext
<1> QED BY <1>1, Safety, PTL

-----------------------------------------------------------------------------
(* Claims: only Reserve adds one, and it has just compared it with the others *)

ClaimsShrink ==
    \A s \in Slots : Claimed(s)' => Claimed(s) /\ Request(s)' = Request(s)

LEMMA FinishShrinks ==
    ASSUME SafeInv, NEW t \in Threads,
           FinishRead(t) \/ FinishStartEvents(t) \/ FinishStopEvents(t) \/ FinishUnchanged(t)
    PROVE  ClaimsShrink
<1> USE DEF SafeInv, TypeOK, SlotType, ClaimsShrink, Claimed, Request, Return
<1>1. CASE FinishRead(t)
  BY <1>1 DEF FinishRead
<1>2. CASE FinishStartEvents(t)
  BY <1>2 DEF FinishStartEvents
<1>3. CASE FinishStopEvents(t)
  BY <1>3 DEF FinishStopEvents
<1>4. CASE FinishUnchanged(t)
  BY <1>4 DEF FinishUnchanged
<1> QED BY <1>1, <1>2, <1>3, <1>4

LEMMA ContinueShrinks == ASSUME SafeInv, NEW t \in Threads, Continue(t) PROVE ClaimsShrink
<1> USE DEF SafeInv, TypeOK, SlotType, ClaimsShrink, Claimed, Request
<1>1. CASE SkipPort(t) \/ AcquirePort(t) \/ PortRefused(t)
  BY <1>1 DEF SkipPort, AcquirePort, PortRefused
<1>2. CASE SkipPower(t) \/ AttachPower(t) \/ PowerRefused(t) \/ InitFails(t)
  BY <1>2 DEF SkipPower, AttachPower, PowerRefused, InitFails
<1>3. CASE InitDriver(t)
  BY <1>3 DEF InitDriver, PhaseInv, ThreadPhase, Configuring
<1>4. CASE SkipStop(t) \/ StopDriver(t) \/ StopFails(t) \/ Deinit(t)
  BY <1>4 DEF SkipStop, StopDriver, StopFails, Deinit
<1>5. CASE DetachPower(t) \/ ReleasePort(t)
  BY <1>5 DEF DetachPower, ReleasePort
<1>6. CASE ClearSlot(t)
  BY <1>6 DEF ClearSlot, Cleared
<1>7. CASE FinishRead(t) \/ FinishStartEvents(t) \/ FinishStopEvents(t) \/ FinishUnchanged(t)
  BY <1>7, FinishShrinks
<1> QED BY <1>1, <1>2, <1>3, <1>4, <1>5, <1>6, <1>7 DEF Continue

LEMMA ShrinkCompatible == ASSUME ClaimsCompatible, ClaimsShrink PROVE ClaimsCompatible'
  BY DEF ClaimsCompatible, ClaimsShrink

LEMMA ReserveCompatible ==
    ASSUME SafeInv, ClaimsCompatible, NEW t \in Threads, NEW r \in Requests, Reserve(t, r)
    PROVE  ClaimsCompatible'
<1>1. PICK s \in Slots :
         slots' = [slots EXCEPT ![s] = [Cleared EXCEPT !.reserved = TRUE, !.request = r]]
  BY DEF Reserve
<1>2. Request(s)' = r /\ Claimed(s)'
  BY <1>1 DEF SafeInv, TypeOK, Request, Claimed, Cleared
<1>3. \A q \in Slots \ {s} : Request(q)' = Request(q) /\ Claimed(q)' = Claimed(q)
  BY <1>1 DEF SafeInv, TypeOK, Request, Claimed
<1>4. ASSUME NEW q \in Slots \ {s}, Claimed(q)
      PROVE  /\ Request(q).key # r.key
             /\ Request(q).port = r.port =>
                  /\ ~EndpointsConflict(Request(q).endpoint, r.endpoint)
                  /\ ~EndpointsConflict(r.endpoint, Request(q).endpoint)
  BY <1>4, ConflictSymmetric DEF Reserve, Collides
<1>5. SUFFICES ASSUME NEW p \in Slots, NEW q \in Slots, p # q, Claimed(p)', Claimed(q)'
               PROVE  /\ Request(p)'.key # Request(q)'.key
                      /\ Request(p)'.port = Request(q)'.port =>
                           ~EndpointsConflict(Request(p)'.endpoint, Request(q)'.endpoint)
  BY DEF ClaimsCompatible
<1>6. CASE p = s
  BY <1>2, <1>3, <1>4, <1>5, <1>6
<1>7. CASE q = s
  BY <1>2, <1>3, <1>4, <1>5, <1>7
<1>8. CASE p # s /\ q # s
  BY <1>3, <1>5, <1>8 DEF ClaimsCompatible
<1> QED BY <1>6, <1>7, <1>8

LEMMA BeginCompatible ==
    ASSUME SafeInv, ClaimsCompatible, NEW t \in Threads, Begin(t) PROVE ClaimsCompatible'
<1>1. ASSUME NEW r \in Requests, Reserve(t, r) PROVE ClaimsCompatible'
  BY <1>1, ReserveCompatible
<1>2. ASSUME NEW s \in Slots, slots' = [slots EXCEPT ![s].busy = TRUE] PROVE ClaimsCompatible'
  <2>1. ClaimsShrink
    BY <1>2 DEF SafeInv, TypeOK, SlotType, ClaimsShrink, Claimed, Request
  <2> QED BY <2>1, ShrinkCompatible
<1> QED BY <1>1, <1>2 DEF Begin, BeginRemove, Borrow

\* Keys are unique and endpoints on one Port never collide, over live Modules and
\* those still being configured, however configurations and removals overlap.
THEOREM Compatible == Spec => []ClaimsCompatible
<1>1. Init => ClaimsCompatible
  BY DEF Init, ClaimsCompatible, Claimed, Cleared
<1>2. SafeInv /\ ClaimsCompatible /\ [Next]_vars => ClaimsCompatible'
  <2>1. ASSUME SafeInv, ClaimsCompatible, UNCHANGED vars PROVE ClaimsCompatible'
    BY <2>1 DEF vars, ClaimsCompatible, Claimed, Request
  <2> QED BY <2>1, ContinueShrinks, ShrinkCompatible, BeginCompatible DEF Next
<1> QED BY <1>1, <1>2, Safety, PTL DEF Spec
-----------------------------------------------------------------------------
(* Resources: which places of a thread hold the Port and the load of a slot  *)

\* Nobody works on s at one of these places.
Away(s, places) == \A t \in Threads : at[t] = s => pc[t] \notin places

NoPort == {"acquire_port", "clear"}
NoLoad == {"acquire_port", "attach_power", "release_port", "clear"}

Holders == {s \in Slots : Claimed(s) /\ NeedsPort(Request(s)) /\ Away(s, NoPort)}
Loaded == {s \in Slots : Claimed(s) /\ Request(s).rail /\ Away(s, NoLoad)}

\* Every mark is somebody's, and a Module is not both reserved and live.
MarksInv ==
    \A s \in Slots :
        /\ slots[s].reserved => ~slots[s].used /\ ~slots[s].busy
        /\ slots[s].reserved \/ slots[s].busy => \E t \in Threads : Working(t, s)

\* The owners of the Ports are the keys of the slots that hold one.
PortsInv ==
    /\ \A s \in Holders : Request(s).key \in owners[Request(s).port]
    /\ \A p \in Ports : \A o \in owners[p] :
          \E s \in Holders : Request(s).port = p /\ Request(s).key = o

LoadsInv ==
    /\ loads = Loaded
    /\ \A s \in Slots :
          slots[s].used /\ Away(s, {"release_port", "clear"}) =>
              slots[s].power_attached = Request(s).rail

ResourceInv == MarksInv /\ PortsInv /\ LoadsInv
\* A thread inside an operation is the only one in its slot, and works on it.
LEMMA Alone ==
    ASSUME SafeInv, NEW t \in Threads, pc[t] # "idle", NEW u \in Threads, u # t, at[u] = at[t]
    PROVE  pc[u] = "idle"
  BY DEF SafeInv, SlotsApart

LEMMA StayMarks ==
    ASSUME SafeInv, MarksInv, NEW t \in Threads, pc[t] # "idle",
           NEW step \in Steps, pc' = [pc EXCEPT ![t] = step], UNCHANGED at,
           \A s \in Slots : /\ slots'[s].used = slots[s].used
                            /\ slots'[s].reserved = slots[s].reserved
                            /\ slots'[s].busy = slots[s].busy
    PROVE  MarksInv'
  BY DEF SafeInv, TypeOK, MarksInv, Working, Steps, DriverCalls, Rollback

LEMMA LeaveMarks ==
    ASSUME SafeInv, MarksInv, NEW t \in Threads, pc[t] # "idle", Leave(t),
           ~slots'[at[t]].reserved, ~slots'[at[t]].busy,
           \A s \in Slots \ {at[t]} : slots'[s] = slots[s]
    PROVE  MarksInv'
  BY DEF SafeInv, TypeOK, MarksInv, Working, Leave, Goto

LEMMA ContinueMarks ==
    ASSUME SafeInv, MarksInv, NEW t \in Threads, Continue(t) PROVE MarksInv'
<1> USE DEF SafeInv, TypeOK, SlotType, Goto
<1>1. CASE SkipPort(t) \/ AcquirePort(t) \/ PortRefused(t)
  BY <1>1, StayMarks DEF SkipPort, AcquirePort, PortRefused, Steps, Rollback
<1>2. CASE SkipPower(t) \/ AttachPower(t) \/ PowerRefused(t) \/ InitFails(t)
  BY <1>2, StayMarks DEF SkipPower, AttachPower, PowerRefused, InitFails, Steps, Rollback
<1>3. CASE InitDriver(t)
  BY <1>3, LeaveMarks DEF InitDriver, MarksInv, PhaseInv, ThreadPhase, Configuring
<1>4. CASE SkipStop(t) \/ StopDriver(t) \/ Deinit(t)
  BY <1>4, StayMarks DEF SkipStop, StopDriver, Deinit, Steps, DriverCalls, Rollback
<1>5. CASE StopFails(t)
  BY <1>5, LeaveMarks DEF StopFails, MarksInv, PhaseInv, ThreadPhase, DriverCalls
<1>6. CASE DetachPower(t) \/ ReleasePort(t)
  <2>1. CASE DetachPower(t)
    <3>1. slots' = [slots EXCEPT ![at[t]].power_attached = FALSE] /\ UNCHANGED at
      BY <2>1 DEF DetachPower
    <3>2. \A s \in Slots : /\ slots'[s].used = slots[s].used
                           /\ slots'[s].reserved = slots[s].reserved
                           /\ slots'[s].busy = slots[s].busy
      BY <3>1
    <3> QED BY <2>1, <3>1, <3>2, StayMarks DEF DetachPower, Steps, Rollback
  <2>2. CASE ReleasePort(t)
    BY <2>2, StayMarks DEF ReleasePort, Steps, Rollback
  <2> QED BY <1>6, <2>1, <2>2
<1>7. CASE ClearSlot(t)
  BY <1>7, LeaveMarks DEF ClearSlot, Cleared
<1>8. ASSUME NEW slot, Return(t, slot), pc[t] \in DriverCalls,
             slot.reserved = slots[at[t]].reserved, slot \in SlotType
      PROVE  MarksInv'
  BY <1>8, LeaveMarks DEF Return, MarksInv, PhaseInv, ThreadPhase, DriverCalls
<1>9. CASE FinishRead(t) \/ FinishStartEvents(t) \/ FinishStopEvents(t) \/ FinishUnchanged(t)
  <2>1. slots[at[t]] \in SlotType
    BY DEF SafeInv, TypeOK
  <2>2. CASE FinishRead(t)
    BY <1>8, <2>1, <2>2, NextSequenceInRange DEF FinishRead, DriverCalls
  <2>3. CASE FinishStartEvents(t)
    BY <1>8, <2>1, <2>3 DEF FinishStartEvents, DriverCalls
  <2>4. CASE FinishStopEvents(t)
    BY <1>8, <2>1, <2>4 DEF FinishStopEvents, DriverCalls
  <2>5. CASE FinishUnchanged(t)
    BY <1>8, <2>1, <2>5 DEF FinishUnchanged, DriverCalls
  <2> QED BY <1>9, <2>2, <2>3, <2>4, <2>5
<1> QED BY <1>1, <1>2, <1>3, <1>4, <1>5, <1>6, <1>7, <1>9 DEF Continue

LEMMA EnterMarks ==
    ASSUME SafeInv, MarksInv, NEW t \in Threads, pc[t] = "idle", NEW s \in Slots,
           NEW step \in Steps, Goto(t, step), at' = [at EXCEPT ![t] = s],
           slots'[s].reserved => ~slots'[s].used /\ ~slots'[s].busy,
           \A q \in Slots \ {s} : slots'[q] = slots[q]
    PROVE  MarksInv'
  BY DEF SafeInv, TypeOK, MarksInv, Working, Goto, Steps, DriverCalls, Rollback

LEMMA BeginMarks ==
    ASSUME SafeInv, MarksInv, NEW t \in Threads, Begin(t) PROVE MarksInv'
<1> USE DEF SafeInv, TypeOK, SlotType
<1>1. ASSUME NEW r \in Requests, Reserve(t, r) PROVE MarksInv'
  <2>1. PICK s \in Slots :
           /\ slots' = [slots EXCEPT ![s] = [Cleared EXCEPT !.reserved = TRUE, !.request = r]]
           /\ at' = [at EXCEPT ![t] = s]
    BY <1>1 DEF Reserve
  <2> QED BY <1>1, <2>1, EnterMarks DEF Reserve, Cleared, Steps
<1>2. ASSUME NEW s \in Slots, NEW op \in DriverCalls, pc[t] = "idle", Available(s), Goto(t, op),
             slots' = [slots EXCEPT ![s].busy = TRUE], at' = [at EXCEPT ![t] = s]
      PROVE  MarksInv'
  BY <1>2, EnterMarks DEF MarksInv, Available, Steps
<1> QED BY <1>1, <1>2 DEF Begin, BeginRemove, Borrow, DriverCalls
\* What a slot claims does not change.
SameClaims ==
    \A s \in Slots : /\ Claimed(s)' = Claimed(s)
                     /\ Request(s)' = Request(s)

LEMMA FramePorts ==
    ASSUME SafeInv, PortsInv, UNCHANGED owners,
           Holders' = Holders, \A s \in Holders : slots'[s].request = slots[s].request
    PROVE  PortsInv'
  BY DEF PortsInv, Request

LEMMA StayPorts ==
    ASSUME SafeInv, PortsInv, NEW t \in Threads, NEW step \in Steps,
           pc' = [pc EXCEPT ![t] = step], pc[t] \in NoPort <=> step \in NoPort,
           UNCHANGED <<owners, at>>, SameClaims
    PROVE  PortsInv'
<1>1. \A s \in Slots : Away(s, NoPort)' <=> Away(s, NoPort)
  BY DEF SafeInv, TypeOK, Away
<1> QED BY <1>1, FramePorts DEF Holders, SameClaims, Request

LEMMA LeavePorts ==
    ASSUME SafeInv, PortsInv, NEW t \in Threads, pc[t] \notin NoPort, Leave(t),
           UNCHANGED owners, SameClaims
    PROVE  PortsInv'
<1>1. \A s \in Slots : Away(s, NoPort)' <=> Away(s, NoPort)
  BY DEF SafeInv, TypeOK, Away, Leave, Goto, NoPort
<1> QED BY <1>1, FramePorts DEF Holders, SameClaims, Request

LEMMA AcquirePorts ==
    ASSUME SafeInv, PortsInv, NEW t \in Threads, AcquirePort(t) PROVE PortsInv'
<1>0. PICK s \in Slots : s = at[t]
  BY DEF SafeInv, TypeOK
<1> DEFINE r == slots[s].request
<1>1. r.port \in Ports /\ Claimed(s) /\ NeedsPort(r)
  BY <1>0, RequestFields DEF SafeInv, TypeOK, PhaseInv, ThreadPhase, SlotPhase, Claimed, Configuring,
     AcquirePort, Request
<1>2. UNCHANGED slots
  BY DEF AcquirePort
<1>3. s \notin Holders /\ Holders' = Holders \union {s}
  <2>1. \A u \in Threads : at[u] = s /\ u # t => pc[u] = "idle"
    BY <1>0, Alone DEF AcquirePort
  <2> QED BY <1>0, <1>1, <2>1 DEF SafeInv, TypeOK, Holders, Away, NoPort, AcquirePort, Goto,
             Claimed, Request
<1>4. \A p \in Ports : owners'[p] = IF p = r.port THEN owners[p] \union {r.key} ELSE owners[p]
  BY <1>0, <1>1 DEF AcquirePort, PortAcquire, Request, SafeInv, TypeOK, PortTypeOK
<1>5. ASSUME NEW q \in Holders' PROVE slots[q].request.key \in owners'[slots[q].request.port]
  <2>1. CASE q = s
    BY <1>1, <1>4, <2>1
  <2>2. CASE q # s
    <3>1. q \in Holders /\ q \in Slots
      BY <1>3, <2>2 DEF Holders
    <3>2. slots[q].request.port \in Ports
      BY <3>1, RequestFields DEF Holders, SafeInv, PhaseInv, SlotPhase, Request
    <3> QED BY <1>4, <3>1, <3>2 DEF PortsInv, Request
  <2> QED BY <2>1, <2>2
<1>6. ASSUME NEW p \in Ports, NEW o \in owners'[p]
      PROVE  \E q \in Holders' : slots[q].request.port = p /\ slots[q].request.key = o
  <2>1. CASE o \in owners[p]
    <3>1. PICK q \in Holders : slots[q].request.port = p /\ slots[q].request.key = o
      BY <2>1 DEF PortsInv, Request
    <3> QED BY <1>3, <3>1
  <2>2. CASE o \notin owners[p]
    <3>1. p = r.port /\ o \in owners[p] \union {r.key}
      BY <1>4, <1>6, <2>2
    <3> QED BY <1>3, <2>2, <3>1
  <2> QED BY <2>1, <2>2
<1> QED BY <1>2, <1>5, <1>6 DEF PortsInv, Request

LEMMA ReleasePorts ==
    ASSUME SafeInv, ClaimsCompatible, PortsInv, NEW t \in Threads, ReleasePort(t)
    PROVE  PortsInv'
<1>0. PICK s \in Slots : s = at[t]
  BY DEF SafeInv, TypeOK
<1> DEFINE r == slots[s].request
<1>1. r.port \in Ports /\ Claimed(s)
  BY <1>0, RequestFields DEF SafeInv, TypeOK, PhaseInv, ThreadPhase, SlotPhase, Claimed, Rollback,
     ReleasePort, Request
<1>2. UNCHANGED slots
  BY DEF ReleasePort
<1>3. Holders' = Holders \ {s}
  BY <1>0 DEF SafeInv, TypeOK, Holders, Away, NoPort, ReleasePort, Goto, Claimed, Request
<1>4. CASE NeedsPort(r)
  <2>1. \A p \in Ports : owners'[p] = IF p = r.port THEN owners[p] \ {r.key} ELSE owners[p]
    BY <1>0, <1>1, <1>4 DEF ReleasePort, PortRelease, SafeInv, TypeOK, PortTypeOK, Request
  <2>2. ASSUME NEW q \in Holders' PROVE slots[q].request.key \in owners'[slots[q].request.port]
    <3>1. q \in Holders /\ q \in Slots /\ q # s
      BY <1>3 DEF Holders
    <3>2. slots[q].request.port \in Ports
      BY <3>1, RequestFields DEF Holders, SafeInv, PhaseInv, SlotPhase, Request
    <3>3. slots[q].request.key # r.key
      BY <1>1, <3>1 DEF ClaimsCompatible, Holders, Request
    <3> QED BY <2>1, <3>1, <3>2, <3>3 DEF PortsInv, Request
  <2>3. ASSUME NEW p \in Ports, NEW o \in owners'[p]
        PROVE  \E q \in Holders' : slots[q].request.port = p /\ slots[q].request.key = o
    <3>1. o \in owners[p] /\ ~(p = r.port /\ o = r.key)
      <4>1. CASE p = r.port
        BY <2>1, <4>1
      <4>2. CASE p # r.port
        BY <2>1, <4>2
      <4> QED BY <4>1, <4>2
    <3>2. PICK q \in Holders : slots[q].request.port = p /\ slots[q].request.key = o
      BY <3>1 DEF PortsInv, Request
    <3>3. q # s
      BY <3>1, <3>2
    <3> QED BY <1>3, <3>2, <3>3
  <2> QED BY <1>2, <2>2, <2>3 DEF PortsInv, Request
<1>5. CASE ~NeedsPort(r)
  <2>1. UNCHANGED owners
    BY <1>0, <1>5 DEF ReleasePort, portVars, Request
  <2>2. s \notin Holders
    BY <1>5 DEF Holders, Request
  <2> QED BY <1>2, <1>3, <2>1, <2>2, FramePorts
<1> QED BY <1>4, <1>5

LEMMA ContinuePorts ==
    ASSUME SafeInv, ClaimsCompatible, PortsInv, NEW t \in Threads, Continue(t)
    PROVE  PortsInv'
<1>0. pc \in [Threads -> Steps \union {"idle"}] /\ at \in [Threads -> Slots]
  BY DEF SafeInv, TypeOK
<1>1. CASE SkipPort(t)
  <2>1. Holders' = Holders
    BY <1>0, <1>1 DEF SkipPort, Goto, Holders, Away, NoPort, Claimed, Request
  <2> QED BY <1>1, <2>1, FramePorts DEF SkipPort, portVars, Request
<1>2. CASE AcquirePort(t)
  BY <1>2, AcquirePorts
<1>3. CASE PortRefused(t)
  BY <1>3, StayPorts DEF PortRefused, PortRefuse, portVars, Goto, NoPort, Steps, Rollback,
     SameClaims, Claimed, Request
<1>4. CASE SkipPower(t) \/ AttachPower(t) \/ PowerRefused(t) \/ InitFails(t)
  BY <1>4, StayPorts DEF SkipPower, AttachPower, PowerRefused, InitFails, portVars, Goto, NoPort,
     Steps, Rollback, SameClaims, Claimed, Request
<1>5. CASE InitDriver(t)
  <2>1. SameClaims
    BY <1>5 DEF InitDriver, SameClaims, Claimed, Request, SafeInv, TypeOK, PhaseInv, ThreadPhase,
       Configuring
  <2> QED BY <1>5, <2>1, LeavePorts DEF InitDriver, portVars, NoPort
<1>6. CASE SkipStop(t) \/ Deinit(t)
  BY <1>6, StayPorts DEF SkipStop, Deinit, portVars, Goto, NoPort, Steps, DriverCalls, Rollback,
     SameClaims, Claimed, Request
<1>7. CASE StopDriver(t)
  <2>1. SameClaims
    BY <1>7 DEF StopDriver, SameClaims, Claimed, Request, SafeInv, TypeOK
  <2> QED BY <1>7, <2>1, StayPorts DEF StopDriver, portVars, Goto, NoPort, Steps, DriverCalls
<1>8. CASE StopFails(t)
  <2>1. SameClaims
    BY <1>8 DEF StopFails, SameClaims, Claimed, Request, SafeInv, TypeOK
  <2> QED BY <1>8, <2>1, LeavePorts DEF StopFails, portVars, NoPort
<1>9. CASE DetachPower(t)
  <2>1. SameClaims
    BY <1>9 DEF DetachPower, SameClaims, Claimed, Request, SafeInv, TypeOK
  <2> QED BY <1>9, <2>1, StayPorts DEF DetachPower, portVars, Goto, NoPort, Steps, Rollback
<1>10. CASE ReleasePort(t)
  BY <1>10, ReleasePorts
<1>11. CASE ClearSlot(t)
  <2>1. PICK s \in Slots : s = at[t]
    BY <1>0
  <2>2. slots'[s] = Cleared /\ \A q \in Slots \ {s} : slots'[q] = slots[q]
    BY <1>11, <2>1 DEF ClearSlot, SafeInv, TypeOK
  <2>3. \A u \in Threads : u # t => pc'[u] = pc[u] /\ at'[u] = at[u]
    BY <1>0, <1>11 DEF ClearSlot, Leave, Goto
  <2>4. pc[t] = "clear" /\ pc'[t] = "idle"
    BY <1>0, <1>11 DEF ClearSlot, Leave, Goto
  <2>5. s \notin Holders /\ s \notin Holders'
    BY <2>1, <2>2, <2>4 DEF Holders, Away, NoPort, Claimed, Cleared
  <2>6. \A q \in Slots \ {s} : q \in Holders' <=> q \in Holders
    BY <2>1, <2>2, <2>3, <2>4 DEF Holders, Away, NoPort, Claimed, Request
  <2>7. Holders' = Holders
    BY <2>5, <2>6 DEF Holders
  <2> QED BY <1>11, <2>2, <2>5, <2>7, FramePorts DEF ClearSlot, portVars, Holders
<1>12. CASE FinishRead(t) \/ FinishStartEvents(t) \/ FinishStopEvents(t) \/ FinishUnchanged(t)
  <2>1. SameClaims
    <3> USE DEF SafeInv, TypeOK, SlotType, SameClaims, Claimed, Request, Return
    <3>1. CASE FinishRead(t) BY <3>1 DEF FinishRead
    <3>2. CASE FinishStartEvents(t) BY <3>2 DEF FinishStartEvents
    <3>3. CASE FinishStopEvents(t) BY <3>3 DEF FinishStopEvents
    <3>4. CASE FinishUnchanged(t) BY <3>4 DEF FinishUnchanged
    <3> QED BY <1>12, <3>1, <3>2, <3>3, <3>4
  <2> QED BY <1>12, <2>1, LeavePorts DEF FinishRead, FinishStartEvents, FinishStopEvents,
             FinishUnchanged, Return, portVars, NoPort
<1> QED BY <1>1, <1>2, <1>3, <1>4, <1>5, <1>6, <1>7, <1>8, <1>9, <1>10, <1>11, <1>12 DEF Continue
LEMMA BeginPorts ==
    ASSUME SafeInv, PortsInv, NEW t \in Threads, Begin(t) PROVE PortsInv'
<1> USE DEF SafeInv, TypeOK
<1>1. ASSUME NEW r \in Requests, Reserve(t, r) PROVE PortsInv'
  <2>1. PICK s \in Slots :
           /\ ~Claimed(s)
           /\ slots' = [slots EXCEPT ![s] = [Cleared EXCEPT !.reserved = TRUE, !.request = r]]
           /\ at' = [at EXCEPT ![t] = s]
    BY <1>1 DEF Reserve
  <2>2. pc' = [pc EXCEPT ![t] = "acquire_port"] /\ pc[t] = "idle" /\ UNCHANGED owners
    BY <1>1 DEF Reserve, Goto, portVars
  <2>3. s \notin Holders /\ s \notin Holders'
    BY <2>1, <2>2 DEF Holders, Away, NoPort
  <2>4. \A q \in Slots \ {s} : q \in Holders' <=> q \in Holders
    BY <2>1, <2>2 DEF Holders, Away, NoPort, Claimed, Request
  <2>5. Holders' = Holders
    BY <2>3, <2>4 DEF Holders
  <2> QED BY <2>1, <2>2, <2>3, <2>5, FramePorts DEF Holders
<1>2. ASSUME NEW s \in Slots, NEW op \in DriverCalls, pc[t] = "idle", Goto(t, op),
             slots' = [slots EXCEPT ![s].busy = TRUE], at' = [at EXCEPT ![t] = s],
             UNCHANGED owners
      PROVE  PortsInv'
  <2>1. \A q \in Slots : Claimed(q)' = Claimed(q) /\ Request(q)' = Request(q)
    BY <1>2 DEF Claimed, Request
  <2>2. \A q \in Slots : Away(q, NoPort)' <=> Away(q, NoPort)
    <3>1. op \notin NoPort /\ pc[t] \notin NoPort
      BY <1>2 DEF NoPort, DriverCalls
    <3>2. \A u \in Threads \ {t} : pc'[u] = pc[u] /\ at'[u] = at[u]
      BY <1>2 DEF Goto
    <3>3. pc'[t] = op
      BY <1>2 DEF Goto
    <3> QED BY <3>1, <3>2, <3>3 DEF Away
  <2> QED BY <1>2, <2>1, <2>2, FramePorts DEF Holders, Request
<1> QED BY <1>1, <1>2 DEF Begin, BeginRemove, Borrow, DriverCalls, portVars

-----------------------------------------------------------------------------
\* A step whose thread holds the load before and after it, or does not.
LEMMA StayLoads ==
    ASSUME SafeInv, LoadsInv, NEW t \in Threads, NEW step \in Steps, pc[t] # "idle",
           pc' = [pc EXCEPT ![t] = step], pc[t] \in NoLoad <=> step \in NoLoad,
           pc[t] \in {"release_port", "clear"} => step \in {"release_port", "clear"},
           UNCHANGED <<loads, at>>, SameClaims,
           \A s \in Slots : /\ slots'[s].used = slots[s].used
                            /\ slots'[s].power_attached = slots[s].power_attached
    PROVE  LoadsInv'
<1>1. \A s \in Slots : Away(s, NoLoad)' <=> Away(s, NoLoad)
  BY DEF SafeInv, TypeOK, Away
<1>2. Loaded' = Loaded
  BY <1>1 DEF Loaded, SameClaims
<1>3. \A s \in Slots : Away(s, {"release_port", "clear"})' => Away(s, {"release_port", "clear"})
  BY DEF SafeInv, TypeOK, Away
<1> QED BY <1>2, <1>3 DEF LoadsInv, SameClaims

LEMMA LeaveLoads ==
    ASSUME SafeInv, LoadsInv, NEW t \in Threads, pc[t] \notin NoLoad, Leave(t),
           UNCHANGED loads, SameClaims,
           \A s \in Slots \ {at[t]} : slots'[s] = slots[s],
           slots'[at[t]].used => \/ slots'[at[t]].power_attached = slots[at[t]].request.rail
                                 \/ /\ slots[at[t]].used
                                    /\ slots'[at[t]].power_attached = slots[at[t]].power_attached
    PROVE  LoadsInv'
<1>0. PICK s \in Slots : s = at[t]
  BY DEF SafeInv, TypeOK
<1>1. pc'[t] = "idle" /\ \A u \in Threads \ {t} : pc'[u] = pc[u] /\ at'[u] = at[u]
  BY DEF SafeInv, TypeOK, Leave, Goto
<1>2. \A q \in Slots : Away(q, NoLoad)' <=> Away(q, NoLoad)
  BY <1>1 DEF Away, NoLoad
<1>3. Loaded' = Loaded
  BY <1>2 DEF Loaded, SameClaims
<1>4. pc[t] \notin {"release_port", "clear"}
  BY DEF NoLoad
<1>5. \A q \in Slots : Away(q, {"release_port", "clear"})' <=> Away(q, {"release_port", "clear"})
  BY <1>1, <1>4 DEF Away
<1>6. ASSUME NEW q \in Slots, slots'[q].used, Away(q, {"release_port", "clear"})'
      PROVE  slots'[q].power_attached = slots'[q].request.rail
  <2>1. Away(q, {"release_port", "clear"}) /\ slots'[q].request = slots[q].request
    BY <1>5, <1>6 DEF SameClaims, Request
  <2>2. slots[q].used => slots[q].power_attached = slots[q].request.rail
    BY <2>1 DEF LoadsInv, Request
  <2> QED BY <1>0, <1>6, <2>1, <2>2
<1> QED BY <1>3, <1>6 DEF LoadsInv, Request

LEMMA AttachLoads ==
    ASSUME SafeInv, LoadsInv, NEW t \in Threads, AttachPower(t) PROVE LoadsInv'
<1>0. PICK s \in Slots : s = at[t]
  BY DEF SafeInv, TypeOK
<1>1. Claimed(s) /\ ~slots[s].used
  BY <1>0 DEF SafeInv, PhaseInv, ThreadPhase, Claimed, Configuring, AttachPower
<1>2. \A u \in Threads : at[u] = s /\ u # t => pc[u] = "idle"
  BY <1>0, Alone DEF AttachPower
<1>3. Loaded' = Loaded \union {s}
  BY <1>0, <1>1, <1>2 DEF SafeInv, TypeOK, Loaded, Away, NoLoad, AttachPower, Goto, Claimed, Request
<1>4. \A q \in Slots \ {s} : Away(q, {"release_port", "clear"})' <=> Away(q, {"release_port", "clear"})
  BY <1>0 DEF SafeInv, TypeOK, Away, AttachPower, Goto
<1>5. loads' = loads \union {s} /\ UNCHANGED slots
  BY <1>0 DEF AttachPower
<1>6. loads' = Loaded'
  BY <1>3, <1>5 DEF LoadsInv
<1>7. \A q \in Slots : slots'[q].used /\ Away(q, {"release_port", "clear"})' =>
          slots'[q].power_attached = slots'[q].request.rail
  <2>1. \A q \in Slots \ {s} : slots[q].used /\ Away(q, {"release_port", "clear"})' =>
            slots[q].power_attached = slots[q].request.rail
    BY <1>4 DEF LoadsInv, Request
  <2> QED BY <1>1, <1>5, <2>1
<1> QED BY <1>6, <1>7 DEF LoadsInv, Request

LEMMA DetachLoads ==
    ASSUME SafeInv, LoadsInv, NEW t \in Threads, DetachPower(t) PROVE LoadsInv'
<1>0. PICK s \in Slots : s = at[t]
  BY DEF SafeInv, TypeOK
<1>1. Claimed(s)
  BY <1>0 DEF SafeInv, PhaseInv, ThreadPhase, Claimed, Rollback, DetachPower
<1>2. \A u \in Threads : at[u] = s /\ u # t => pc[u] = "idle"
  BY <1>0, Alone DEF DetachPower
<1>3. slots' = [slots EXCEPT ![s].power_attached = FALSE] /\ UNCHANGED at
  BY <1>0 DEF DetachPower
<1>4. /\ pc[t] = "detach_power" /\ pc'[t] = "release_port"
      /\ \A u \in Threads \ {t} : pc'[u] = pc[u]
  BY DEF DetachPower, Goto, SafeInv, TypeOK
<1>5. \A q \in Slots : /\ slots'[q].used = slots[q].used
                       /\ slots'[q].reserved = slots[q].reserved
                       /\ slots'[q].request = slots[q].request
                       /\ q # s => slots'[q].power_attached = slots[q].power_attached
  <2>1. slots \in [Slots -> SlotType]
    BY DEF SafeInv, TypeOK
  <2>2. slots'[s] = [slots[s] EXCEPT !.power_attached = FALSE]
    BY <1>3, <2>1
  <2>3. \A q \in Slots \ {s} : slots'[q] = slots[q]
    BY <1>3, <2>1
  <2>4. ASSUME NEW q \in Slots
        PROVE  /\ slots'[q].used = slots[q].used
               /\ slots'[q].reserved = slots[q].reserved
               /\ slots'[q].request = slots[q].request
               /\ q # s => slots'[q].power_attached = slots[q].power_attached
    BY <2>1, <2>2, <2>3 DEF SlotType
  <2> QED BY <2>4
<1>6. Loaded' = Loaded \ {s}
  BY <1>0, <1>3, <1>4, <1>5 DEF Loaded, Away, NoLoad, Claimed, Request
<1>7. Away(s, {"release_port", "clear"})
  BY <1>0, <1>2, <1>4 DEF Away
<1>8. loads' = loads \ {s}
  <2>1. CASE slots[s].used
    <3>1. slots[s].power_attached = slots[s].request.rail
      BY <1>7, <2>1 DEF LoadsInv, Request
    <3>2. ~slots[s].request.rail => s \notin loads
      BY DEF LoadsInv, Loaded, Request
    <3> QED BY <1>0, <2>1, <3>1, <3>2 DEF DetachPower
  <2>2. CASE ~slots[s].used
    <3>1. ~slots[s].request.rail => s \notin loads
      BY DEF LoadsInv, Loaded, Request
    <3> QED BY <1>0, <2>2, <3>1 DEF DetachPower, Request
  <2> QED BY <2>1, <2>2
<1>9. ~Away(s, {"release_port", "clear"})'
  BY <1>0, <1>3, <1>4 DEF Away
<1>10. \A q \in Slots \ {s} : Away(q, {"release_port", "clear"})' <=> Away(q, {"release_port", "clear"})
  BY <1>0, <1>3, <1>4 DEF Away
<1>11. \A q \in Slots : slots'[q].used /\ Away(q, {"release_port", "clear"})' =>
           slots'[q].power_attached = slots'[q].request.rail
  BY <1>5, <1>9, <1>10 DEF LoadsInv, Request
<1> QED BY <1>6, <1>8, <1>11 DEF LoadsInv, Request
LEMMA ContinueLoads ==
    ASSUME SafeInv, LoadsInv, NEW t \in Threads, Continue(t) PROVE LoadsInv'
<1>0. pc \in [Threads -> Steps \union {"idle"}] /\ at \in [Threads -> Slots] /\ at[t] \in Slots
  BY DEF SafeInv, TypeOK
<1>1. CASE SkipPort(t) \/ AcquirePort(t) \/ PortRefused(t)
  BY <1>1, StayLoads DEF SkipPort, AcquirePort, PortRefused, Goto, NoLoad, Steps, Rollback,
     SameClaims, Claimed, Request, externals
<1>2. CASE SkipPower(t)
  <2>1. Loaded' = Loaded
    BY <1>0, <1>2 DEF SkipPower, Goto, Loaded, Away, NoLoad, Claimed, Request
  <2>2. \A s \in Slots : Away(s, {"release_port", "clear"})' <=> Away(s, {"release_port", "clear"})
    BY <1>0, <1>2 DEF SkipPower, Goto, Away
  <2> QED BY <1>2, <2>1, <2>2 DEF SkipPower, LoadsInv, Request, externals
<1>3. CASE AttachPower(t)
  BY <1>3, AttachLoads
<1>4. CASE PowerRefused(t)
  <2>1. ~slots[at[t]].used
    BY <1>4 DEF SafeInv, PhaseInv, ThreadPhase, Configuring, PowerRefused
  <2>2. Loaded' = Loaded
    BY <1>0, <1>4 DEF PowerRefused, Goto, Loaded, Away, NoLoad, Claimed, Request
  <2>3. \A s \in Slots : slots[s].used /\ Away(s, {"release_port", "clear"})' =>
                           Away(s, {"release_port", "clear"})
    BY <1>0, <1>4 DEF PowerRefused, Goto, Away
  <2> QED BY <1>4, <2>2, <2>3 DEF PowerRefused, LoadsInv, Request, externals
<1>5. CASE InitFails(t) \/ SkipStop(t) \/ Deinit(t)
  BY <1>5, StayLoads DEF InitFails, SkipStop, Deinit, Goto, NoLoad, Steps, DriverCalls, Rollback,
     SameClaims, Claimed, Request, externals
<1>6. CASE InitDriver(t)
  <2>1. slots[at[t]].reserved /\ slots[at[t]].used = FALSE
    BY <1>0, <1>6 DEF SafeInv, TypeOK, SlotType, PhaseInv, ThreadPhase, Configuring, InitDriver
  <2>2. slots' = [slots EXCEPT ![at[t]] =
                   [@ EXCEPT !.used = TRUE, !.reserved = FALSE, !.state = "READY",
                             !.power_attached = slots[at[t]].request.rail]]
    BY <1>6 DEF InitDriver, Request
  <2>3. SameClaims
    BY <1>0, <2>1, <2>2 DEF SameClaims, Claimed, Request, SafeInv, TypeOK, SlotType
  <2>4. /\ \A s \in Slots \ {at[t]} : slots'[s] = slots[s]
        /\ slots'[at[t]].power_attached = slots[at[t]].request.rail
    BY <1>0, <2>2 DEF SafeInv, TypeOK, SlotType
  <2> QED BY <1>6, <2>3, <2>4, LeaveLoads DEF InitDriver, NoLoad
<1>7. CASE StopDriver(t)
  <2>1. slots' = [slots EXCEPT ![at[t]].events_started = FALSE]
    BY <1>7 DEF StopDriver
  <2>2. SameClaims /\ \A s \in Slots : /\ slots'[s].used = slots[s].used
                                       /\ slots'[s].power_attached = slots[s].power_attached
    BY <2>1 DEF SameClaims, Claimed, Request, SafeInv, TypeOK
  <2> QED BY <1>7, <2>2, StayLoads DEF StopDriver, Goto, NoLoad, Steps, DriverCalls
<1>8. CASE StopFails(t)
  <2>1. slots' = [slots EXCEPT ![at[t]].state = "ERROR", ![at[t]].busy = FALSE]
    BY <1>8 DEF StopFails
  <2>2. SameClaims /\ \A s \in Slots \ {at[t]} : slots'[s] = slots[s]
    BY <1>0, <2>1 DEF SameClaims, Claimed, Request, SafeInv, TypeOK
  <2>3. /\ slots'[at[t]].used = slots[at[t]].used
        /\ slots'[at[t]].power_attached = slots[at[t]].power_attached
    BY <1>0, <2>1 DEF SafeInv, TypeOK
  <2> QED BY <1>8, <2>2, <2>3, LeaveLoads DEF StopFails, NoLoad, externals
<1>9. CASE DetachPower(t)
  BY <1>9, DetachLoads
<1>10. CASE ReleasePort(t)
  BY <1>10, StayLoads DEF ReleasePort, Goto, NoLoad, Steps, Rollback, SameClaims, Claimed, Request,
     externals
<1>11. CASE ClearSlot(t)
  <2>1. PICK s \in Slots : s = at[t]
    BY <1>0
  <2>2. slots'[s] = Cleared /\ \A q \in Slots \ {s} : slots'[q] = slots[q]
    BY <1>11, <2>1 DEF ClearSlot, SafeInv, TypeOK
  <2>3. \A u \in Threads : u # t => pc'[u] = pc[u] /\ at'[u] = at[u]
    BY <1>0, <1>11 DEF ClearSlot, Leave, Goto
  <2>4. pc[t] = "clear" /\ pc'[t] = "idle"
    BY <1>0, <1>11 DEF ClearSlot, Leave, Goto
  <2>5. s \notin Loaded /\ s \notin Loaded'
    BY <2>1, <2>2, <2>4 DEF Loaded, Away, NoLoad, Claimed, Cleared
  <2>6. \A q \in Slots \ {s} : q \in Loaded' <=> q \in Loaded
    BY <2>1, <2>2, <2>3, <2>4 DEF Loaded, Away, NoLoad, Claimed, Request
  <2>7. Loaded' = Loaded
    BY <2>5, <2>6 DEF Loaded
  <2>8. ~slots'[s].used
    BY <2>2 DEF Cleared
  <2>9. \A q \in Slots \ {s} : Away(q, {"release_port", "clear"})' =>
                                 Away(q, {"release_port", "clear"})
    BY <2>1, <2>3 DEF Away
  <2>10. \A q \in Slots : slots'[q].used /\ Away(q, {"release_port", "clear"})' =>
             slots'[q].power_attached = slots'[q].request.rail
    BY <2>2, <2>8, <2>9 DEF LoadsInv, Request
  <2> QED BY <1>11, <2>7, <2>10 DEF ClearSlot, LoadsInv, Request, externals
<1>12. ASSUME NEW slot, Return(t, slot), pc[t] \in DriverCalls,
              slot.used = slots[at[t]].used, slot.reserved = slots[at[t]].reserved,
              slot.request = slots[at[t]].request,
              slot.power_attached = slots[at[t]].power_attached, slot \in SlotType
      PROVE  LoadsInv'
  <2>1. slots' = [slots EXCEPT ![at[t]] = [slot EXCEPT !.busy = FALSE]]
    BY <1>12 DEF Return
  <2>2. SameClaims /\ \A s \in Slots \ {at[t]} : slots'[s] = slots[s]
    BY <1>0, <1>12, <2>1 DEF SameClaims, Claimed, Request, SafeInv, TypeOK, SlotType
  <2>3. /\ slots'[at[t]].used = slots[at[t]].used
        /\ slots'[at[t]].power_attached = slots[at[t]].power_attached
    BY <1>0, <1>12, <2>1 DEF SafeInv, TypeOK, SlotType
  <2> QED BY <1>12, <2>2, <2>3, LeaveLoads DEF Return, NoLoad, DriverCalls
<1>13. CASE FinishRead(t) \/ FinishStartEvents(t) \/ FinishStopEvents(t) \/ FinishUnchanged(t)
  <2>1. slots[at[t]] \in SlotType
    BY DEF SafeInv, TypeOK
  <2>2. CASE FinishRead(t)
    BY <1>12, <2>1, <2>2, NextSequenceInRange DEF FinishRead, DriverCalls, SlotType
  <2>3. CASE FinishStartEvents(t)
    BY <1>12, <2>1, <2>3 DEF FinishStartEvents, DriverCalls, SlotType
  <2>4. CASE FinishStopEvents(t)
    BY <1>12, <2>1, <2>4 DEF FinishStopEvents, DriverCalls, SlotType
  <2>5. CASE FinishUnchanged(t)
    BY <1>12, <2>1, <2>5 DEF FinishUnchanged, DriverCalls
  <2> QED BY <1>13, <2>2, <2>3, <2>4, <2>5
<1> QED BY <1>1, <1>2, <1>3, <1>4, <1>5, <1>6, <1>7, <1>8, <1>9, <1>10, <1>11, <1>13 DEF Continue

LEMMA BeginLoads ==
    ASSUME SafeInv, LoadsInv, NEW t \in Threads, Begin(t) PROVE LoadsInv'
<1> USE DEF SafeInv, TypeOK
<1>1. ASSUME NEW r \in Requests, Reserve(t, r) PROVE LoadsInv'
  <2>1. PICK s \in Slots :
           /\ ~Claimed(s)
           /\ slots' = [slots EXCEPT ![s] = [Cleared EXCEPT !.reserved = TRUE, !.request = r]]
           /\ at' = [at EXCEPT ![t] = s]
    BY <1>1 DEF Reserve
  <2>2. pc' = [pc EXCEPT ![t] = "acquire_port"] /\ pc[t] = "idle" /\ UNCHANGED loads
    BY <1>1 DEF Reserve, Goto, externals
  <2>3. s \notin Loaded /\ s \notin Loaded' /\ ~slots'[s].used
    BY <2>1, <2>2 DEF Loaded, Away, NoLoad, Cleared
  <2>4. \A q \in Slots \ {s} : q \in Loaded' <=> q \in Loaded
    BY <2>1, <2>2 DEF Loaded, Away, NoLoad, Claimed, Request
  <2>5. Loaded' = Loaded
    BY <2>3, <2>4 DEF Loaded
  <2>6. \A q \in Slots \ {s} : slots'[q] = slots[q]
    BY <2>1
  <2>7. \A q \in Slots \ {s} : Away(q, {"release_port", "clear"})' =>
                                 Away(q, {"release_port", "clear"})
    BY <2>1, <2>2 DEF Away
  <2>8. \A q \in Slots : slots'[q].used /\ Away(q, {"release_port", "clear"})' =>
             slots'[q].power_attached = slots'[q].request.rail
    BY <2>3, <2>6, <2>7 DEF LoadsInv, Request
  <2> QED BY <2>2, <2>5, <2>8 DEF LoadsInv, Request
<1>2. ASSUME NEW s \in Slots, NEW op \in DriverCalls, pc[t] = "idle", Goto(t, op),
             slots' = [slots EXCEPT ![s].busy = TRUE], at' = [at EXCEPT ![t] = s],
             UNCHANGED loads
      PROVE  LoadsInv'
  <2>1. \A q \in Slots : /\ Claimed(q)' = Claimed(q) /\ Request(q)' = Request(q)
                         /\ slots'[q].used = slots[q].used
                         /\ slots'[q].power_attached = slots[q].power_attached
    BY <1>2 DEF Claimed, Request
  <2>2. \A u \in Threads \ {t} : pc'[u] = pc[u] /\ at'[u] = at[u]
    BY <1>2 DEF Goto
  <2>3. pc'[t] = op /\ op \notin NoLoad /\ pc[t] \notin NoLoad
    BY <1>2 DEF Goto, NoLoad, DriverCalls
  <2>4. \A q \in Slots : Away(q, NoLoad)' <=> Away(q, NoLoad)
    BY <2>2, <2>3 DEF Away
  <2>5. Loaded' = Loaded
    BY <2>1, <2>4 DEF Loaded
  <2>6. \A q \in Slots : Away(q, {"release_port", "clear"})' => Away(q, {"release_port", "clear"})
    BY <2>2, <2>3 DEF Away, NoLoad
  <2> QED BY <1>2, <2>1, <2>5, <2>6 DEF LoadsInv
<1> QED BY <1>1, <1>2 DEF Begin, BeginRemove, Borrow, DriverCalls, externals

-----------------------------------------------------------------------------
LEMMA InitResources == Init => ResourceInv
<1> SUFFICES ASSUME Init PROVE ResourceInv
  OBVIOUS
<1>1. \A s \in Slots : slots[s] = Cleared
  BY DEF Init
<1>2. Holders = {} /\ Loaded = {}
  BY <1>1 DEF Holders, Loaded, Claimed, Cleared
<1>3. \A p \in Ports : owners[p] = {}
  BY DEF Init, PortInit
<1> QED BY <1>1, <1>2, <1>3 DEF Init, ResourceInv, MarksInv, PortsInv, LoadsInv, Cleared

\* From the invariant: whatever failed, a slot nobody works on holds the
\* resources of its state, and no owner of a Port is left over.
LEMMA ResourcesSettle == SafeInv /\ ResourceInv => ResourcesFollowSlots
<1> SUFFICES ASSUME SafeInv, ResourceInv PROVE ResourcesFollowSlots
  OBVIOUS
<1>1. ASSUME NEW s \in Slots, \A t \in Threads : ~Working(t, s)
      PROVE  /\ (s \in contexts) = slots[s].used
             /\ (s \in loads) = (slots[s].used /\ Request(s).rail)
             /\ slots[s].used /\ NeedsPort(Request(s)) =>
                   Request(s).key \in owners[Request(s).port]
  <2>1. ~slots[s].reserved /\ ~slots[s].busy /\ slots[s].used \in BOOLEAN
    BY <1>1 DEF ResourceInv, MarksInv, SafeInv, TypeOK, SlotType
  <2>2. Away(s, NoPort) /\ Away(s, NoLoad)
    BY <1>1 DEF Away, NoPort, NoLoad, Working
  <2>3. (s \in contexts) = slots[s].used
    BY <2>1 DEF SafeInv, PhaseInv, SlotPhase, Claimed
  <2>4. Claimed(s) = slots[s].used
    BY <2>1 DEF Claimed
  <2>5. slots[s].used => Request(s).rail \in BOOLEAN
    BY <2>4, RequestFields DEF SafeInv, PhaseInv, SlotPhase
  <2>6. (s \in loads) = (slots[s].used /\ Request(s).rail)
    BY <2>1, <2>2, <2>4, <2>5 DEF ResourceInv, LoadsInv, Loaded
  <2>7. slots[s].used /\ NeedsPort(Request(s)) => s \in Holders
    BY <2>2, <2>4 DEF Holders
  <2> QED BY <2>3, <2>6, <2>7 DEF ResourceInv, PortsInv
<1>2. \A p \in Ports : \A o \in owners[p] :
         \E s \in Slots : Claimed(s) /\ Request(s).port = p /\ Request(s).key = o
  BY DEF ResourceInv, PortsInv, Holders
<1> QED BY <1>1, <1>2 DEF ResourcesFollowSlots

\* Whatever call of a driver, a Port or power fails, nothing leaks: a free slot
\* holds nothing, and a live one its context, its Port claim and its load.
THEOREM NothingLeaks == Spec => []ResourcesFollowSlots
<1>1. Init => ResourceInv
  BY InitResources
<1>2. SafeInv /\ ClaimsCompatible /\ ResourceInv /\ [Next]_vars => ResourceInv'
  <2>1. ASSUME ResourceInv, UNCHANGED vars PROVE ResourceInv'
    <3>1. Holders' = Holders /\ Loaded' = Loaded
      BY <2>1 DEF vars, Holders, Loaded, Away, Claimed, Request
    <3>2. MarksInv'
      BY <2>1 DEF vars, ResourceInv, MarksInv, Working
    <3>3. PortsInv'
      BY <2>1, <3>1 DEF vars, ResourceInv, PortsInv, Request
    <3>4. LoadsInv'
      BY <2>1, <3>1 DEF vars, ResourceInv, LoadsInv, Away, Request
    <3> QED BY <3>2, <3>3, <3>4 DEF ResourceInv
  <2> QED BY <2>1, ContinueMarks, ContinuePorts, ContinueLoads, BeginMarks, BeginPorts, BeginLoads
          DEF Next, ResourceInv
<1> QED BY <1>1, <1>2, Safety, Compatible, ResourcesSettle, PTL DEF Spec

-----------------------------------------------------------------------------
(* Runtime works the same Modules: its own state and promises are those of    *)
(* RuntimeState, and Run is its specification on top of the Manager's.  What  *)
(* is proved first needs of the Manager only that its steps leave that state  *)
(* alone.                                                                     *)

CONSTANTS Worker, Callers, Hosts, Installed, Commandable, Configurations, MaxJobs, MaxQueue,
          MaxDepth, Nobody

Run == INSTANCE Runtime

Returns == {"loop", "drain", "jobs"}

\* The fields of the worker that its control depends on
WorkerFields ==
    /\ DOMAIN worker = {"place", "back", "wait", "job", "event", "rules", "ok"}
    /\ worker.back \in Returns

\* active_operations counts what the worker has open; no operation is open once the
\* state is STOPPED; and the contexts under way are those configure() installed last.
Quiet ==
    /\ WorkerFields
    /\ ActiveCountsWork
    /\ StoppedIsQuiet
    /\ RulesOutliveDispatch

USE DEF Returns

LEMMA AtFields == \A p : LET a == Run!At(p) IN
    /\ DOMAIN a = {"place", "back", "wait", "job", "event", "rules", "ok"}
    /\ a.back = "loop" /\ a.place = p
  BY DEF Run!At

LEMMA RunStart == Run!Init => Quiet /\ NoLostWakeup
<1> SUFFICES ASSUME Run!Init PROVE Quiet /\ NoLostWakeup OBVIOUS
<1>1. worker = Run!At("loop") /\ state = "STOPPED" /\ active = 0
  BY DEF Run!Init
<1>2. WorkerFields /\ worker.place = "loop"
  BY <1>1, AtFields DEF WorkerFields
<1>3. OpenOperations = 0
  BY <1>2 DEF OpenOperations
<1>4. ActiveCountsWork /\ StoppedIsQuiet /\ RulesOutliveDispatch /\ NoLostWakeup
  BY <1>1, <1>2, <1>3 DEF ActiveCountsWork, StoppedIsQuiet, RulesOutliveDispatch,
     NoLostWakeup
<1> QED BY <1>2, <1>4 DEF Quiet

LEMMA WorkerKeepsQuiet == Quiet /\ Run!WorkerStep => Quiet'
<1> SUFFICES ASSUME Quiet, Run!WorkerStep PROVE Quiet' OBVIOUS
<1> USE DEF Quiet, WorkerFields, OpenOperations, ActiveCountsWork, StoppedIsQuiet,
            RulesOutliveDispatch, Run!run, Run!WorkerTo
<1>1. CASE Run!LoopRunning BY <1>1 DEF Run!LoopRunning
<1>2. CASE Run!LoopNotRunning BY <1>2 DEF Run!LoopNotRunning, Run!FinishStopIfQuiescent
<1>3. CASE Run!Unpark BY <1>3 DEF Run!Unpark
<1>4. CASE Run!TakeEvent BY <1>4 DEF Run!TakeEvent
<1>5. CASE Run!NoMoreEvents BY <1>5 DEF Run!NoMoreEvents
<1>6. CASE Run!WakeUp BY <1>6, AtFields DEF Run!WakeUp
<1>7. CASE Run!ProcessEvent BY <1>7 DEF Run!ProcessEvent, Run!KeepEvent
<1>8. CASE Run!DropEvent BY <1>8, AtFields DEF Run!DropEvent, Run!NextPlace
<1>9. CASE Run!TakeJob BY <1>9 DEF Run!TakeJob, Run!JobIsDue
<1>10. CASE Run!SkipJob BY <1>10, AtFields DEF Run!SkipJob
<1>11. CASE Run!ReadJob BY <1>11 DEF Run!ReadJob
<1>12. CASE Run!ReadRefused BY <1>12 DEF Run!ReadRefused
<1>13. CASE Run!ReadReturns BY <1>13 DEF Run!ReadReturns
<1>14. CASE Run!Advance BY <1>14 DEF Run!Advance
<1>15. CASE Run!Publish BY <1>15 DEF Run!Publish
<1>16. CASE Run!Dispatch BY <1>16 DEF Run!Dispatch
<1>17. CASE Run!DispatchStopped BY <1>17 DEF Run!DispatchStopped
<1>18. CASE \E s \in Commandable : Run!RuleCommands(s) BY <1>18 DEF Run!RuleCommands
<1>19. CASE Run!CommandReturns BY <1>19 DEF Run!CommandReturns
<1>20. CASE Run!RulesDone BY <1>20 DEF Run!RulesDone, Run!CompleteOperation, Run!FinishStopIfQuiescent
<1>21. CASE Run!Complete BY <1>21, AtFields DEF Run!Complete, Run!CompleteOperation, Run!FinishStopIfQuiescent, Run!NextPlace
<1> QED BY <1>1, <1>2, <1>3, <1>4, <1>5, <1>6, <1>7, <1>8, <1>9, <1>10, <1>11, <1>12, <1>13, <1>14,
      <1>15, <1>16, <1>17, <1>18, <1>19, <1>20, <1>21 DEF Run!WorkerStep

LEMMA CallersKeepQuiet ==
  ASSUME NEW c \in Callers, Quiet,
         \/ \E schedules \in Configurations : Run!Configure(c, schedules)
         \/ Run!BeginStart(c) \/ Run!BeginStop(c) \/ Run!CallerStep(c) \/ Run!StopReturns(c)
  PROVE  Quiet'
<1> USE DEF Quiet, WorkerFields, OpenOperations, ActiveCountsWork, StoppedIsQuiet,
            RulesOutliveDispatch
<1>1. CASE \E schedules \in Configurations : Run!Configure(c, schedules)
  BY <1>1 DEF Run!Configure
<1>2. CASE Run!BeginStart(c) BY <1>2 DEF Run!BeginStart
<1>3. CASE Run!BeginStop(c) BY <1>3 DEF Run!BeginStop
<1>4. CASE Run!ArmPolled(c) BY <1>4 DEF Run!ArmPolled
<1>5. CASE Run!Arm(c) BY <1>5 DEF Run!Arm
<1>6. CASE Run!Armed(c) BY <1>6 DEF Run!Armed
<1>7. CASE Run!ArmFails(c) BY <1>7 DEF Run!ArmFails
<1>8. CASE Run!Started(c) BY <1>8 DEF Run!Started
<1>9. CASE Run!SkipDisarm(c) BY <1>9 DEF Run!SkipDisarm
<1>10. CASE Run!Disarm(c) BY <1>10 DEF Run!Disarm
<1>11. CASE Run!Disarmed(c) BY <1>11 DEF Run!Disarmed
<1>12. CASE Run!StartFailed(c) BY <1>12 DEF Run!StartFailed
<1>13. CASE Run!StopRequested(c) BY <1>13 DEF Run!StopRequested
<1>14. CASE Run!StopReturns(c) BY <1>14 DEF Run!StopReturns
<1> QED BY <1>1, <1>2, <1>3, <1>4, <1>5, <1>6, <1>7, <1>8, <1>9, <1>10, <1>11, <1>12, <1>13, <1>14
        DEF Run!CallerStep

LEMMA OthersKeepQuiet ==
  ASSUME Quiet,
         \/ \E s \in Run!Slots : Run!EmitPut(s) \/ Run!EmitGive(s)
         \/ \E s \in Commandable : Run!Post(s)
         \/ \E h \in Hosts : Run!HostEnds(h) \/ \E s \in Commandable : Run!HostBegins(h, s)
         \/ \E i \in 1 .. MaxJobs : Run!Tick(i)
         \/ UNCHANGED Run!vars
  PROVE  Quiet'
<1>1. worker' = worker /\ active' = active /\ state' = state /\ rules' = rules
  BY DEF Run!EmitPut, Run!EmitGive, Run!Post, Run!HostEnds, Run!HostBegins, Run!Tick, Run!vars, Run!run
<1> QED BY <1>1 DEF Quiet, WorkerFields, OpenOperations, ActiveCountsWork,
        StoppedIsQuiet, RulesOutliveDispatch

LEMMA RunKeepsQuiet == Quiet /\ [Run!Next]_Run!vars => Quiet'
  BY WorkerKeepsQuiet, CallersKeepQuiet, OthersKeepQuiet DEF Run!Next

\* A step that neither moves the worker nor takes a token or a started run away
LEMMA TokensStay ==
  ASSUME NoLostWakeup, worker' = worker, state' = "RUNNING" => state = "RUNNING",
         wake => wake', queue' # <<>> => queue # <<>>, giving # {} => giving' # {}
  PROVE  NoLostWakeup'
BY DEF NoLostWakeup

LEMMA WorkerKeepsTokens ==
  ASSUME Quiet, NoLostWakeup, Run!WorkerStep PROVE NoLostWakeup'
<1> USE DEF Quiet, WorkerFields, NoLostWakeup, Run!run, Run!WorkerTo
<1>1. CASE Run!LoopRunning BY <1>1 DEF Run!LoopRunning
<1>2. CASE Run!LoopNotRunning BY <1>2 DEF Run!LoopNotRunning, Run!FinishStopIfQuiescent
<1>3. CASE Run!Unpark BY <1>3 DEF Run!Unpark
<1>4. CASE Run!TakeEvent BY <1>4 DEF Run!TakeEvent
<1>5. CASE Run!NoMoreEvents BY <1>5 DEF Run!NoMoreEvents
<1>6. CASE Run!WakeUp BY <1>6, AtFields DEF Run!WakeUp
<1>7. CASE Run!ProcessEvent BY <1>7 DEF Run!ProcessEvent, Run!KeepEvent
<1>8. CASE Run!DropEvent BY <1>8, AtFields DEF Run!DropEvent, Run!NextPlace
<1>9. CASE Run!TakeJob BY <1>9 DEF Run!TakeJob, Run!JobIsDue
<1>10. CASE Run!SkipJob BY <1>10, AtFields DEF Run!SkipJob
<1>11. CASE Run!ReadJob BY <1>11 DEF Run!ReadJob
<1>12. CASE Run!ReadRefused BY <1>12 DEF Run!ReadRefused
<1>13. CASE Run!ReadReturns BY <1>13 DEF Run!ReadReturns
<1>14. CASE Run!Advance BY <1>14 DEF Run!Advance
<1>15. CASE Run!Publish BY <1>15 DEF Run!Publish
<1>16. CASE Run!Dispatch BY <1>16 DEF Run!Dispatch
<1>17. CASE Run!DispatchStopped BY <1>17 DEF Run!DispatchStopped
<1>18. CASE \E s \in Commandable : Run!RuleCommands(s) BY <1>18 DEF Run!RuleCommands
<1>19. CASE Run!CommandReturns BY <1>19 DEF Run!CommandReturns
<1>20. CASE Run!RulesDone BY <1>20 DEF Run!RulesDone, Run!CompleteOperation
<1>21. CASE Run!Complete BY <1>21, AtFields DEF Run!Complete, Run!CompleteOperation, Run!NextPlace
<1> QED BY <1>1, <1>2, <1>3, <1>4, <1>5, <1>6, <1>7, <1>8, <1>9, <1>10, <1>11, <1>12, <1>13, <1>14,
      <1>15, <1>16, <1>17, <1>18, <1>19, <1>20, <1>21 DEF Run!WorkerStep

LEMMA OthersKeepTokens ==
  ASSUME NoLostWakeup,
         \/ \E s \in Run!Slots : Run!EmitPut(s) \/ Run!EmitGive(s)
         \/ \E s \in Commandable : Run!Post(s)
         \/ \E h \in Hosts : Run!HostEnds(h) \/ \E s \in Commandable : Run!HostBegins(h, s)
         \/ \E i \in 1 .. MaxJobs : Run!Tick(i)
         \/ UNCHANGED Run!vars
  PROVE  NoLostWakeup'
<1>1. CASE \E s \in Run!Slots : Run!EmitPut(s)
  BY <1>1 DEF Run!EmitPut, NoLostWakeup
<1>2. CASE (\E s \in Run!Slots : Run!EmitGive(s)) \/ (\E s \in Commandable : Run!Post(s))
  BY <1>2 DEF Run!EmitGive, Run!Post, NoLostWakeup, Run!run
<1>3. CASE \/ \E h \in Hosts : Run!HostEnds(h) \/ \E s \in Commandable : Run!HostBegins(h, s)
           \/ \E i \in 1 .. MaxJobs : Run!Tick(i)
           \/ UNCHANGED Run!vars
  <2>1. worker' = worker /\ state' = state /\ wake' = wake /\ queue' = queue /\ giving' = giving
    BY <1>3 DEF Run!HostEnds, Run!HostBegins, Run!Tick, Run!vars, Run!run
  <2> QED BY <2>1, TokensStay
<1> QED BY <1>1, <1>2, <1>3

LEMMA CallersKeepTokens ==
  ASSUME NEW c \in Callers, NoLostWakeup,
         \/ \E schedules \in Configurations : Run!Configure(c, schedules)
         \/ Run!BeginStart(c) \/ Run!BeginStop(c) \/ Run!CallerStep(c) \/ Run!StopReturns(c)
  PROVE  NoLostWakeup'
<1>1. CASE \E schedules \in Configurations : Run!Configure(c, schedules)
  BY <1>1, TokensStay DEF Run!Configure
<1>2. CASE Run!BeginStart(c) \/ Run!BeginStop(c)
  BY <1>2 DEF Run!BeginStart, Run!BeginStop, NoLostWakeup
<1>3. CASE Run!Started(c) \/ Run!StopRequested(c)
  BY <1>3 DEF Run!Started, Run!StopRequested, NoLostWakeup
<1>4. CASE \/ Run!ArmPolled(c) \/ Run!Arm(c) \/ Run!Armed(c) \/ Run!ArmFails(c) \/ Run!SkipDisarm(c)
           \/ Run!Disarm(c) \/ Run!Disarmed(c) \/ Run!StartFailed(c) \/ Run!StopReturns(c)
  <2>1. worker' = worker /\ state' = state /\ wake' = wake /\ queue' = queue /\ giving' = giving
    BY <1>4 DEF Run!ArmPolled, Run!Arm, Run!Armed, Run!ArmFails, Run!SkipDisarm, Run!Disarm,
       Run!Disarmed, Run!StartFailed, Run!StopReturns
  <2> QED BY <2>1, TokensStay
<1> QED BY <1>1, <1>2, <1>3, <1>4 DEF Run!CallerStep

LEMMA RunKeepsTokens ==
  Quiet /\ NoLostWakeup /\ [Run!Next]_Run!vars => NoLostWakeup'
  BY WorkerKeepsTokens, CallersKeepTokens, OthersKeepTokens DEF Run!Next

LEMMA RunIsQuiet == Run!Spec => []Quiet
  BY RunStart, RunKeepsQuiet, PTL DEF Run!Spec

\* When the state says STOPPED, and Config is free to remove Modules, the worker is in
\* no driver, no rule and no publication: active_operations counts what it has open.
THEOREM StopIsQuiet == Run!Spec => [](ActiveCountsWork /\ StoppedIsQuiet)
  BY RunIsQuiet, PTL DEF Quiet

\* The worker only calls rules whose contexts are alive.
THEOREM RulesAreAlive == Run!Spec => []RulesOutliveDispatch
  BY RunIsQuiet, PTL DEF Quiet

\* The worker never sleeps through a start or an event: a token is there, or a driver
\* that has queued its event is about to give one.
THEOREM WakeupsArrive == Run!Spec => []NoLostWakeup
  BY RunStart, RunIsQuiet, RunKeepsTokens, PTL DEF Run!Spec

-----------------------------------------------------------------------------
(* What Runtime does to the Modules.  Its threads are threads of the Manager, *)
(* so that what is proved above of every set of threads holds of them.        *)

\* What RuntimeAssumption says
RuntimeLimits ==
    /\ MaxJobs \in Nat \ {0}
    /\ MaxQueue \in Nat
    /\ MaxDepth \in Nat
    /\ Worker \notin Callers \cup Hosts
    /\ Callers \cap Hosts = {}
    /\ Nobody \notin Callers \cup Slots
    /\ Installed \in [Slots -> Requests]
    /\ Commandable \subseteq Slots
    /\ \A c \in Configurations :
          /\ c \in Seq([source : Slots, enabled : BOOLEAN])
          /\ Len(c) <= MaxJobs

\* The threads of the Manager are those that Runtime gives it
SameThreads == Threads = Callers \cup Hosts \cup {Worker}

WorkerType == [place : Run!WorkerPlaces, back : Returns, wait : {"none", "timed", "forever"},
               job : 1 .. MaxJobs, event : Run!Events, rules : {0, 1}, ok : BOOLEAN]

CallerType == [place : Run!CallerPlaces, job : 1 .. MaxJobs + 1, starting : BOOLEAN]

\* The worker reads a Module that is one, and rules command below the cut.
WorkerGood ==
    /\ worker \in WorkerType
    /\ worker.place \in {"read", "reading"} => worker.event.source \in Slots
    /\ worker.place = "command" => worker.event.depth < MaxDepth

Locking == {"arm", "arming", "disarm", "disarming"}

\* Arming and disarming happen under the lock, of jobs that cannot change meanwhile.
CallersGood ==
    /\ caller \in [Callers -> CallerType]
    /\ \A c \in Callers :
          /\ caller[c].place \in Locking <=> lock = c
          /\ caller[c].place \in {"arming", "disarming"} => caller[c].job \in DOMAIN jobs

\* What the rest of Runtime's state looks like
RestGood ==
    /\ state \in {"STOPPED", "RUNNING", "STOPPING"}
    /\ jobs \in Configurations
    /\ armed_jobs \subseteq DOMAIN jobs
    /\ due \subseteq DOMAIN jobs
    /\ rules \in {0, 1}
    /\ queue \in Seq(Run!Events) /\ Len(queue) <= MaxQueue
    /\ wake \in BOOLEAN /\ stopped \in BOOLEAN
    /\ lock \in Callers \cup {Nobody}
    /\ listener \in [Slots -> 1 .. MaxJobs]
    /\ giving \subseteq Slots

\* A thread of Runtime is inside a driver exactly when Runtime has it there.
DriversMatch ==
    /\ \A c \in Callers : pc[c] = CASE caller[c].place = "arming" -> "start_events"
                                    [] caller[c].place = "disarming" -> "stop_events"
                                    [] OTHER -> "idle"
    /\ \A h \in Hosts : pc[h] \in {"idle", "command"}
    /\ pc[Worker] = CASE worker.place = "reading" -> "read"
                      [] worker.place = "command" -> "command"
                      [] OTHER -> "idle"

RunInv == Quiet /\ SafeInv /\ WorkerGood /\ CallersGood /\ RestGood /\ DriversMatch

LEMMA SameSlots == Run!Slots = Slots
  BY DEF Run!Slots, Slots

\* Runtime calls the Manager's own operations.
LEMMA SameCalls ==
  ASSUME NEW t
  PROVE  /\ \A s, op : Run!Manager!Borrow(t, s, op) => Borrow(t, s, op)
         /\ Run!Manager!FinishRead(t) => FinishRead(t)
         /\ Run!Manager!FinishStartEvents(t) => FinishStartEvents(t)
         /\ Run!Manager!FinishStopEvents(t) => FinishStopEvents(t)
         /\ Run!Manager!FinishUnchanged(t) => FinishUnchanged(t)
<1>1. \A s, op : Run!Manager!Borrow(t, s, op) => Borrow(t, s, op)
  BY DEF Run!Manager!Borrow, Borrow, Run!Manager!Available, Available, Run!Manager!MayBorrow, MayBorrow,
         Run!Manager!Request, Request, Run!Manager!Goto, Goto, Run!Manager!portVars, portVars,
         Run!Manager!externals, externals
<1> USE DEF Run!Manager!Return, Return, Run!Manager!Leave, Leave, Run!Manager!Goto, Goto,
            Run!Manager!portVars, portVars
<1>2. Run!Manager!FinishRead(t) => FinishRead(t)
  BY DEF Run!Manager!FinishRead, FinishRead, Run!Manager!NextSequence, NextSequence
<1>3. Run!Manager!FinishStartEvents(t) => FinishStartEvents(t)
  BY DEF Run!Manager!FinishStartEvents, FinishStartEvents
<1>4. Run!Manager!FinishStopEvents(t) => FinishStopEvents(t)
  BY DEF Run!Manager!FinishStopEvents, FinishStopEvents
<1>5. Run!Manager!FinishUnchanged(t) => FinishUnchanged(t)
  BY DEF Run!Manager!FinishUnchanged, FinishUnchanged
<1> QED BY <1>1, <1>2, <1>3, <1>4, <1>5

\* A thread enters a driver, or comes out of it; the others stay where they are.
Enters(t, op) == pc'[t] = op /\ \A u \in Threads \ {t} : pc'[u] = pc[u]
Leaves(t) == Enters(t, "idle")

LEMMA CallsMove ==
  ASSUME TypeOK, NEW t \in Threads
  PROVE  /\ \A s, op : Run!Manager!Borrow(t, s, op) => Enters(t, op)
         /\ Run!Manager!FinishRead(t) => Leaves(t)
         /\ Run!Manager!FinishStartEvents(t) => Leaves(t)
         /\ Run!Manager!FinishStopEvents(t) => Leaves(t)
         /\ Run!Manager!FinishUnchanged(t) => Leaves(t)
<1>1. \A s, op : Borrow(t, s, op) => Enters(t, op)
  BY DEF Borrow, Goto, Enters, TypeOK
<1>2. FinishRead(t) \/ FinishStartEvents(t) \/ FinishStopEvents(t) \/ FinishUnchanged(t) => Leaves(t)
  BY DEF FinishRead, FinishStartEvents, FinishStopEvents, FinishUnchanged, Return, Leave, Goto,
         Leaves, Enters, TypeOK
<1> QED BY <1>1, <1>2, SameCalls

\* A call that Runtime makes for one of its threads is a step of the Manager.
LEMMA CallsAreSteps ==
  ASSUME NEW t \in Threads,
         \/ \E s \in Slots, op \in {"read", "command", "start_events", "stop_events"} :
                Run!Manager!Borrow(t, s, op)
         \/ Run!Manager!FinishRead(t) \/ Run!Manager!FinishStartEvents(t)
         \/ Run!Manager!FinishStopEvents(t) \/ Run!Manager!FinishUnchanged(t)
  PROVE  Next
<1>1. CASE \E s \in Slots, op \in {"read", "command", "start_events", "stop_events"} :
               Run!Manager!Borrow(t, s, op)
  <2>1. \E s \in Slots, op \in {"read", "command", "start_events", "stop_events"} : Borrow(t, s, op)
    BY <1>1, SameCalls
  <2> QED BY <2>1 DEF Next, Begin
<1>2. CASE \/ Run!Manager!FinishRead(t) \/ Run!Manager!FinishStartEvents(t)
           \/ Run!Manager!FinishStopEvents(t) \/ Run!Manager!FinishUnchanged(t)
  <2>1. FinishRead(t) \/ FinishStartEvents(t) \/ FinishStopEvents(t) \/ FinishUnchanged(t)
    BY <1>2, SameCalls
  <2> QED BY <2>1 DEF Next, Continue
<1> QED BY <1>1, <1>2

LEMMA ElementsOfSequences ==
  \A S : \A s \in Seq(S) : \A i \in 1 .. Len(s) : s[i] \in S
OBVIOUS

LEMMA JobFacts ==
  ASSUME RuntimeLimits, RestGood
  PROVE  /\ Len(jobs) \in Nat /\ Len(jobs) <= MaxJobs /\ DOMAIN jobs = 1 .. Len(jobs)
         /\ DOMAIN jobs \subseteq 1 .. MaxJobs
         /\ \A i \in DOMAIN jobs : jobs[i].source \in Slots /\ jobs[i].enabled \in BOOLEAN
<1>1. jobs \in Seq([source : Slots, enabled : BOOLEAN]) /\ Len(jobs) <= MaxJobs
  BY DEF RuntimeLimits, RestGood
<1>2. Len(jobs) \in Nat /\ DOMAIN jobs = 1 .. Len(jobs)
  BY <1>1
<1>3. \A i \in 1 .. Len(jobs) : jobs[i] \in [source : Slots, enabled : BOOLEAN]
  BY <1>1, ElementsOfSequences, Zenon
<1>4. \A i \in DOMAIN jobs : jobs[i].source \in Slots /\ jobs[i].enabled \in BOOLEAN
  BY <1>2, <1>3
<1> QED BY <1>1, <1>2, <1>4 DEF RuntimeLimits


\* The worker
LEMMA WorkerParts ==
  ASSUME NEW w \in WorkerType
  PROVE  /\ w.place \in Run!WorkerPlaces /\ w.back \in Returns /\ w.wait \in {"none", "timed", "forever"}
         /\ w.job \in 1 .. MaxJobs /\ w.event \in Run!Events /\ w.rules \in {0, 1} /\ w.ok \in BOOLEAN
         /\ w.event.source \in Run!Slots \cup {Nobody} /\ w.event.depth \in 0 .. MaxDepth
<1>1. /\ w.place \in Run!WorkerPlaces /\ w.back \in Returns /\ w.wait \in {"none", "timed", "forever"}
      /\ w.job \in 1 .. MaxJobs /\ w.event \in Run!Events /\ w.rules \in {0, 1} /\ w.ok \in BOOLEAN
  BY DEF WorkerType
<1> QED BY <1>1 DEF Run!Events

\* A new place leaves the rest of the worker alone.
LEMMA WorkerGoes ==
  ASSUME worker \in WorkerType, NEW place \in Run!WorkerPlaces, Run!WorkerTo(place)
  PROVE  worker' \in WorkerType /\ worker'.place = place /\ worker'.event = worker.event
BY DEF Run!WorkerTo, WorkerType

LEMMA AtIsWorker ==
  ASSUME RuntimeLimits, NEW place \in Run!WorkerPlaces
  PROVE  Run!At(place) \in WorkerType /\ Run!At(place).place = place
<1>1. Run!NoEvent \in Run!Events
  BY DEF Run!NoEvent, Run!Events, RuntimeLimits
<1>2. 1 \in 1 .. MaxJobs
  BY DEF RuntimeLimits
<1> QED BY <1>1, <1>2 DEF Run!At, WorkerType

LEMMA NextIsWorker ==
  ASSUME RuntimeLimits, worker \in WorkerType
  PROVE  Run!NextPlace \in WorkerType /\ Run!NextPlace.place \in Returns
<1>p. Returns \subseteq Run!WorkerPlaces
  BY DEF Run!WorkerPlaces
<1>1. CASE worker.back = "jobs" /\ worker.job < MaxJobs
  <2>1. worker.job + 1 \in 1 .. MaxJobs
    BY <1>1, WorkerParts DEF RuntimeLimits
  <2>2. Run!At("jobs") \in WorkerType /\ Run!At("jobs").place = "jobs"
    BY <1>p, AtIsWorker
  <2>3. Run!NextPlace = [Run!At("jobs") EXCEPT !.job = worker.job + 1]
    BY <1>1 DEF Run!NextPlace
  <2> QED BY <2>1, <2>2, <2>3 DEF WorkerType
<1>2. CASE ~(worker.back = "jobs" /\ worker.job < MaxJobs)
  <2>1. PICK place \in Returns : Run!NextPlace = Run!At(place)
    BY <1>2, WorkerParts DEF Run!NextPlace
  <2> QED BY <1>p, <2>1, AtIsWorker
<1> QED BY <1>1, <1>2

\* Where the worker neither reads nor commands, its type is all there is to say.
LEMMA WorkerElsewhere ==
  ASSUME worker' \in WorkerType, worker'.place \notin {"read", "reading", "command"}
  PROVE  WorkerGood'
BY DEF WorkerGood

\* The steps of the worker outside the Manager
WorkerAlone ==
  \/ Run!LoopRunning \/ Run!LoopNotRunning \/ Run!Unpark \/ Run!TakeEvent \/ Run!NoMoreEvents \/ Run!WakeUp
  \/ Run!ProcessEvent \/ Run!DropEvent \/ Run!TakeJob \/ Run!SkipJob \/ Run!ReadRefused \/ Run!Advance
  \/ Run!Publish \/ Run!Dispatch \/ Run!DispatchStopped \/ Run!RulesDone \/ Run!Complete

LEMMA WorkerAloneGood ==
  ASSUME RuntimeLimits, WorkerGood, RestGood, WorkerAlone
  PROVE  WorkerGood' /\ worker.place \notin {"reading", "command"} /\ worker'.place \notin {"reading", "command"}
<1>w. worker \in WorkerType
  BY DEF WorkerGood
<1>p. /\ worker.place \in Run!WorkerPlaces /\ worker.back \in Returns
      /\ worker.wait \in {"none", "timed", "forever"} /\ worker.job \in 1 .. MaxJobs
      /\ worker.event \in Run!Events /\ worker.rules \in {0, 1} /\ worker.ok \in BOOLEAN
      /\ worker.event.source \in Run!Slots \cup {Nobody} /\ worker.event.depth \in 0 .. MaxDepth
  BY <1>w, WorkerParts
<1>o. ASSUME NEW place \in Run!WorkerPlaces \ {"read", "reading", "command"}, Run!WorkerTo(place)
      PROVE  WorkerGood' /\ worker'.place = place
  <2>1. worker' \in WorkerType /\ worker'.place = place
    BY <1>w, <1>o, WorkerGoes
  <2> QED BY <2>1, WorkerElsewhere
<1>n. ASSUME worker' = Run!NextPlace
      PROVE  WorkerGood' /\ worker'.place \in Returns
  <2>1. worker' \in WorkerType /\ worker'.place \in Returns
    BY <1>w, <1>n, NextIsWorker
  <2> QED BY <2>1, WorkerElsewhere
<1>a. ASSUME NEW place \in {"loop", "drain"}, worker' = Run!At(place)
      PROVE  WorkerGood' /\ worker'.place = place
  <2>1. worker' \in WorkerType /\ worker'.place = place
    BY <1>a, AtIsWorker DEF Run!WorkerPlaces
  <2> QED BY <2>1, WorkerElsewhere
<1> USE DEF Run!WorkerPlaces
<1>1. CASE Run!LoopRunning
  <2>1. worker.place = "loop" /\ worker' = [worker EXCEPT !.place = "poll", !.wait = Run!Wait]
    BY <1>1 DEF Run!LoopRunning
  <2>2. Run!Wait \in {"none", "timed", "forever"}
    BY DEF Run!Wait
  <2>3. worker' \in WorkerType /\ worker'.place = "poll"
    BY <1>w, <2>1, <2>2 DEF WorkerType
  <2> QED BY <2>1, <2>3, WorkerElsewhere
<1>2. CASE Run!LoopNotRunning BY <1>2, <1>o DEF Run!LoopNotRunning
<1>3. CASE Run!Unpark BY <1>3, <1>o DEF Run!Unpark
<1>4. CASE Run!TakeEvent
  <2>1. PICK back \in Returns : 
            /\ worker.place \in {"poll", "drain"} /\ queue # <<>>
            /\ worker' = [worker EXCEPT !.place = "event", !.event = Head(queue), !.wait = "none", !.back = back]
    BY <1>4 DEF Run!TakeEvent
  <2>2. Head(queue) \in Run!Events
    BY <2>1 DEF RestGood
  <2>3. worker' \in WorkerType /\ worker'.place = "event"
    BY <1>w, <2>1, <2>2 DEF WorkerType
  <2> QED BY <2>1, <2>3, WorkerElsewhere
<1>5. CASE Run!NoMoreEvents BY <1>5, <1>o DEF Run!NoMoreEvents
<1>6. CASE Run!WakeUp BY <1>6, <1>a DEF Run!WakeUp
<1>7. CASE Run!ProcessEvent BY <1>7, <1>o DEF Run!ProcessEvent
<1>8. CASE Run!DropEvent BY <1>8, <1>n DEF Run!DropEvent
<1>9. CASE Run!TakeJob
  <2>1. PICK e \in Run!Events :
            /\ worker.place = "jobs" /\ e.source \in Slots
            /\ worker' = [worker EXCEPT !.place = "read", !.back = "jobs", !.event = e]
    <3>1. worker.place = "jobs" /\ worker.job \in DOMAIN jobs
      BY <1>9 DEF Run!TakeJob, Run!JobIsDue
    <3>2. jobs[worker.job].source \in Slots
      BY <3>1, JobFacts
    <3>3. [source |-> jobs[worker.job].source, depth |-> 0] \in Run!Events
      BY <3>2, SameSlots DEF Run!Events, RuntimeLimits
    <3> QED BY <1>9, <3>1, <3>2, <3>3 DEF Run!TakeJob
  <2>2. worker' \in WorkerType /\ worker'.place = "read" /\ worker'.event = e
    BY <1>w, <2>1 DEF WorkerType
  <2> QED BY <2>1, <2>2 DEF WorkerGood
<1>10. CASE Run!SkipJob
  <2>1. CASE worker.job < MaxJobs
    <3>1. worker.place = "jobs" /\ worker' = [worker EXCEPT !.job = worker.job + 1]
      BY <1>10, <2>1 DEF Run!SkipJob
    <3>2. worker.job + 1 \in 1 .. MaxJobs
      BY <1>p, <2>1 DEF RuntimeLimits
    <3>3. worker' \in WorkerType /\ worker'.place = "jobs"
      BY <1>w, <3>1, <3>2 DEF WorkerType
    <3> QED BY <3>1, <3>3, WorkerElsewhere
  <2>2. CASE ~(worker.job < MaxJobs)
    BY <1>10, <2>2, <1>a DEF Run!SkipJob
  <2> QED BY <2>1, <2>2
<1>11. CASE Run!ReadRefused
  <2>1. worker.place = "read" /\ worker' = [worker EXCEPT !.place = "advance", !.ok = FALSE]
    BY <1>11 DEF Run!ReadRefused
  <2>2. worker' \in WorkerType /\ worker'.place = "advance"
    BY <1>w, <2>1 DEF WorkerType
  <2> QED BY <2>1, <2>2, WorkerElsewhere
<1>12. CASE Run!Advance
  <2>1. PICK place \in {"publish", "complete"} :
            worker.place = "advance" /\ worker' = [worker EXCEPT !.place = place, !.ok = FALSE]
    BY <1>12 DEF Run!Advance
  <2>2. worker' \in WorkerType /\ worker'.place = place
    BY <1>w, <2>1 DEF WorkerType
  <2> QED BY <2>1, <2>2, WorkerElsewhere
<1>13. CASE Run!Publish BY <1>13, <1>o DEF Run!Publish
<1>14. CASE Run!Dispatch
  <2>1. worker.place = "dispatch" /\ worker' = [worker EXCEPT !.place = "rules", !.rules = rules]
    BY <1>14 DEF Run!Dispatch
  <2>2. worker' \in WorkerType /\ worker'.place = "rules"
    BY <1>w, <2>1 DEF WorkerType, RestGood
  <2> QED BY <2>1, <2>2, WorkerElsewhere
<1>15. CASE Run!DispatchStopped BY <1>15, <1>o DEF Run!DispatchStopped
<1>16. CASE Run!RulesDone
  <2>1. PICK place \in {"dispatch", "complete"} :
            worker.place = "rules" /\ worker' = [worker EXCEPT !.place = place, !.rules = 0]
    BY <1>16 DEF Run!RulesDone, Run!CompleteOperation
  <2>2. worker' \in WorkerType /\ worker'.place = place
    BY <1>w, <2>1 DEF WorkerType
  <2> QED BY <2>1, <2>2, WorkerElsewhere
<1>17. CASE Run!Complete BY <1>17, <1>n DEF Run!Complete, Run!CompleteOperation
<1> QED BY <1>1, <1>2, <1>3, <1>4, <1>5, <1>6, <1>7, <1>8, <1>9, <1>10, <1>11, <1>12, <1>13, <1>14,
      <1>15, <1>16, <1>17 DEF WorkerAlone


\* The callers
LEMMA CallerGoes ==
  ASSUME caller \in [Callers -> CallerType], NEW c \in Callers, NEW place \in Run!CallerPlaces,
         NEW job \in 1 .. MaxJobs + 1, Run!CallerTo(c, place, job)
  PROVE  /\ caller' \in [Callers -> CallerType]
         /\ caller'[c].place = place /\ caller'[c].job = job
         /\ \A d \in Callers \ {c} : caller'[d] = caller[d]
<1>1. PICK r \in CallerType : r = [caller[c] EXCEPT !.place = place, !.job = job]
  BY DEF CallerType
<1>2. r.place = place /\ r.job = job
  BY <1>1 DEF CallerType
<1>3. caller' = [d \in Callers |-> IF d = c THEN r ELSE caller[d]]
  BY <1>1 DEF Run!CallerTo, CallerType
<1> QED BY <1>2, <1>3

\* A caller that waits for a stop is told, or nothing happens to the callers.
CallersTold ==
  \A c \in Callers : \/ caller'[c] = caller[c]
                     \/ caller[c].place = "await" /\ caller'[c].place = "idle"

LEMMA StopTells ==
  ASSUME caller \in [Callers -> CallerType], state \in {"STOPPED", "RUNNING", "STOPPING"},
         stopped \in BOOLEAN, NEW n, Run!FinishStopIfQuiescent(n)
  PROVE  /\ state' \in {"STOPPED", "RUNNING", "STOPPING"} /\ stopped' \in BOOLEAN
         /\ caller' \in [Callers -> CallerType] /\ CallersTold
<1>1. \/ UNCHANGED <<state, stopped, caller>>
      \/ state' = "STOPPED" /\ Run!GiveStopped
  BY DEF Run!FinishStopIfQuiescent
<1>2. CASE UNCHANGED <<state, stopped, caller>>
  BY <1>2 DEF CallersTold
<1>3. CASE state' = "STOPPED" /\ Run!GiveStopped
  <2>1. CASE \E c \in Callers : caller[c].place = "await"
    <3>1. PICK c \in Callers : caller[c].place = "await" /\ caller' = [caller EXCEPT ![c].place = "idle"]
      BY <1>3, <2>1 DEF Run!GiveStopped
    <3>2. stopped' = stopped
      BY <1>3, <2>1 DEF Run!GiveStopped
    <3>3. PICK r \in CallerType : r = [caller[c] EXCEPT !.place = "idle"]
      BY DEF CallerType, Run!CallerPlaces
    <3>4. r.place = "idle"
      BY <3>3 DEF CallerType
    <3>5. caller' = [d \in Callers |-> IF d = c THEN r ELSE caller[d]]
      BY <3>1, <3>3
    <3> QED BY <1>3, <3>1, <3>2, <3>4, <3>5 DEF CallersTold
  <2>2. CASE ~\E c \in Callers : caller[c].place = "await"
    BY <1>3, <2>2 DEF Run!GiveStopped, CallersTold
  <2> QED BY <2>1, <2>2
<1> QED BY <1>1, <1>2, <1>3

LEMMA ToldCallersGood ==
  ASSUME CallersGood, CallersTold, caller' \in [Callers -> CallerType], jobs' = jobs, lock' = lock
  PROVE  CallersGood'
<1>1. ASSUME NEW c \in Callers
      PROVE  /\ caller'[c].place \in Locking <=> lock' = c
             /\ caller'[c].place \in {"arming", "disarming"} => caller'[c].job \in DOMAIN jobs'
  <2>1. CASE caller'[c] = caller[c]
    BY <2>1 DEF CallersGood
  <2>2. CASE caller[c].place = "await" /\ caller'[c].place = "idle"
    BY <2>2 DEF CallersGood, Locking
  <2> QED BY <2>1, <2>2 DEF CallersTold
<1> QED BY <1>1 DEF CallersGood

\* What the worker changes outside the Manager
LEMMA WorkerAloneFrame ==
  ASSUME RestGood, CallersGood, WorkerAlone
  PROVE  /\ UNCHANGED <<Run!manager, jobs, armed_jobs, rules, lock, listener, giving>>
         /\ due' \subseteq due
         /\ queue' = queue \/ (queue # <<>> /\ queue' = Tail(queue))
         /\ wake' \in {wake, FALSE}
         /\ state' \in {"STOPPED", "RUNNING", "STOPPING"} /\ stopped' \in BOOLEAN
         /\ caller' \in [Callers -> CallerType] /\ CallersTold
<1>t. caller \in [Callers -> CallerType] /\ state \in {"STOPPED", "RUNNING", "STOPPING"} /\ stopped \in BOOLEAN
  BY DEF RestGood, CallersGood
<1>1. CASE Run!LoopNotRunning \/ Run!RulesDone \/ Run!Complete
  <2>1. /\ UNCHANGED <<Run!manager, jobs, armed_jobs, rules, lock, listener, giving, due, queue, wake>>
        /\ \E n \in {active, active - 1} : Run!FinishStopIfQuiescent(n)
    BY <1>1 DEF Run!LoopNotRunning, Run!RulesDone, Run!Complete, Run!CompleteOperation
  <2>2. /\ state' \in {"STOPPED", "RUNNING", "STOPPING"} /\ stopped' \in BOOLEAN
        /\ caller' \in [Callers -> CallerType] /\ CallersTold
    BY <1>t, <2>1, StopTells
  <2> QED BY <2>1, <2>2
<1>2. CASE Run!LoopRunning \/ Run!Unpark \/ Run!TakeEvent \/ Run!NoMoreEvents \/ Run!WakeUp
           \/ Run!ProcessEvent \/ Run!DropEvent \/ Run!TakeJob \/ Run!SkipJob \/ Run!ReadRefused
           \/ Run!Advance \/ Run!Publish \/ Run!Dispatch \/ Run!DispatchStopped
  <2>1. /\ UNCHANGED <<Run!manager, Run!run, state>>
        /\ wake' \in {wake, FALSE}
        /\ queue' = queue \/ (queue # <<>> /\ queue' = Tail(queue))
        /\ due' \subseteq due
    BY <1>2 DEF Run!LoopRunning, Run!Unpark, Run!TakeEvent, Run!NoMoreEvents, Run!WakeUp,
       Run!ProcessEvent, Run!DropEvent, Run!TakeJob, Run!SkipJob, Run!ReadRefused,
       Run!Advance, Run!Publish, Run!Dispatch, Run!DispatchStopped
  <2> QED BY <1>t, <2>1 DEF Run!run, CallersTold
<1> QED BY <1>1, <1>2 DEF WorkerAlone

LEMMA DomainStays ==
  ASSUME RestGood, UNCHANGED <<jobs, armed_jobs, rules, lock, listener, giving>>,
         due' \subseteq due,
         queue' \in Seq(Run!Events), Len(queue') <= MaxQueue,
         wake' \in BOOLEAN, stopped' \in BOOLEAN, state' \in {"STOPPED", "RUNNING", "STOPPING"}
  PROVE  RestGood'
BY DEF RestGood

LEMMA QueueTypes ==
  ASSUME RuntimeLimits, RestGood
  PROVE  /\ queue # <<>> => Tail(queue) \in Seq(Run!Events) /\ Len(Tail(queue)) <= MaxQueue
         /\ \A e \in Run!Events : Len(queue) < MaxQueue =>
                Append(queue, e) \in Seq(Run!Events) /\ Len(Append(queue, e)) <= MaxQueue
         /\ <<>> \in Seq(Run!Events) /\ Len(<<>>) <= MaxQueue
<1>t. queue \in Seq(Run!Events) /\ Len(queue) <= MaxQueue /\ MaxQueue \in Nat /\ Len(queue) \in Nat
  BY DEF RuntimeLimits, RestGood
<1>1. queue # <<>> => Tail(queue) \in Seq(Run!Events) /\ Len(Tail(queue)) = Len(queue) - 1
  BY <1>t
<1>2. \A e \in Run!Events : Append(queue, e) \in Seq(Run!Events) /\ Len(Append(queue, e)) = Len(queue) + 1
  BY <1>t
<1> QED BY <1>t, <1>1, <1>2

LEMMA WorkerAloneKeeps ==
  ASSUME RuntimeLimits, RunInv, WorkerAlone
  PROVE  UNCHANGED vars /\ WorkerGood' /\ CallersGood' /\ RestGood' /\ DriversMatch'
<1>i. WorkerGood /\ CallersGood /\ RestGood /\ DriversMatch
  BY DEF RunInv
<1>f. /\ UNCHANGED <<Run!manager, jobs, armed_jobs, rules, lock, listener, giving>>
      /\ due' \subseteq due
      /\ queue' = queue \/ (queue # <<>> /\ queue' = Tail(queue))
      /\ wake' \in {wake, FALSE}
      /\ state' \in {"STOPPED", "RUNNING", "STOPPING"} /\ stopped' \in BOOLEAN
      /\ caller' \in [Callers -> CallerType] /\ CallersTold
  BY <1>i, WorkerAloneFrame
<1>w. WorkerGood' /\ worker.place \notin {"reading", "command"} /\ worker'.place \notin {"reading", "command"}
  BY <1>i, WorkerAloneGood
<1>1. UNCHANGED vars /\ pc' = pc
  BY <1>f DEF Run!manager, vars
<1>2. CallersGood'
  BY <1>i, <1>f, ToldCallersGood
<1>3. RestGood'
  <2>1. queue' \in Seq(Run!Events) /\ Len(queue') <= MaxQueue
    BY <1>i, <1>f, QueueTypes DEF RestGood
  <2>2. wake' \in BOOLEAN
    BY <1>i, <1>f DEF RestGood
  <2> QED BY <1>i, <1>f, <2>1, <2>2, DomainStays
<1>4. DriversMatch'
  <2>1. ASSUME NEW c \in Callers
        PROVE  pc[c] = CASE caller'[c].place = "arming" -> "start_events"
                         [] caller'[c].place = "disarming" -> "stop_events"
                         [] OTHER -> "idle"
    <3>1. CASE caller'[c] = caller[c]
      BY <1>i, <3>1 DEF DriversMatch
    <3>2. CASE caller[c].place = "await" /\ caller'[c].place = "idle"
      BY <1>i, <3>2 DEF DriversMatch
    <3> QED BY <1>f, <3>1, <3>2 DEF CallersTold
  <2> QED BY <1>i, <1>w, <1>1, <2>1 DEF DriversMatch
<1> QED BY <1>w, <1>1, <1>2, <1>3, <1>4


\* The steps of the worker into a driver and out of it
WorkerCalls ==
  \/ Run!ReadJob \/ Run!ReadReturns \/ Run!CommandReturns
  \/ \E s \in Commandable : Run!RuleCommands(s)

LEMMA WorkerStepSplits == Run!WorkerStep => WorkerAlone \/ WorkerCalls
  BY DEF Run!WorkerStep, WorkerAlone, WorkerCalls

\* When only the worker's place among the drivers changes
LEMMA WorkerMoves ==
  ASSUME RuntimeLimits, SameThreads, DriversMatch, NEW op, Enters(Worker, op), caller' = caller,
         op = CASE worker'.place = "reading" -> "read"
                [] worker'.place = "command" -> "command"
                [] OTHER -> "idle"
  PROVE  DriversMatch'
<1>1. \A t \in Callers \cup Hosts : t \in Threads /\ t # Worker
  BY DEF RuntimeLimits, SameThreads
<1>2. \A t \in Callers \cup Hosts : pc'[t] = pc[t]
  BY <1>1 DEF Enters
<1>3. pc'[Worker] = op
  BY DEF Enters
<1> QED BY <1>2, <1>3 DEF DriversMatch

LEMMA WorkerCallsKeep ==
  ASSUME RuntimeLimits, SameThreads, RunInv, WorkerCalls
  PROVE  Next /\ WorkerGood' /\ CallersGood' /\ RestGood' /\ DriversMatch'
<1>i. WorkerGood /\ CallersGood /\ RestGood /\ DriversMatch /\ TypeOK /\ worker \in WorkerType
  BY DEF RunInv, SafeInv, WorkerGood
<1>t. Worker \in Threads
  BY DEF SameThreads
<1>p. worker.event \in Run!Events /\ worker.event.depth \in 0 .. MaxDepth
  BY <1>i, WorkerParts
<1>k. ASSUME UNCHANGED <<Run!run, state, due, active, queue, wake>>
      PROVE  CallersGood' /\ RestGood' /\ caller' = caller
  BY <1>i, <1>k DEF Run!run, CallersGood, RestGood
<1> USE DEF Run!WorkerPlaces
<1>1. CASE Run!ReadJob
  <2>1. /\ worker.place = "read" /\ Run!Manager!Borrow(Worker, worker.event.source, "read")
        /\ Run!WorkerTo("reading")
        /\ UNCHANGED <<Run!run, state, due, active, queue, wake>>
    BY <1>1 DEF Run!ReadJob
  <2>2. worker.event.source \in Slots
    BY <1>i, <2>1 DEF WorkerGood
  <2>3. worker' \in WorkerType /\ worker'.place = "reading" /\ worker'.event = worker.event
    BY <1>i, <2>1, WorkerGoes
  <2>4. WorkerGood'
    BY <2>2, <2>3 DEF WorkerGood
  <2>5. Enters(Worker, "read")
    BY <1>i, <1>t, <2>1, CallsMove
  <2>6. Next
    BY <1>t, <2>1, <2>2, CallsAreSteps
  <2> QED BY <1>i, <1>k, <2>1, <2>3, <2>4, <2>5, <2>6, WorkerMoves
<1>2. CASE Run!ReadReturns
  <2>1. PICK ok \in BOOLEAN :
            /\ worker.place = "reading"
            /\ Run!Manager!FinishRead(Worker) \/ Run!Manager!FinishUnchanged(Worker)
            /\ worker' = [worker EXCEPT !.place = "advance", !.ok = ok]
            /\ UNCHANGED <<Run!run, state, due, active, queue, wake>>
    BY <1>2 DEF Run!ReadReturns
  <2>2. worker' \in WorkerType /\ worker'.place = "advance"
    BY <1>i, <2>1 DEF WorkerType
  <2>3. WorkerGood'
    BY <2>2, WorkerElsewhere
  <2>4. Enters(Worker, "idle")
    BY <1>i, <1>t, <2>1, CallsMove DEF Leaves
  <2>5. Next
    BY <1>t, <2>1, CallsAreSteps
  <2> QED BY <1>i, <1>k, <2>1, <2>2, <2>3, <2>4, <2>5, WorkerMoves
<1>3. CASE \E s \in Commandable : Run!RuleCommands(s)
  <2>1. PICK s \in Commandable :
            /\ worker.event.depth < MaxDepth
            /\ Run!Manager!Borrow(Worker, s, "command") /\ Run!WorkerTo("command")
            /\ UNCHANGED <<Run!run, state, due, active, queue, wake>>
    BY <1>3 DEF Run!RuleCommands
  <2>2. s \in Slots
    BY DEF RuntimeLimits
  <2>3. worker' \in WorkerType /\ worker'.place = "command" /\ worker'.event = worker.event
    BY <1>i, <2>1, WorkerGoes
  <2>4. WorkerGood'
    BY <2>1, <2>3 DEF WorkerGood
  <2>5. Enters(Worker, "command")
    BY <1>i, <1>t, <2>1, CallsMove
  <2>6. Next
    BY <1>t, <2>1, <2>2, CallsAreSteps
  <2> QED BY <1>i, <1>k, <2>1, <2>3, <2>4, <2>5, <2>6, WorkerMoves
<1>4. CASE Run!CommandReturns
  <2>1. /\ worker.place = "command" /\ Run!Manager!FinishUnchanged(Worker) /\ Run!WorkerTo("rules")
        /\ UNCHANGED <<Run!run, state, due, active>>
    BY <1>4 DEF Run!CommandReturns
  <2>2. PICK e : e = [source |-> at[Worker], depth |-> worker.event.depth + 1]
    OBVIOUS
  <2>3. \/ UNCHANGED <<queue, wake>>
        \/ Len(queue) < MaxQueue /\ queue' = Append(queue, e) /\ wake' = TRUE
    BY <1>4, <2>2 DEF Run!CommandReturns
  <2>4. e \in Run!Events
    <3>1. at[Worker] \in Run!Slots
      BY <1>i, <1>t, SameSlots DEF TypeOK
    <3>2. worker.event.depth + 1 \in 0 .. MaxDepth
      BY <1>i, <1>p, <2>1 DEF WorkerGood, RuntimeLimits
    <3> QED BY <2>2, <3>1, <3>2 DEF Run!Events
  <2>5. worker' \in WorkerType /\ worker'.place = "rules"
    BY <1>i, <2>1, WorkerGoes
  <2>6. WorkerGood'
    BY <2>5, WorkerElsewhere
  <2>7. Enters(Worker, "idle")
    BY <1>i, <1>t, <2>1, CallsMove DEF Leaves
  <2>8. Next
    BY <1>t, <2>1, CallsAreSteps
  <2>9. queue' \in Seq(Run!Events) /\ Len(queue') <= MaxQueue /\ wake' \in BOOLEAN
    BY <1>i, <2>3, <2>4, QueueTypes DEF RestGood
  <2>10. UNCHANGED <<jobs, armed_jobs, rules, stopped, lock, listener, giving, caller>>
    BY <2>1 DEF Run!run
  <2>11. RestGood'
    <3>1. due' \subseteq due /\ stopped' \in BOOLEAN /\ state' \in {"STOPPED", "RUNNING", "STOPPING"}
      BY <1>i, <2>1, <2>10 DEF RestGood
    <3> QED BY <1>i, <2>9, <2>10, <3>1, DomainStays
  <2>12. CallersGood'
    BY <1>i, <2>10 DEF CallersGood
  <2> QED BY <1>i, <2>5, <2>6, <2>7, <2>8, <2>10, <2>11, <2>12, WorkerMoves
<1> QED BY <1>1, <1>2, <1>3, <1>4 DEF WorkerCalls

-----------------------------------------------------------------------------
(* The steps of the callers *)

\* A caller moves, into a driver or not, and the lock with it.
LEMMA CallerMoves ==
  ASSUME RuntimeLimits, SameThreads, CallersGood, DriversMatch, NEW c \in Callers,
         worker' = worker,
         caller' \in [Callers -> CallerType],
         \A d \in Callers \ {c} : caller'[d] = caller[d],
         jobs' = jobs,
         lock' = IF caller'[c].place \in Locking THEN c ELSE Nobody,
         lock \in {c, Nobody},
         caller'[c].place \in {"arming", "disarming"} => caller'[c].job \in DOMAIN jobs,
         NEW op, op = CASE caller'[c].place = "arming" -> "start_events"
                        [] caller'[c].place = "disarming" -> "stop_events"
                        [] OTHER -> "idle",
         Enters(c, op) \/ (pc' = pc /\ op = pc[c])
  PROVE  CallersGood' /\ DriversMatch'
<1>n. c # Nobody /\ c \in Threads
  BY DEF RuntimeLimits, SameThreads
<1>o. \A t \in Hosts \cup {Worker} : t # c /\ t \in Threads
  BY DEF RuntimeLimits, SameThreads
<1>1. ASSUME NEW d \in Callers
      PROVE  /\ caller'[d].place \in Locking <=> lock' = d
             /\ caller'[d].place \in {"arming", "disarming"} => caller'[d].job \in DOMAIN jobs'
  <2>1. CASE d = c
    BY <1>n, <2>1
  <2>2. CASE d # c
    <3>1. d # Nobody /\ caller'[d] = caller[d]
      BY <2>2 DEF RuntimeLimits
    <3>2. caller[d].place \notin Locking
      BY <2>2, <3>1 DEF CallersGood
    <3> QED BY <2>2, <3>1, <3>2 DEF Locking
  <2> QED BY <2>1, <2>2
<1>2. ASSUME NEW d \in Callers
      PROVE  pc'[d] = CASE caller'[d].place = "arming" -> "start_events"
                        [] caller'[d].place = "disarming" -> "stop_events"
                        [] OTHER -> "idle"
  <2>1. CASE d = c
    BY <2>1 DEF Enters
  <2>2. CASE d # c
    <3>1. pc'[d] = pc[d] /\ caller'[d] = caller[d]
      BY <2>2 DEF Enters, SameThreads
    <3> QED BY <3>1 DEF DriversMatch
  <2> QED BY <2>1, <2>2
<1>3. \A t \in Hosts \cup {Worker} : pc'[t] = pc[t]
  BY <1>o DEF Enters
<1> QED BY <1>1, <1>2, <1>3 DEF CallersGood, DriversMatch


\* A caller that holds the lock goes to another place and keeps the lock while it
\* arms or disarms.
LEMMA LockedMoves ==
  ASSUME RuntimeLimits, SameThreads, RunInv, NEW c \in Callers,
         caller[c].place \in Locking,
         worker' = worker, jobs' = jobs,
         NEW place \in Locking \cup {"idle", "await"}, NEW job \in 1 .. MaxJobs + 1,
         Run!CallerTo(c, place, job),
         lock' = IF place \in Locking THEN lock ELSE Nobody,
         place \in {"arming", "disarming"} => job \in DOMAIN jobs,
         NEW op, op = CASE place = "arming" -> "start_events"
                        [] place = "disarming" -> "stop_events"
                        [] OTHER -> "idle",
         Enters(c, op) \/ (pc' = pc /\ op = pc[c])
  PROVE  CallersGood' /\ DriversMatch'
<1>i. CallersGood /\ DriversMatch /\ caller \in [Callers -> CallerType]
  BY DEF RunInv, CallersGood
<1>1. lock = c
  BY <1>i DEF CallersGood
<1>2. place \in Run!CallerPlaces
  BY DEF Locking, Run!CallerPlaces
<1>3. /\ caller' \in [Callers -> CallerType]
      /\ caller'[c].place = place /\ caller'[c].job = job
      /\ \A d \in Callers \ {c} : caller'[d] = caller[d]
  BY <1>i, <1>2, CallerGoes
<1> QED BY <1>i, <1>1, <1>3, CallerMoves

LEMMA ToldDriversMatch ==
  ASSUME DriversMatch, CallersTold, pc' = pc, worker' = worker
  PROVE  DriversMatch'
<1>1. ASSUME NEW c \in Callers
      PROVE  pc[c] = CASE caller'[c].place = "arming" -> "start_events"
                       [] caller'[c].place = "disarming" -> "stop_events"
                       [] OTHER -> "idle"
  <2>1. CASE caller'[c] = caller[c]
    BY <2>1 DEF DriversMatch
  <2>2. CASE caller[c].place = "await" /\ caller'[c].place = "idle"
    BY <2>2 DEF DriversMatch
  <2> QED BY <2>1, <2>2 DEF CallersTold
<1> QED BY <1>1 DEF DriversMatch

\* The beginning of an operation, and the end of a stop
LEMMA CallersBegin ==
  ASSUME RuntimeLimits, SameThreads, RunInv, NEW c \in Callers,
         \/ \E schedules \in Configurations : Run!Configure(c, schedules)
         \/ Run!BeginStart(c) \/ Run!BeginStop(c) \/ Run!StopReturns(c)
  PROVE  UNCHANGED vars /\ CallersGood' /\ RestGood' /\ DriversMatch'
<1>i. CallersGood /\ RestGood /\ DriversMatch /\ caller \in [Callers -> CallerType] /\ c # Nobody
  BY DEF RunInv, CallersGood, RuntimeLimits
<1>n. 1 \in 1 .. MaxJobs + 1
  BY DEF RuntimeLimits
<1>1. CASE \E schedules \in Configurations : Run!Configure(c, schedules)
  <2>1. PICK schedules \in Configurations : Run!Configure(c, schedules)
    BY <1>1
  <2>2. /\ lock = Nobody /\ jobs' = schedules /\ rules' = 1 - rules /\ armed_jobs' = {} /\ due' = {}
        /\ UNCHANGED <<Run!manager, state, queue, wake, stopped, lock, listener, giving, worker, caller>>
    BY <2>1 DEF Run!Configure, Run!Unlocked
  <2>3. UNCHANGED vars /\ pc' = pc
    BY <2>2 DEF Run!manager, vars
  <2>4. RestGood'
    <3>1. rules' \in {0, 1} /\ jobs' \in Configurations
      BY <1>i, <2>2 DEF RestGood
    <3> QED BY <1>i, <2>2, <3>1 DEF RestGood
  <2>5. CallersGood'
    <3>1. \A d \in Callers : caller[d].place \notin Locking /\ d # Nobody
      BY <1>i, <2>2 DEF CallersGood, RuntimeLimits
    <3> QED BY <1>i, <2>2, <3>1 DEF CallersGood, Locking
  <2>6. DriversMatch'
    BY <1>i, <2>2, <2>3 DEF DriversMatch
  <2> QED BY <2>3, <2>4, <2>5, <2>6
<1>2. CASE Run!BeginStart(c) \/ Run!BeginStop(c)
  <2>1. PICK place \in {"arm", "disarm"}, starting \in BOOLEAN :
            /\ caller[c].place = "idle" /\ lock = Nobody /\ lock' = c
            /\ caller' = [caller EXCEPT ![c] = [place |-> place, job |-> 1, starting |-> starting]]
            /\ UNCHANGED <<Run!manager, jobs, rules, listener, giving, worker>>
    BY <1>2 DEF Run!BeginStart, Run!BeginStop, Run!Unlocked
  <2>2. PICK r \in CallerType : r = [place |-> place, job |-> 1, starting |-> starting]
    BY <1>n DEF CallerType, Run!CallerPlaces
  <2>3. r.place = place
    BY <2>2
  <2>4. /\ caller' \in [Callers -> CallerType]
        /\ caller'[c].place = place
        /\ \A d \in Callers \ {c} : caller'[d] = caller[d]
    BY <1>i, <2>1, <2>2, <2>3
  <2>5. pc' = pc /\ pc[c] = "idle" /\ UNCHANGED vars
    BY <1>i, <2>1 DEF Run!manager, vars, DriversMatch
  <2>6. CallersGood' /\ DriversMatch'
    <3>1. PICK op : op = "idle"
      OBVIOUS
    <3>2. op = CASE caller'[c].place = "arming" -> "start_events"
                 [] caller'[c].place = "disarming" -> "stop_events"
                 [] OTHER -> "idle"
      BY <2>4, <3>1
    <3>3. lock' = IF caller'[c].place \in Locking THEN c ELSE Nobody
      BY <2>1, <2>4 DEF Locking
    <3>4. lock \in {c, Nobody} /\ worker' = worker /\ jobs' = jobs
          /\ caller'[c].place \notin {"arming", "disarming"}
      BY <2>1, <2>4
    <3> QED BY <1>i, <2>4, <2>5, <3>1, <3>2, <3>3, <3>4, CallerMoves
  <2>7. /\ armed_jobs' \in {armed_jobs, {}} /\ due' \subseteq DOMAIN jobs
        /\ queue' \in {queue, <<>>} /\ wake' \in BOOLEAN /\ stopped' \in BOOLEAN
        /\ state' \in {"STOPPED", "RUNNING", "STOPPING"}
    BY <1>2, <1>i DEF Run!BeginStart, Run!BeginStop, RestGood
  <2>8. queue' \in Seq(Run!Events) /\ Len(queue') <= MaxQueue
    BY <1>i, <2>7, QueueTypes DEF RestGood
  <2>9. RestGood'
    BY <1>i, <2>1, <2>7, <2>8 DEF RestGood
  <2> QED BY <2>5, <2>6, <2>9
<1>3. CASE Run!StopReturns(c)
  <2>1. /\ caller[c].place = "await" /\ stopped' = FALSE /\ Run!CallerTo(c, "idle", 1)
        /\ UNCHANGED <<Run!manager, jobs, armed_jobs, rules, lock, listener, giving,
                       state, due, active, queue, wake, worker>>
    BY <1>3 DEF Run!StopReturns
  <2>2. /\ caller' \in [Callers -> CallerType]
        /\ caller'[c].place = "idle"
        /\ \A d \in Callers \ {c} : caller'[d] = caller[d]
    BY <1>i, <1>n, <2>1, CallerGoes DEF Run!CallerPlaces
  <2>3. CallersTold
    BY <2>1, <2>2 DEF CallersTold
  <2>4. UNCHANGED vars /\ pc' = pc
    BY <2>1 DEF Run!manager, vars
  <2>5. CallersGood' /\ DriversMatch'
    BY <1>i, <2>1, <2>2, <2>3, <2>4, ToldCallersGood, ToldDriversMatch
  <2>6. RestGood'
    BY <1>i, <2>1 DEF RestGood
  <2> QED BY <2>4, <2>5, <2>6
<1> QED BY <1>1, <1>2, <1>3

LEMMA CallersContinue ==
  ASSUME RuntimeLimits, SameThreads, RunInv, NEW c \in Callers, Run!CallerStep(c)
  PROVE  [Next]_vars /\ CallersGood' /\ RestGood' /\ DriversMatch'
<1>i. CallersGood /\ RestGood /\ DriversMatch /\ TypeOK /\ caller \in [Callers -> CallerType]
  BY DEF RunInv, SafeInv, CallersGood
<1>t. c \in Threads
  BY DEF SameThreads
<1>n. caller[c].job \in 1 .. MaxJobs + 1 /\ 1 \in 1 .. MaxJobs + 1
  BY <1>i DEF CallerType, RuntimeLimits
<1>j. ASSUME caller[c].job \in DOMAIN jobs
      PROVE  /\ caller[c].job \in 1 .. MaxJobs /\ caller[c].job + 1 \in 1 .. MaxJobs + 1
             /\ Run!Source(c) \in Slots
  <2>1. caller[c].job \in 1 .. MaxJobs /\ jobs[caller[c].job].source \in Slots
    BY <1>i, <1>j, JobFacts
  <2> QED BY <2>1 DEF RuntimeLimits, Run!Source
<1>d. caller[c].place \in {"arming", "disarming"} => caller[c].job \in DOMAIN jobs
  BY <1>i DEF CallersGood
<1>p. pc[c] = CASE caller[c].place = "arming" -> "start_events"
                [] caller[c].place = "disarming" -> "stop_events"
                [] OTHER -> "idle"
  BY <1>i DEF DriversMatch
\* A move without a call, from a place outside the drivers
<1>q. ASSUME caller[c].place \in {"arm", "disarm"}, worker' = worker, UNCHANGED Run!manager, jobs' = jobs,
             NEW place \in {"arm", "disarm", "idle", "await"}, NEW job \in 1 .. MaxJobs + 1,
             Run!CallerTo(c, place, job), lock' = IF place \in {"arm", "disarm"} THEN lock ELSE Nobody
      PROVE  [Next]_vars /\ CallersGood' /\ DriversMatch'
  <2>1. UNCHANGED vars /\ pc' = pc
    BY <1>q DEF Run!manager, vars
  <2>2. PICK op : op = "idle"
    OBVIOUS
  <2>3. op = CASE place = "arming" -> "start_events" [] place = "disarming" -> "stop_events" [] OTHER -> "idle"
    BY <2>2
  <2>4. pc[c] = "idle"
    BY <1>p, <1>q
  <2>5. lock' = (IF place \in Locking THEN lock ELSE Nobody) /\ caller[c].place \in Locking
        /\ place \in Locking \cup {"idle", "await"} /\ place \notin {"arming", "disarming"}
    BY <1>q DEF Locking
  <2> QED BY <1>q, <2>1, <2>2, <2>3, <2>4, <2>5, LockedMoves
\* The same after a call that has returned
<1>r. ASSUME caller[c].place \in {"arming", "disarming"}, worker' = worker, jobs' = jobs, lock' = lock,
             \/ Run!Manager!FinishStartEvents(c) \/ Run!Manager!FinishStopEvents(c)
             \/ Run!Manager!FinishUnchanged(c),
             NEW place \in {"arm", "disarm"}, NEW job \in 1 .. MaxJobs + 1, Run!CallerTo(c, place, job)
      PROVE  [Next]_vars /\ CallersGood' /\ DriversMatch'
  <2>1. Next
    BY <1>t, <1>r, CallsAreSteps
  <2>2. Enters(c, "idle")
    BY <1>i, <1>t, <1>r, CallsMove DEF Leaves
  <2>3. "idle" = CASE place = "arming" -> "start_events" [] place = "disarming" -> "stop_events" [] OTHER -> "idle"
    OBVIOUS
  <2>4. lock' = (IF place \in Locking THEN lock ELSE Nobody) /\ caller[c].place \in Locking
        /\ place \in Locking \cup {"idle", "await"} /\ place \notin {"arming", "disarming"}
    BY <1>r DEF Locking
  <2> QED BY <1>r, <2>1, <2>2, <2>3, <2>4, LockedMoves
\* Into a driver
<1>s. ASSUME caller[c].place \in Locking, caller[c].job \in DOMAIN jobs,
             worker' = worker, jobs' = jobs, lock' = lock,
             NEW place \in {"arming", "disarming"}, Run!CallerTo(c, place, caller[c].job),
             NEW op \in {"start_events", "stop_events"}, Run!Manager!Borrow(c, Run!Source(c), op),
             op = "start_events" <=> place = "arming"
      PROVE  [Next]_vars /\ CallersGood' /\ DriversMatch'
  <2>1. Run!Source(c) \in Slots
    BY <1>j, <1>s
  <2>2. Next
    BY <1>t, <1>s, <2>1, CallsAreSteps
  <2>3. Enters(c, op)
    BY <1>i, <1>t, <1>s, CallsMove
  <2>4. op = CASE place = "arming" -> "start_events" [] place = "disarming" -> "stop_events" [] OTHER -> "idle"
    BY <1>s
  <2>5. lock' = (IF place \in Locking THEN lock ELSE Nobody) /\ place \in Locking \cup {"idle", "await"}
    BY <1>s DEF Locking
  <2> QED BY <1>n, <1>s, <2>2, <2>3, <2>4, <2>5, LockedMoves
<1>1. CASE Run!ArmPolled(c)
  <2>1. /\ caller[c].place = "arm" /\ caller[c].job \in DOMAIN jobs /\ Run!CallerTo(c, "arm", caller[c].job + 1)
        /\ UNCHANGED <<Run!manager, jobs, armed_jobs, rules, stopped, lock, listener, giving,
                       state, due, active, queue, wake, worker>>
    BY <1>1 DEF Run!ArmPolled, Run!InArm
  <2>2. RestGood'
    BY <1>i, <2>1 DEF RestGood
  <2> QED BY <1>j, <1>q, <2>1, <2>2
<1>2. CASE Run!Arm(c)
  <2>1. /\ caller[c].place = "arm" /\ caller[c].job \in DOMAIN jobs
        /\ Run!Manager!Borrow(c, Run!Source(c), "start_events")
        /\ listener' = [listener EXCEPT ![Run!Source(c)] = caller[c].job]
        /\ Run!CallerTo(c, "arming", caller[c].job)
        /\ UNCHANGED <<jobs, armed_jobs, rules, stopped, lock, giving, state, due, active, queue, wake, worker>>
    BY <1>2 DEF Run!Arm, Run!InArm
  <2>2. listener' \in [Slots -> 1 .. MaxJobs]
    BY <1>i, <1>j, <2>1 DEF RestGood
  <2>3. RestGood'
    BY <1>i, <2>1, <2>2 DEF RestGood
  <2>4. caller[c].place \in Locking
    BY <2>1 DEF Locking
  <2> QED BY <1>s, <2>1, <2>3, <2>4
<1>3. CASE Run!Armed(c)
  <2>1. /\ caller[c].place = "arming" /\ Run!Manager!FinishStartEvents(c)
        /\ armed_jobs' = armed_jobs \cup {caller[c].job}
        /\ Run!CallerTo(c, "arm", caller[c].job + 1)
        /\ UNCHANGED <<jobs, rules, stopped, lock, listener, giving, state, due, active, queue, wake, worker>>
    BY <1>3 DEF Run!Armed
  <2>2. RestGood'
    BY <1>i, <1>d, <2>1 DEF RestGood
  <2> QED BY <1>d, <1>j, <1>r, <2>1, <2>2
<1>4. CASE Run!ArmFails(c)
  <2>1. /\ Run!CallerTo(c, "disarm", 1)
        /\ UNCHANGED <<jobs, armed_jobs, rules, stopped, lock, listener, giving, state, due, active, queue, wake, worker>>
        /\ \/ caller[c].place = "arming" /\ Run!Manager!FinishUnchanged(c)
           \/ caller[c].place = "arm" /\ UNCHANGED Run!manager
    BY <1>4 DEF Run!ArmFails, Run!InArm
  <2>2. RestGood'
    BY <1>i, <2>1 DEF RestGood
  <2> QED BY <1>n, <1>q, <1>r, <2>1, <2>2
<1>5. CASE Run!Started(c)
  <2>1. /\ caller[c].place = "arm" /\ state' = "RUNNING" /\ wake' = TRUE /\ lock' = Nobody
        /\ Run!CallerTo(c, "idle", 1)
        /\ UNCHANGED <<Run!manager, jobs, armed_jobs, rules, stopped, listener, giving, due, active, queue, worker>>
    BY <1>5 DEF Run!Started
  <2>2. RestGood'
    BY <1>i, <2>1 DEF RestGood
  <2> QED BY <1>n, <1>q, <2>1, <2>2
<1>6. CASE Run!SkipDisarm(c)
  <2>1. /\ caller[c].place = "disarm" /\ caller[c].job \in DOMAIN jobs /\ Run!CallerTo(c, "disarm", caller[c].job + 1)
        /\ UNCHANGED <<Run!manager, jobs, armed_jobs, rules, stopped, lock, listener, giving,
                       state, due, active, queue, wake, worker>>
    BY <1>6 DEF Run!SkipDisarm, Run!InDisarm
  <2>2. RestGood'
    BY <1>i, <2>1 DEF RestGood
  <2> QED BY <1>j, <1>q, <2>1, <2>2
<1>7. CASE Run!Disarm(c)
  <2>1. /\ caller[c].place = "disarm" /\ caller[c].job \in DOMAIN jobs
        /\ Run!Manager!Borrow(c, Run!Source(c), "stop_events")
        /\ Run!CallerTo(c, "disarming", caller[c].job)
        /\ UNCHANGED <<jobs, armed_jobs, rules, stopped, lock, listener, giving, state, due, active, queue, wake, worker>>
    BY <1>7 DEF Run!Disarm, Run!InDisarm
  <2>2. RestGood'
    BY <1>i, <2>1 DEF RestGood
  <2>3. caller[c].place \in Locking
    BY <2>1 DEF Locking
  <2> QED BY <1>s, <2>1, <2>2, <2>3
<1>8. CASE Run!Disarmed(c)
  <2>1. /\ armed_jobs' = armed_jobs \ {caller[c].job} /\ Run!CallerTo(c, "disarm", caller[c].job + 1)
        /\ UNCHANGED <<jobs, rules, stopped, lock, listener, giving, state, due, active, queue, wake, worker>>
        /\ \/ caller[c].place = "disarming" /\ (Run!Manager!FinishStopEvents(c) \/ Run!Manager!FinishUnchanged(c))
           \/ caller[c].place = "disarm" /\ caller[c].job \in DOMAIN jobs /\ UNCHANGED Run!manager
    BY <1>8 DEF Run!Disarmed, Run!InDisarm
  <2>2. RestGood'
    BY <1>i, <2>1 DEF RestGood
  <2> QED BY <1>d, <1>j, <1>q, <1>r, <2>1, <2>2
<1>9. CASE Run!StartFailed(c)
  <2>1. /\ caller[c].place = "disarm" /\ lock' = Nobody /\ Run!CallerTo(c, "idle", 1)
        /\ UNCHANGED <<Run!manager, jobs, armed_jobs, rules, stopped, listener, giving,
                       state, due, active, queue, wake, worker>>
    BY <1>9 DEF Run!StartFailed
  <2>2. RestGood'
    BY <1>i, <2>1 DEF RestGood
  <2> QED BY <1>n, <1>q, <2>1, <2>2
<1>10. CASE Run!StopRequested(c)
  <2>1. /\ caller[c].place = "disarm" /\ lock' = Nobody /\ Run!CallerTo(c, "await", 1)
        /\ queue' = <<>> /\ wake' = TRUE /\ state' \in {"STOPPED", state} /\ stopped' \in BOOLEAN
        /\ UNCHANGED <<Run!manager, jobs, armed_jobs, rules, listener, giving, due, active, worker>>
    BY <1>10 DEF Run!StopRequested
  <2>2. queue' \in Seq(Run!Events) /\ Len(queue') <= MaxQueue
    BY <1>i, <2>1, QueueTypes
  <2>3. RestGood'
    BY <1>i, <2>1, <2>2 DEF RestGood
  <2> QED BY <1>n, <1>q, <2>1, <2>3
<1> QED BY <1>1, <1>2, <1>3, <1>4, <1>5, <1>6, <1>7, <1>8, <1>9, <1>10 DEF Run!CallerStep


-----------------------------------------------------------------------------
(* Drivers, hosts and time *)

LEMMA OthersKeep ==
  ASSUME RuntimeLimits, SameThreads, RunInv,
         \/ \E s \in Run!Slots : Run!EmitPut(s) \/ Run!EmitGive(s)
         \/ \E s \in Commandable : Run!Post(s)
         \/ \E h \in Hosts : Run!HostEnds(h) \/ \E s \in Commandable : Run!HostBegins(h, s)
         \/ \E i \in 1 .. MaxJobs : Run!Tick(i)
         \/ UNCHANGED Run!vars
  PROVE  [Next]_vars /\ WorkerGood' /\ CallersGood' /\ RestGood' /\ DriversMatch'
<1>i. WorkerGood /\ CallersGood /\ RestGood /\ DriversMatch /\ TypeOK
  BY DEF RunInv, SafeInv
\* Steps that only touch events and deadlines
<1>e. ASSUME UNCHANGED <<Run!manager, jobs, armed_jobs, rules, stopped, lock, listener, caller, state, worker>>,
             giving' \subseteq Slots, due' \subseteq DOMAIN jobs, wake' \in BOOLEAN,
             queue' \in Seq(Run!Events), Len(queue') <= MaxQueue
      PROVE  [Next]_vars /\ WorkerGood' /\ CallersGood' /\ RestGood' /\ DriversMatch'
  <2>1. UNCHANGED vars /\ pc' = pc
    BY <1>e DEF Run!manager, vars
  <2>2. WorkerGood' /\ CallersGood' /\ DriversMatch'
    BY <1>i, <1>e, <2>1 DEF WorkerGood, CallersGood, DriversMatch
  <2>3. RestGood'
    BY <1>i, <1>e DEF RestGood
  <2> QED BY <2>1, <2>2, <2>3
<1>r. /\ giving \subseteq Slots /\ due \subseteq DOMAIN jobs /\ wake \in BOOLEAN
      /\ queue \in Seq(Run!Events) /\ Len(queue) <= MaxQueue
  BY <1>i DEF RestGood
<1>v. \A s \in Slots : [source |-> s, depth |-> 0] \in Run!Events
  BY SameSlots DEF Run!Events, RuntimeLimits
<1>q. \A e \in Run!Events : Len(queue) < MaxQueue =>
          Append(queue, e) \in Seq(Run!Events) /\ Len(Append(queue, e)) <= MaxQueue
  BY <1>i, QueueTypes
<1>1. CASE \E s \in Run!Slots : Run!EmitPut(s)
  <2>1. PICK s \in Slots :
            /\ listener[s] \in DOMAIN jobs /\ Len(queue) < MaxQueue
            /\ queue' = Append(queue, [source |-> jobs[listener[s]].source, depth |-> 0])
            /\ giving' = giving \cup {s}
            /\ UNCHANGED <<Run!manager, jobs, armed_jobs, rules, stopped, lock, listener, caller,
                           state, due, wake, worker>>
    BY <1>1, SameSlots DEF Run!EmitPut
  <2>2. jobs[listener[s]].source \in Slots
    BY <1>i, <2>1, JobFacts
  <2>3. queue' \in Seq(Run!Events) /\ Len(queue') <= MaxQueue
    BY <1>v, <1>q, <2>1, <2>2
  <2>4. giving' \subseteq Slots
    BY <1>r, <2>1
  <2> QED BY <1>e, <1>r, <2>1, <2>3, <2>4
<1>2. CASE \E s \in Run!Slots : Run!EmitGive(s)
  <2>1. PICK s \in Slots :
            /\ wake' = TRUE /\ giving' = giving \ {s}
            /\ UNCHANGED <<Run!manager, jobs, armed_jobs, rules, stopped, lock, listener, caller,
                           state, due, queue, worker>>
    BY <1>2, SameSlots DEF Run!EmitGive
  <2>2. giving' \subseteq Slots
    BY <1>r, <2>1
  <2> QED BY <1>e, <1>r, <2>1, <2>2
<1>3. CASE \E s \in Commandable : Run!Post(s)
  <2>1. PICK s \in Commandable :
            /\ Len(queue) < MaxQueue /\ queue' = Append(queue, [source |-> s, depth |-> 0]) /\ wake' = TRUE
            /\ UNCHANGED <<Run!manager, Run!run, state, due, worker>>
    BY <1>3 DEF Run!Post
  <2>2. s \in Slots
    BY DEF RuntimeLimits
  <2>3. queue' \in Seq(Run!Events) /\ Len(queue') <= MaxQueue
    BY <1>v, <1>q, <2>1, <2>2
  <2>4. UNCHANGED <<jobs, armed_jobs, rules, stopped, lock, listener, giving, caller>>
    BY <2>1 DEF Run!run
  <2> QED BY <1>e, <1>r, <2>1, <2>3, <2>4
<1>4. CASE \E i \in 1 .. MaxJobs : Run!Tick(i)
  <2>1. PICK i \in DOMAIN jobs :
            due' = due \cup {i} /\ UNCHANGED <<Run!manager, Run!run, state, queue, wake, worker>>
    BY <1>4 DEF Run!Tick
  <2>2. UNCHANGED <<jobs, armed_jobs, rules, stopped, lock, listener, giving, caller>>
    BY <2>1 DEF Run!run
  <2>3. due' \subseteq DOMAIN jobs
    BY <1>r, <2>1
  <2> QED BY <1>e, <1>r, <2>1, <2>2, <2>3
<1>5. CASE UNCHANGED Run!vars
  <2>1. UNCHANGED <<Run!manager, jobs, armed_jobs, rules, stopped, lock, listener, giving, caller,
                    state, due, queue, wake, worker>>
    BY <1>5 DEF Run!vars, Run!run
  <2> QED BY <1>e, <1>r, <2>1
<1>6. CASE \E h \in Hosts : Run!HostEnds(h) \/ \E s \in Commandable : Run!HostBegins(h, s)
  <2>1. PICK h \in Hosts :
            /\ \/ Run!Manager!FinishUnchanged(h)
               \/ \E s \in Commandable : Run!Manager!Borrow(h, s, "command")
            /\ UNCHANGED <<Run!run, state, due, active, queue, wake, worker>>
    BY <1>6 DEF Run!HostEnds, Run!HostBegins
  <2>2. h \in Threads /\ h # Worker /\ h \notin Callers
    BY DEF SameThreads, RuntimeLimits
  <2>3. Commandable \subseteq Slots
    BY DEF RuntimeLimits
  <2>4. Next
    BY <2>1, <2>2, <2>3, CallsAreSteps
  <2>5. PICK op \in {"idle", "command"} : Enters(h, op)
    BY <1>i, <2>1, <2>2, CallsMove DEF Leaves
  <2>6. UNCHANGED <<jobs, armed_jobs, rules, stopped, lock, listener, giving, caller>>
    BY <2>1 DEF Run!run
  <2>7. WorkerGood' /\ CallersGood' /\ RestGood'
    BY <1>i, <2>1, <2>6 DEF WorkerGood, CallersGood, RestGood
  <2>8. \A t \in Callers \cup {Worker} : pc'[t] = pc[t]
    BY <2>2, <2>5 DEF Enters, SameThreads
  <2>9. \A g \in Hosts : pc'[g] \in {"idle", "command"}
    BY <1>i, <2>5 DEF Enters, SameThreads, DriversMatch
  <2>10. DriversMatch'
    BY <1>i, <2>1, <2>6, <2>8, <2>9 DEF DriversMatch
  <2> QED BY <2>4, <2>7, <2>10
<1> QED BY <1>1, <1>2, <1>3, <1>4, <1>5, <1>6

-----------------------------------------------------------------------------
(* The composition *)

LEMMA ManagerKeepsSafe == ASSUME SafeInv, [Next]_vars PROVE SafeInv'
<1>1. CASE Next BY <1>1, BeginSafe, ContinueSafe DEF Next
<1>2. CASE UNCHANGED vars BY <1>2, StutterSafe
<1> QED BY <1>1, <1>2

LEMMA CompositionKeeps ==
  ASSUME RuntimeLimits, SameThreads, RunInv, [Run!Next]_Run!vars
  PROVE  RunInv' /\ [Next]_vars
<1>i. Quiet /\ SafeInv /\ WorkerGood /\ CallersGood /\ RestGood /\ DriversMatch
  BY DEF RunInv
<1>1. [Next]_vars /\ WorkerGood' /\ CallersGood' /\ RestGood' /\ DriversMatch'
  <2>1. CASE Run!WorkerStep
    <3>1. CASE WorkerAlone BY <3>1, WorkerAloneKeeps
    <3>2. CASE WorkerCalls BY <3>2, WorkerCallsKeep
    <3> QED BY <2>1, <3>1, <3>2, WorkerStepSplits
  <2>2. ASSUME NEW c \in Callers,
               \/ \E schedules \in Configurations : Run!Configure(c, schedules)
               \/ Run!BeginStart(c) \/ Run!BeginStop(c) \/ Run!CallerStep(c) \/ Run!StopReturns(c)
        PROVE  [Next]_vars /\ WorkerGood' /\ CallersGood' /\ RestGood' /\ DriversMatch'
    <3>1. worker' = worker
      BY <2>2 DEF Run!Configure, Run!BeginStart, Run!BeginStop, Run!StopReturns, Run!CallerStep,
         Run!ArmPolled, Run!Arm, Run!Armed, Run!ArmFails, Run!Started, Run!SkipDisarm, Run!Disarm,
         Run!Disarmed, Run!StartFailed, Run!StopRequested
    <3>2. WorkerGood'
      BY <1>i, <3>1 DEF WorkerGood
    <3>3. CASE Run!CallerStep(c) BY <3>2, <3>3, CallersContinue
    <3>4. CASE \/ \E schedules \in Configurations : Run!Configure(c, schedules)
               \/ Run!BeginStart(c) \/ Run!BeginStop(c) \/ Run!StopReturns(c)
      BY <3>2, <3>4, CallersBegin
    <3> QED BY <2>2, <3>3, <3>4
  <2>3. CASE \/ \E s \in Run!Slots : Run!EmitPut(s) \/ Run!EmitGive(s)
             \/ \E s \in Commandable : Run!Post(s)
             \/ \E h \in Hosts : Run!HostEnds(h) \/ \E s \in Commandable : Run!HostBegins(h, s)
             \/ \E i \in 1 .. MaxJobs : Run!Tick(i)
             \/ UNCHANGED Run!vars
    BY <2>3, OthersKeep
  <2> QED BY <2>1, <2>2, <2>3 DEF Run!Next
<1>2. SafeInv'
  BY <1>i, <1>1, ManagerKeepsSafe
<1>3. Quiet'
  BY <1>i, RunKeepsQuiet
<1> QED BY <1>1, <1>2, <1>3 DEF RunInv

\* What Config left behind: every slot has a Module, READY and unused.
LEMMA CompositionStarts ==
  ASSUME RuntimeLimits, SameThreads, Run!Init
  PROVE  RunInv
<1>z. 0 \in Slots /\ NumSlots \in Nat \ {0} /\ MaxSequence \in Nat \ {0} /\ Requests \subseteq RequestType
  BY ZeroSlot, ManagerAssumption
<1>s. PICK r \in [Slots -> SlotType] :
        /\ slots = r
        /\ \A s \in Slots : /\ r[s].used /\ ~r[s].busy /\ ~r[s].events_started
                            /\ r[s].request = Installed[s]
  <2> DEFINE Ready(s) == [Run!Manager!Cleared EXCEPT !.used = TRUE, !.state = "READY",
                            !.request = Installed[s], !.power_attached = Installed[s].rail,
                            !.read_sequence = MaxSequence]
  <2>1. Run!Manager!Cleared \in SlotType /\ ~Run!Manager!Cleared.busy
        /\ ~Run!Manager!Cleared.events_started
    BY ManagerAssumption DEF Run!Manager!Cleared, SlotType, ModuleStates
  <2>2. ASSUME NEW s \in Slots
        PROVE  Ready(s) \in SlotType /\ Ready(s).used /\ ~Ready(s).busy
               /\ ~Ready(s).events_started /\ Ready(s).request = Installed[s]
    <3>1. Installed[s] \in Requests
      BY DEF RuntimeLimits
    <3>2. Installed[s].rail \in BOOLEAN
      BY <3>1, <1>z DEF RequestType
    <3>3. PICK q \in Requests : q = Installed[s]
      BY <3>1
    <3>4. PICK rail \in BOOLEAN : rail = Installed[s].rail
      BY <3>2
    <3>5. PICK d \in SlotType : d = Run!Manager!Cleared
      BY <2>1
    <3>6. ~d.busy /\ ~d.events_started
      BY <2>1, <3>5
    <3>7. [d EXCEPT !.used = TRUE, !.state = "READY", !.request = q, !.power_attached = rail,
                    !.read_sequence = MaxSequence] \in SlotType
      <4>1. [d EXCEPT !.used = TRUE, !.state = "READY"] \in SlotType
        BY DEF SlotType, ModuleStates
      <4>2. \A e \in SlotType : [e EXCEPT !.request = q] \in SlotType
        BY DEF SlotType
      <4>3. \A e \in SlotType : [e EXCEPT !.power_attached = rail] \in SlotType
        BY DEF SlotType
      <4>4. \A e \in SlotType : [e EXCEPT !.read_sequence = MaxSequence] \in SlotType
        BY <1>z DEF SlotType
      <4> QED BY <4>1, <4>2, <4>3, <4>4, Zenon
    <3>8. ASSUME NEW x, x = [d EXCEPT !.used = TRUE, !.state = "READY", !.request = q,
                               !.power_attached = rail, !.read_sequence = MaxSequence]
          PROVE  x.used /\ ~x.busy /\ ~x.events_started /\ x.request = q
      BY <3>6, <3>8 DEF SlotType
    <3>9. Ready(s) = [d EXCEPT !.used = TRUE, !.state = "READY", !.request = q,
                        !.power_attached = rail, !.read_sequence = MaxSequence]
      BY <3>3, <3>4, <3>5, Zenon
    <3> QED BY <3>3, <3>7, <3>8, <3>9
  <2>3. slots = [s \in Slots |-> Ready(s)]
    BY SameSlots DEF Run!Init
  <2> HIDE DEF Ready
  <2> QED BY <2>2, <2>3
<1>1. SafeInv
  <2>1. PortTypeOK
    <3>1. \A s \in Slots : Installed[s].key \in Owners
      BY <1>z DEF RuntimeLimits, RequestType
    <3>2. owners \in [Ports -> SUBSET Owners]
      <4> DEFINE Keys(p) == {Installed[s].key : s \in {q \in Run!Slots :
                              Installed[q].port = p /\ Run!Manager!NeedsPort(Installed[q])}}
      <4>1. owners = [p \in Ports |-> Keys(p)]
        BY DEF Run!Init
      <4>2. \A p \in Ports : Keys(p) \in SUBSET Owners
        BY <3>1, SameSlots
      <4> HIDE DEF Keys
      <4> QED BY <4>1, <4>2
    <3>3. transport \in [Ports -> Transports \cup {NoTransport}]
      BY DEF Run!Init, Run!Manager!Transports, Transports, Run!Manager!NoTransport, NoTransport
    <3> QED BY <3>2, <3>3 DEF PortTypeOK
  <2>2. /\ pc = [t \in Threads |-> "idle"] /\ at = [t \in Threads |-> 0]
        /\ loads \subseteq Slots /\ contexts = Slots /\ armed = {}
    BY SameSlots DEF Run!Init, SameThreads
  <2>3. TypeOK
    BY <1>z, <1>s, <2>1, <2>2 DEF TypeOK
  <2>4. PhaseInv
    <3>1. \A t \in Threads : ThreadPhase(t)
      BY <2>2 DEF ThreadPhase, Configuring, DriverCalls, Rollback
    <3>2. \A s \in Slots : Installed[s] \in Requests
      BY DEF RuntimeLimits
    <3>3. \A s \in Slots : SlotPhase(s)
      BY <1>s, <2>2, <3>2 DEF SlotPhase, Claimed, Request
    <3> QED BY <3>1, <3>3 DEF PhaseInv
  <2>5. SlotsApart
    BY <2>2 DEF SlotsApart
  <2> QED BY <2>3, <2>4, <2>5 DEF SafeInv
<1>2. Quiet
  BY RunStart
<1>3. WorkerGood /\ worker.place = "loop"
  <2>1. Run!At("loop") \in WorkerType /\ Run!At("loop").place = "loop"
    BY AtIsWorker DEF Run!WorkerPlaces
  <2> QED BY <2>1 DEF Run!Init, WorkerGood
<1>4. CallersGood /\ \A c \in Callers : caller[c].place = "idle"
  <2>1. 1 \in 1 .. MaxJobs + 1
    BY DEF RuntimeLimits
  <2>2. caller = [c \in Callers |-> [place |-> "idle", job |-> 1, starting |-> FALSE]] /\ lock = Nobody
    BY DEF Run!Init
  <2>3. [place |-> "idle", job |-> 1, starting |-> FALSE] \in CallerType
    BY <2>1 DEF CallerType, Run!CallerPlaces
  <2>4. \A c \in Callers : c # Nobody
    BY DEF RuntimeLimits
  <2> QED BY <2>2, <2>3, <2>4 DEF CallersGood, Locking
<1>5. RestGood
  <2>1. <<>> \in Seq(Run!Events) /\ Len(<<>>) = 0
    OBVIOUS
  <2>2. 1 \in 1 .. MaxJobs /\ 0 <= MaxQueue
    BY DEF RuntimeLimits
  <2>3. listener \in [Slots -> 1 .. MaxJobs]
    BY <2>2, SameSlots DEF Run!Init
  <2>4. queue \in Seq(Run!Events) /\ Len(queue) <= MaxQueue
    BY <2>1, <2>2 DEF Run!Init
  <2> QED BY <2>3, <2>4 DEF RestGood, Run!Init
<1>6. DriversMatch
  <2>1. \A t \in Callers \cup Hosts \cup {Worker} : pc[t] = "idle"
    BY DEF Run!Init
  <2> QED BY <1>3, <1>4, <2>1 DEF DriversMatch
<1> QED BY <1>1, <1>2, <1>3, <1>4, <1>5, <1>6 DEF RunInv

\* Types of Runtime's state and places, and where its threads are among the drivers.
THEOREM RuntimeInvariant ==
  ASSUME RuntimeLimits, SameThreads
  PROVE  Run!Spec => []RunInv
<1>1. Run!Init => RunInv
  BY CompositionStarts
<1>2. RunInv /\ [Run!Next]_Run!vars => RunInv'
  BY CompositionKeeps
<1> QED BY <1>1, <1>2, PTL DEF Run!Spec

\* runtime.c uses Modules through the operations of module_manager.c only: every step
\* of Runtime is one step of the Manager or leaves its state alone.
THEOREM RuntimeUsesTheManager ==
  ASSUME RuntimeLimits, SameThreads
  PROVE  Run!Spec => [][Next]_vars
<1>1. Run!Init => RunInv
  BY CompositionStarts
<1>2. RunInv /\ [Run!Next]_Run!vars => RunInv' /\ [Next]_vars
  BY CompositionKeeps
<1> QED BY <1>1, <1>2, PTL DEF Run!Spec

\* While the worker polls, callers arm and disarm, rules and hosts command: at most one
\* of them is inside a Module at a time, and only inside one that is live.
THEOREM ModulesAreSharedSafely ==
  ASSUME RuntimeLimits, SameThreads
  PROVE  Run!Spec => [](OneThreadPerModule /\ CallsReachLiveContext /\ EventsEndBeforeContext)
<1>1. RunInv => OneThreadPerModule /\ CallsReachLiveContext /\ EventsEndBeforeContext
  <2> SUFFICES ASSUME SafeInv
               PROVE  OneThreadPerModule /\ CallsReachLiveContext /\ EventsEndBeforeContext
    BY DEF RunInv
  <2>1. OneThreadPerModule
    BY DEF SafeInv, SlotsApart, OneThreadPerModule, Working
  <2>2. CallsReachLiveContext
    BY DEF SafeInv, PhaseInv, ThreadPhase, CallsReachLiveContext
  <2>3. EventsEndBeforeContext
    BY DEF SafeInv, PhaseInv, SlotPhase, EventsEndBeforeContext, TypeOK
  <2> QED BY <2>1, <2>2, <2>3
<1> QED BY <1>1, RuntimeInvariant, PTL

\* When the state says STOPPED the worker is inside no driver, in the Manager's own
\* books and not only in Runtime's count: Config may remove the Modules.
THEOREM StoppedLeavesDrivers ==
  ASSUME RuntimeLimits, SameThreads
  PROVE  Run!Spec => [](state = "STOPPED" => pc[Worker] = "idle")
<1>1. RunInv => (state = "STOPPED" => pc[Worker] = "idle")
  BY DEF RunInv, Quiet, StoppedIsQuiet, OpenOperations, DriversMatch
<1> QED BY <1>1, RuntimeInvariant, PTL

=============================================================================
