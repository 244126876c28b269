---------------------------- MODULE ModuleManager ----------------------------
(***************************************************************************)
(* subsys/module_manager/module_manager.c: the pool of live Module slots.   *)
(* slots_lock protects the slots, but it is released around every driver,   *)
(* Port and power call, so one operation is several steps and the threads   *)
(* that run operations interleave between them.  `reserved' and `busy' are  *)
(* the only things that keep them apart.                                    *)
(*                                                                          *)
(* A step that runs under slots_lock, or one call made outside it, is one   *)
(* action.  An operation that returns an error before it changes anything   *)
(* is not a step.                                                           *)
(***************************************************************************)
EXTENDS Port

CONSTANTS
    Threads,      \* callers: Config, Runtime's worker, Communication, ...
    NumSlots,     \* CONFIG_SPAGHETTI_MAX_MODULES
    Requests,     \* the requests that pass the checks made before the lock
    NoRequest,    \* the request of a cleared slot
    MaxSequence   \* UINT32_MAX, where read_sequence wraps

Slots == 0 .. NumSlots - 1

Kinds == {"LOGICAL", "PORT_EXCLUSIVE", "UART_EXCLUSIVE", "I2C_ADDRESS",
          "SPI_CHIP_SELECT", "GPIO_LINE", "ADC_CHANNEL", "W1_ROM"}

Exclusive == {"PORT_EXCLUSIVE", "UART_EXCLUSIVE"}

\* An endpoint is its kind and the set of lines, addresses or ROM codes it names.
Endpoints == [kind : Kinds, value : SUBSET Nat]

\* endpoint_is_valid
EndpointIsValid(e) ==
    CASE e.kind \in {"LOGICAL"} \cup Exclusive -> e.value = {}
      [] e.kind = "I2C_ADDRESS" -> \E a \in 0 .. 127 : e.value = {a}
      [] e.kind \in {"SPI_CHIP_SELECT", "ADC_CHANNEL"} -> \E n \in 0 .. 4 : e.value = {n}
      [] e.kind = "GPIO_LINE" -> e.value # {} /\ e.value \subseteq 0 .. 4
      [] e.kind = "W1_ROM" -> \E rom \in e.value : e.value = {rom}

\* endpoints_conflict: a LOGICAL endpoint needs no wire, an exclusive one needs them all.
EndpointsConflict(e, f) ==
    /\ e.kind # "LOGICAL"
    /\ f.kind # "LOGICAL"
    /\ \/ e.kind \in Exclusive
       \/ f.kind \in Exclusive
       \/ /\ e.kind = "GPIO_LINE"
          /\ f.kind = "GPIO_LINE"
          /\ e.value \cap f.value # {}
       \/ e = f

Drivers == [transport : Transports,   \* driver->transport
            declarative : BOOLEAN,    \* required_capabilities = 0
            events : BOOLEAN]         \* ops->start and ops->stop are present

RequestType == [key : Owners, port : Ports, endpoint : Endpoints, driver : Drivers,
                rail : BOOLEAN,       \* the placement names a power rail
                revision : Nat \ {0}]

ASSUME ManagerAssumption ==
    /\ NumSlots \in Nat \ {0}
    /\ Requests \subseteq RequestType
    /\ NoRequest \notin Requests
    /\ MaxSequence \in Nat \ {0}

\* transport_for_endpoint, and the choice configure() makes with it
TransportForEndpoint(kind, fallback) ==
    CASE kind = "I2C_ADDRESS" -> "I2C"
      [] kind = "SPI_CHIP_SELECT" -> "SPI"
      [] kind = "UART_EXCLUSIVE" -> "UART"
      [] kind \in {"GPIO_LINE", "PORT_EXCLUSIVE"} -> "GPIO"
      [] kind = "ADC_CHANNEL" -> "ADC"
      [] kind = "W1_ROM" -> "W1"
      [] OTHER -> fallback

VARIABLES
    slots,      \* slots[]: the Manager's own record of each Module
    pc,         \* where each thread is inside an operation ("idle": outside)
    at,         \* the slot a thread works on while it is not idle
    loads,      \* external: slots attached to a power rail
    contexts,   \* external: slots whose driver holds a live context
    armed       \* external: slots whose driver may emit events

externals == <<loads, contexts, armed>>
vars == <<owners, transport, slots, pc, at, loads, contexts, armed>>

ModuleStates == {"UNINITIALIZED", "READY", "ERROR"}

\* A slot keeps the request it was configured from: key, Port, endpoint, driver,
\* placement and revision are written by the reservation and never changed.
SlotType == [used : BOOLEAN, reserved : BOOLEAN, busy : BOOLEAN,
             power_attached : BOOLEAN, events_started : BOOLEAN,
             state : ModuleStates, read_sequence : 0 .. MaxSequence, request : Requests \cup {NoRequest}]

Cleared == [used |-> FALSE, reserved |-> FALSE, busy |-> FALSE,
            power_attached |-> FALSE, events_started |-> FALSE,
            state |-> "UNINITIALIZED", read_sequence |-> 0, request |-> NoRequest]

\* Steps inside a driver: on the way out of remove() and between the two locked
\* halves of read, command, start_events and stop_events.
DriverCalls == {"stop_driver", "deinit", "read", "command", "start_events", "stop_events"}
Rollback == {"detach_power", "release_port", "clear"}
Steps == {"acquire_port", "attach_power", "init_driver"} \cup DriverCalls \cup Rollback

Claimed(s) == slots[s].used \/ slots[s].reserved
Request(s) == slots[s].request
NeedsPort(r) == r.endpoint.kind # "LOGICAL"
TransportOf(r) == IF r.driver.declarative
                  THEN TransportForEndpoint(r.endpoint.kind, r.driver.transport)
                  ELSE r.driver.transport

TypeOK ==
    /\ PortTypeOK
    /\ slots \in [Slots -> SlotType]
    /\ pc \in [Threads -> Steps \cup {"idle"}]
    /\ at \in [Threads -> Slots]
    /\ loads \subseteq Slots
    /\ contexts \subseteq Slots
    /\ armed \subseteq Slots

Init ==
    /\ PortInit
    /\ slots = [s \in Slots |-> Cleared]
    /\ pc = [t \in Threads |-> "idle"]
    /\ at = [t \in Threads |-> 0]
    /\ loads = {}
    /\ contexts = {}
    /\ armed = {}

Goto(t, step) == pc' = [pc EXCEPT ![t] = step]

\* The thread leaves the operation; where it was means nothing any more.
Leave(t) == Goto(t, "idle") /\ at' = [at EXCEPT ![t] = 0]

-----------------------------------------------------------------------------
(* spaghetti_module_manager_configure *)

\* The scan without the provisional slots
CollidesWithLive(s, r) ==
    /\ slots[s].used
    /\ \/ Request(s).key = r.key
       \/ /\ Request(s).port = r.port
          /\ EndpointsConflict(Request(s).endpoint, r.endpoint)

\* The reasons a slot gives to refuse a request: EEXIST, EADDRINUSE, EBUSY.
Collides(s, r) ==
    /\ Claimed(s)
    /\ \/ Request(s).key = r.key
       \/ /\ Request(s).port = r.port
          /\ EndpointsConflict(Request(s).endpoint, r.endpoint)

\* The scan under slots_lock and the reservation of the first free slot.
Reserve(t, r) ==
    /\ pc[t] = "idle"
    /\ EndpointIsValid(r.endpoint)
    /\ \A s \in Slots : ~Collides(s, r)
    /\ \E s \in Slots :
          /\ ~Claimed(s)
          /\ \A q \in Slots : ~Claimed(q) => s <= q
          /\ slots' = [slots EXCEPT ![s] = [Cleared EXCEPT !.reserved = TRUE, !.request = r]]
          /\ at' = [at EXCEPT ![t] = s]
    /\ Goto(t, "acquire_port")
    /\ UNCHANGED <<portVars, externals>>

SkipPort(t) ==
    /\ pc[t] = "acquire_port"
    /\ ~NeedsPort(Request(at[t]))
    /\ Goto(t, "attach_power")
    /\ UNCHANGED <<portVars, slots, at, externals>>

AcquirePort(t) ==
    LET r == Request(at[t]) IN
    /\ pc[t] = "acquire_port"
    /\ NeedsPort(r)
    /\ PortAcquire(r.port, r.key, TransportOf(r))
    /\ Goto(t, "attach_power")
    /\ UNCHANGED <<slots, at, externals>>

PortRefused(t) ==
    LET r == Request(at[t]) IN
    /\ pc[t] = "acquire_port"
    /\ NeedsPort(r)
    /\ PortRefuse(r.port, r.key, TransportOf(r))
    /\ Goto(t, "clear")
    /\ UNCHANGED <<slots, at, externals>>

\* attach_power_if_needed when the placement names no rail
SkipPower(t) ==
    /\ pc[t] = "attach_power"
    /\ ~Request(at[t]).rail
    /\ Goto(t, "init_driver")
    /\ UNCHANGED <<portVars, slots, at, externals>>

AttachPower(t) ==
    /\ pc[t] = "attach_power"
    /\ Request(at[t]).rail
    /\ loads' = loads \cup {at[t]}
    /\ Goto(t, "init_driver")
    /\ UNCHANGED <<portVars, slots, at, contexts, armed>>

\* The same failure without the release of the Port it already holds
PowerRefusedKeepsPort(t) ==
    /\ pc[t] = "attach_power"
    /\ Request(at[t]).rail
    /\ Goto(t, "clear")
    /\ UNCHANGED <<portVars, slots, at, externals>>

\* A refused load leaves only the Port claim to undo.
PowerRefused(t) ==
    /\ pc[t] = "attach_power"
    /\ Request(at[t]).rail
    /\ Goto(t, "release_port")
    /\ UNCHANGED <<portVars, slots, at, externals>>

\* The driver's init() succeeds and the slot is committed under slots_lock.
InitDriver(t) ==
    /\ pc[t] = "init_driver"
    /\ contexts' = contexts \cup {at[t]}
    /\ slots' = [slots EXCEPT ![at[t]] =
                   [@ EXCEPT !.used = TRUE, !.reserved = FALSE, !.state = "READY",
                             !.power_attached = Request(at[t]).rail]]
    /\ Leave(t)
    /\ UNCHANGED <<portVars, loads, armed>>

\* init() fails: power, Port and slot are undone in this order.
InitFails(t) ==
    /\ pc[t] = "init_driver"
    /\ Goto(t, "detach_power")
    /\ UNCHANGED <<portVars, slots, at, externals>>

-----------------------------------------------------------------------------
(* spaghetti_module_manager_remove, and the undo path it shares with configure *)

\* find_slot_by_id that finds provisional slots, and a forgotten busy check
AvailableProvisional(s) == Claimed(s) /\ ~slots[s].busy
AvailableBusy(s) == slots[s].used

\* find_slot_by_id and the busy check that follows it in every operation
Available(s) == slots[s].used /\ ~slots[s].busy

BeginRemove(t, s, expected) ==
    /\ pc[t] = "idle"
    /\ Available(s)
    /\ Request(s).revision = expected
    /\ slots' = [slots EXCEPT ![s].busy = TRUE]
    /\ at' = [at EXCEPT ![t] = s]
    /\ Goto(t, "stop_driver")
    /\ UNCHANGED <<portVars, externals>>

\* events_started is read outside slots_lock; `busy' keeps it still.
SkipStop(t) ==
    /\ pc[t] = "stop_driver"
    /\ ~slots[at[t]].events_started
    /\ Goto(t, "deinit")
    /\ UNCHANGED <<portVars, slots, at, externals>>

StopDriver(t) ==
    /\ pc[t] = "stop_driver"
    /\ slots[at[t]].events_started
    /\ slots' = [slots EXCEPT ![at[t]].events_started = FALSE]
    /\ armed' = armed \ {at[t]}
    /\ Goto(t, "deinit")
    /\ UNCHANGED <<portVars, at, loads, contexts>>

\* A failed stop() that is only logged, and one that forgets the busy mark
StopFailsIgnored(t) ==
    /\ pc[t] = "stop_driver"
    /\ slots[at[t]].events_started
    /\ Goto(t, "deinit")
    /\ UNCHANGED <<portVars, slots, at, externals>>

StopFailsStaysBusy(t) ==
    /\ pc[t] = "stop_driver"
    /\ slots[at[t]].events_started
    /\ slots' = [slots EXCEPT ![at[t]].state = "ERROR"]
    /\ Leave(t)
    /\ UNCHANGED <<portVars, externals>>

\* A driver that cannot stop leaves the Module in ERROR and the removal gives up.
StopFails(t) ==
    /\ pc[t] = "stop_driver"
    /\ slots[at[t]].events_started
    /\ slots' = [slots EXCEPT ![at[t]].state = "ERROR", ![at[t]].busy = FALSE]
    /\ Leave(t)
    /\ UNCHANGED <<portVars, externals>>

\* The result of deinit() is returned to the caller but changes nothing here.
Deinit(t) ==
    /\ pc[t] = "deinit"
    /\ contexts' = contexts \ {at[t]}
    /\ Goto(t, "detach_power")
    /\ UNCHANGED <<portVars, slots, at, loads, armed>>

\* configure() remembers the attachment in a local, remove() in the slot.
DetachPower(t) ==
    LET s == at[t]
        attached == IF slots[s].used THEN slots[s].power_attached ELSE Request(s).rail
    IN
    /\ pc[t] = "detach_power"
    /\ loads' = IF attached THEN loads \ {s} ELSE loads
    /\ slots' = [slots EXCEPT ![s].power_attached = FALSE]
    /\ Goto(t, "release_port")
    /\ UNCHANGED <<portVars, at, contexts, armed>>

ReleasePort(t) ==
    LET r == Request(at[t]) IN
    /\ pc[t] = "release_port"
    /\ IF NeedsPort(r) THEN PortRelease(r.port, r.key) ELSE UNCHANGED portVars
    /\ Goto(t, "clear")
    /\ UNCHANGED <<slots, at, externals>>

\* memset of the slot under slots_lock: the last step of a removal and of every
\* failed configuration.
ClearSlot(t) ==
    /\ pc[t] = "clear"
    /\ slots' = [slots EXCEPT ![at[t]] = Cleared]
    /\ Leave(t)
    /\ UNCHANGED <<portVars, externals>>

-----------------------------------------------------------------------------
(* Operations that borrow a Module: read, command, start_events, stop_events *)

\* The guards each operation adds to `used and not busy'.
MayBorrow(s, op) ==
    CASE op \in {"read", "command"} -> slots[s].state = "READY"
      [] op = "start_events" -> /\ Request(s).driver.events
                                /\ ~slots[s].events_started
                                /\ slots[s].state = "READY"
      [] op = "stop_events" -> /\ Request(s).driver.events
                               /\ slots[s].events_started

Borrow(t, s, op) ==
    /\ pc[t] = "idle"
    /\ Available(s)
    /\ MayBorrow(s, op)
    /\ slots' = [slots EXCEPT ![s].busy = TRUE]
    /\ at' = [at EXCEPT ![t] = s]
    /\ Goto(t, op)
    /\ UNCHANGED <<portVars, externals>>

\* read_sequence skips 0 when it wraps.
NextSequence(n) == (IF n = MaxSequence THEN 0 ELSE n) + 1

\* The second locked half of each operation.  Whatever the driver answered, the
\* slot is given back.
Return(t, slot) ==
    /\ slots' = [slots EXCEPT ![at[t]] = [slot EXCEPT !.busy = FALSE]]
    /\ Leave(t)
    /\ UNCHANGED <<portVars, loads, contexts>>

\* A read whose record matches one of the driver's schemas
FinishRead(t) ==
    /\ pc[t] = "read"
    /\ Return(t, [slots[at[t]] EXCEPT !.read_sequence = NextSequence(@)])
    /\ UNCHANGED armed

FinishStartEvents(t) ==
    /\ pc[t] = "start_events"
    /\ Return(t, [slots[at[t]] EXCEPT !.events_started = TRUE])
    /\ armed' = armed \cup {at[t]}

FinishStopEvents(t) ==
    /\ pc[t] = "stop_events"
    /\ Return(t, [slots[at[t]] EXCEPT !.events_started = FALSE])
    /\ armed' = armed \ {at[t]}

\* A command, or any of the others when the driver answers with an error
FinishUnchanged(t) ==
    /\ pc[t] \in {"read", "command", "start_events", "stop_events"}
    /\ Return(t, slots[at[t]])
    /\ UNCHANGED armed

-----------------------------------------------------------------------------
\* The rest of an operation a thread has begun.
Continue(t) ==
    \/ SkipPort(t) \/ AcquirePort(t) \/ PortRefused(t)
    \/ SkipPower(t) \/ AttachPower(t) \/ PowerRefused(t)
    \/ InitDriver(t) \/ InitFails(t)
    \/ SkipStop(t) \/ StopDriver(t) \/ StopFails(t) \/ Deinit(t)
    \/ DetachPower(t) \/ ReleasePort(t) \/ ClearSlot(t)
    \/ FinishRead(t) \/ FinishStartEvents(t) \/ FinishStopEvents(t) \/ FinishUnchanged(t)

Begin(t) ==
    \/ \E r \in Requests : Reserve(t, r)
    \/ \E s \in Slots :
          \/ \E r \in Requests : BeginRemove(t, s, r.revision)
          \/ \E op \in {"read", "command", "start_events", "stop_events"} : Borrow(t, s, op)

Next == \E t \in Threads : Begin(t) \/ Continue(t)

Spec == Init /\ [][Next]_vars

\* Driver, Port and power calls are bounded and the locks are short: a thread
\* inside an operation always goes on.  Nothing obliges it to begin one.
FairSpec == Spec /\ \A t \in Threads : WF_vars(Continue(t))

-----------------------------------------------------------------------------
(* Properties *)

Working(t, s) == pc[t] # "idle" /\ at[t] = s

\* No two live Modules, nor one that is being configured, share a key, and on one
\* Port their endpoints never collide, although the driver, Port and power calls of
\* several configurations and removals overlap.
ClaimsCompatible ==
    \A s, q \in Slots :
        s # q /\ Claimed(s) /\ Claimed(q) =>
            /\ Request(s).key # Request(q).key
            /\ Request(s).port = Request(q).port =>
                  ~EndpointsConflict(Request(s).endpoint, Request(q).endpoint)

\* `busy' and `reserved' work: at most one thread is inside an operation on a Module,
\* so no driver call runs concurrently with another one on the same context, and
\* a slot is never cleared under a thread that still uses it.
OneThreadPerModule ==
    \A t, u \in Threads : \A s \in Slots : Working(t, s) /\ Working(u, s) => t = u

\* A driver is entered only with the live context its init() built: never
\* before it is ready, after deinit(), or through a slot that was reused.
CallsReachLiveContext ==
    \A t \in Threads : pc[t] \in DriverCalls => at[t] \in contexts

\* A driver context is never torn down while the driver may still emit events
\* through it: stop() has succeeded first.
EventsEndBeforeContext == armed \subseteq contexts

\* Whatever step failed, a slot nobody works on holds exactly the resources of its
\* state: none when free; context, Port claim and power load when live.
ResourcesFollowSlots ==
    /\ \A s \in Slots :
          (\A t \in Threads : ~Working(t, s)) =>
             /\ (s \in contexts) = slots[s].used
             /\ (s \in loads) = (slots[s].used /\ Request(s).rail)
             /\ slots[s].used /\ NeedsPort(Request(s)) =>
                   Request(s).key \in owners[Request(s).port]
    /\ \A p \in Ports : \A o \in owners[p] :
          \E s \in Slots : Claimed(s) /\ Request(s).port = p /\ Request(s).key = o

\* Every reservation and every busy mark is temporary: no outcome of a driver,
\* Port or power call leaves a slot unusable for ever.
SlotsComeBack ==
    \A s \in Slots :
        (slots[s].busy \/ slots[s].reserved) ~> ~(slots[s].busy \/ slots[s].reserved)
=============================================================================
