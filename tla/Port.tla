-------------------------------- MODULE Port --------------------------------
(***************************************************************************)
(* The ownership half of subsys/port/port.c: a Port is a connector whose    *)
(* single controller is claimed by Modules, each under its own nonzero      *)
(* owner number.  The first owner selects a transport on the backend, the   *)
(* last one returns the connector to its safe state.  Every operation runs  *)
(* under ports_lock and is therefore one atomic step.                       *)
(***************************************************************************)
EXTENDS Naturals, FiniteSets

CONSTANTS
    Ports,        \* connectors of the board
    Owners,       \* owner numbers; Module Manager uses the Module key
    Supported,    \* transports each Port has the capability for
    MixedPorts,   \* Ports whose user map (user_config[0] = 1) lifts the sharing rules
    MaxOwners     \* size of the owners array

Transports == {"I2C", "SPI", "UART", "GPIO", "ADC", "W1"}

\* transport_active = false
NoTransport == "none"

\* transport_is_shareable: addressed or per-line transports take several owners.
Shareable == Transports \ {"UART"}

ASSUME PortAssumption ==
    /\ Supported \in [Ports -> SUBSET Transports]
    /\ MixedPorts \subseteq Ports
    /\ MaxOwners \in Nat \ {0}

VARIABLES
    owners,       \* [Ports -> SUBSET Owners]
    transport     \* [Ports -> Transports \cup {NoTransport}]

portVars == <<owners, transport>>

PortTypeOK ==
    /\ owners \in [Ports -> SUBSET Owners]
    /\ transport \in [Ports -> Transports \cup {NoTransport}]

PortInit ==
    /\ owners = [p \in Ports |-> {}]
    /\ transport = [p \in Ports |-> NoTransport]

\* A live transport is only joined by its own kind, and only if it is shareable.
\* A Port with a user map waives both rules.
MayJoin(p, tr) ==
    \/ p \in MixedPorts
    \/ /\ transport[p] = tr
       /\ tr \in Shareable \/ owners[p] = {}

\* The conditions under which spaghetti_port_acquire can return 0.
MayAcquire(p, o, tr) ==
    /\ tr \in Supported[p]
    /\ o \notin owners[p]
    /\ transport[p] # NoTransport => MayJoin(p, tr)
    /\ Cardinality(owners[p]) < MaxOwners

\* A claim is recorded; the first one fixes the active transport.
PortAcquire(p, o, tr) ==
    /\ MayAcquire(p, o, tr)
    /\ owners' = [owners EXCEPT ![p] = @ \cup {o}]
    /\ transport' = [transport EXCEPT ![p] = IF @ = NoTransport THEN tr ELSE @]

\* A claim is refused: a rule forbids it, or the backend cannot switch an idle
\* Port to the transport.
PortRefuse(p, o, tr) ==
    /\ MayAcquire(p, o, tr) => transport[p] = NoTransport
    /\ UNCHANGED portVars

\* The last owner leaving makes the Port inactive even if backend_safe fails.
PortRelease(p, o) ==
    /\ owners' = [owners EXCEPT ![p] = @ \ {o}]
    /\ transport' = [transport EXCEPT ![p] =
                        IF o \in owners[p] /\ owners[p] \ {o} = {}
                        THEN NoTransport ELSE @]
=============================================================================
