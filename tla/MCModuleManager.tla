--------------------------- MODULE MCModuleManager ---------------------------
(***************************************************************************)
(* ModuleManager on two Ports, two slots and two threads.  The requests     *)
(* meet every rule of configure(): a duplicate key, two I2C addresses on    *)
(* one Port, overlapping GPIO lines, an exclusive endpoint, a transport     *)
(* the Port is not switched to, and a LOGICAL endpoint that claims no Port. *)
(***************************************************************************)
EXTENDS ModuleManager

CONSTANTS p1, p2

Endpoint(kind, value) == [kind |-> kind, value |-> value]
I2CDriver == [transport |-> "I2C", declarative |-> FALSE, events |-> FALSE]
GPIODriver == [transport |-> "GPIO", declarative |-> TRUE, events |-> TRUE]

MCRequest(key, port, endpoint, driver, rail, revision) ==
    [key |-> key, port |-> port, endpoint |-> endpoint, driver |-> driver,
     rail |-> rail, revision |-> revision]

MCRequests ==
    { MCRequest(1, p1, Endpoint("I2C_ADDRESS", {64}), I2CDriver, TRUE, 1),
      MCRequest(2, p1, Endpoint("I2C_ADDRESS", {64}), I2CDriver, FALSE, 1),
      MCRequest(2, p1, Endpoint("I2C_ADDRESS", {65}), I2CDriver, FALSE, 2),
      MCRequest(1, p2, Endpoint("GPIO_LINE", {0, 1}), GPIODriver, FALSE, 1),
      MCRequest(3, p2, Endpoint("GPIO_LINE", {1}), GPIODriver, FALSE, 1),
      MCRequest(3, p1, Endpoint("PORT_EXCLUSIVE", {}), GPIODriver, TRUE, 1),
      MCRequest(3, p1, Endpoint("LOGICAL", {}), GPIODriver, FALSE, 2) }

MCSupported == [p \in {p1, p2} |-> {"I2C", "GPIO"}]
=============================================================================
