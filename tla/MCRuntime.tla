------------------------------ MODULE MCRuntime ------------------------------
(***************************************************************************)
(* Runtime on three live Modules: two with events, one of them also polled, *)
(* and one that is only polled.  One caller, one host, a queue of one event *)
(* so that it is full as soon as it is not empty.                           *)
(***************************************************************************)
EXTENDS Runtime, TLC

CONSTANTS p1

MCModule(key, kind, value, events) ==
    [key |-> key, port |-> p1, endpoint |-> [kind |-> kind, value |-> value],
     driver |-> [transport |-> "GPIO", declarative |-> TRUE, events |-> events],
     rail |-> FALSE, revision |-> 1]

Button == MCModule(1, "GPIO_LINE", {0}, TRUE)
Keypad == MCModule(2, "GPIO_LINE", {1}, TRUE)
Thermometer == MCModule(3, "GPIO_LINE", {2}, FALSE)

MCSupported == [p \in {p1} |-> {"GPIO"}]
MCRequests == {Button, Keypad, Thermometer}
MCInstalled == 0 :> Button @@ 1 :> Keypad @@ 2 :> Thermometer

Job(s, enabled) == [source |-> s, enabled |-> enabled]
MCConfigurations == { <<Job(0, TRUE), Job(1, FALSE)>>, <<Job(2, TRUE)>> }
=============================================================================
