---------------------------- MODULE TestVerdicts ----------------------------
(***************************************************************************)
(* The hardware tests of a Core as their user sees them: the configuration  *)
(* in force, what each test is to put back, and what it says it has done,   *)
(* with what is promised of it.  The steps are in HardwareTest.             *)
(***************************************************************************)
CONSTANTS
    Recipes,     \* tests of a recipe
    Displays,    \* programs of the display tool
    Nobody       \* of no test

VARIABLES
    live,        \* the configuration in force
    stage,       \* per test: the call it awaits
    parked,      \* what the test puts back
    result       \* what it says when it has ended

Tests == Recipes \union Displays

Of(t, kind) == [kind |-> kind, of |-> t]

\* A configuration of test t: without the user's modules, or with its own
Temporary(t) == {Of(t, "bare"), Of(t, "trial")}

\* "restored: true" or nothing: when a test has ended and its configuration,
\* or the one without the user's modules, is in force, the test has said so.
\* However late a request is carried out, it does not bring them back.
LeftBehindIsTold ==
    \A t \in Tests : stage[t] = "ended" /\ live \in Temporary(t) => result[t] = "left"

\* "One temporary config transaction at a time per connected Core, including
\* restore": no test takes the temporary configuration of another for the
\* user's, unless that one was given up with its configuration in force.
ParksTheUsers ==
    \A t \in Tests :
        parked[t].of # Nobody => parked[t].of # t /\ result[parked[t].of] = "left"

=============================================================================
