---------------------------- MODULE HardwareTest ----------------------------
(***************************************************************************)
(* Hardware tests of the editor: runRecipeHardwareTest                      *)
(* (app/src/lib/recipe-hardware-test.ts) and runDisplayProgram              *)
(* (app/src/lib/display-tool-runtime.ts).  A test parks the configuration   *)
(* of the Core, frees the Port and gives it I2C pins if it has none, applies *)
(* a configuration of its own and puts the parked one back.                 *)
(*                                                                         *)
(* Requests of the page reach the Core in order, over one connection.  A    *)
(* call that is given up (its bound of 10 or 15 seconds, or the user's       *)
(* abort) may still be carried out later.  Another editor may write at any   *)
(* time, and the Core may restart: its generations count from 1 again.       *)
(* What the user sees of it is declared in TestVerdicts.                    *)
(***************************************************************************)
EXTENDS TestVerdicts, Naturals, Sequences

CONSTANTS
    MaxForeign,  \* bound: writes of the other editor
    MaxReboots   \* bound: restarts of the Core

ASSUME TestAssumption ==
    /\ Recipes \intersect Displays = {}
    /\ Nobody \notin Recipes \union Displays
    /\ MaxForeign \in Nat
    /\ MaxReboots \in Nat

\* A configuration: the user's, another editor's, one with the modules taken
\* out for test t ("bare"), the one that test t runs ("trial").
Configs == [kind : {"user", "empty", "foreign"}, of : {Nobody}]
             \union [kind : {"bare", "trial"}, of : Tests]
Users(kind) == [kind |-> kind, of |-> Nobody]
HasModules(c) == c.kind \notin {"empty", "bare"}

VARIABLES
    \* the Core
    generation,
    pins,        \* Port 0 has I2C pins
    boot,
    foreign,
    inbox,       \* requests under way
    \* the page
    active,      \* activeHardwareTests has this Core
    waiting,     \* its call is not given up
    reply,
    expected,    \* the generation it applies with
    final,       \* it is in its catch or finally
    tried        \* it has begun to restore

core == <<live, generation, pins, boot, foreign, inbox>>
book == <<parked, expected, final, tried, result>>
vars == <<core, active, stage, waiting, reply, book>>

\* Of the calls that change no configuration: "ask" reads the pins or, in
\* other steps, stands for the profile catalogue and validation.
Requests == [by : Tests, op : {"get", "ask", "apply", "physical"},
             gen : Nat, config : Configs]
Request(t, op) == [by |-> t, op |-> op, gen |-> 0, config |-> Users("user")]
Apply(t, gen, c) == [by |-> t, op |-> "apply", gen |-> gen, config |-> c]

Replies == [status : {"none", "ok", "error"}, gen : Nat, config : Configs, pins : BOOLEAN]
Reply(status) == [status |-> status, gen |-> 0, config |-> Users("user"), pins |-> FALSE]

Steps == {"idle", "parking", "preparing", "refreshing", "asking", "releasing",
          "released", "wiring", "wired", "applying", "running", "backoff",
          "rereading", "restoring", "ended"}
Results == {"none", "refused", "untouched", "restored", "left"}

TypeOK ==
    /\ live \in Configs
    /\ generation \in Nat \ {0}
    /\ pins \in BOOLEAN
    /\ boot \in Nat
    /\ foreign \in Nat
    /\ inbox \in Seq(Requests)
    /\ active \in BOOLEAN
    /\ stage \in [Tests -> Steps]
    /\ waiting \in [Tests -> BOOLEAN]
    /\ reply \in [Tests -> Replies]
    /\ parked \in [Tests -> Configs]
    /\ expected \in [Tests -> Nat]
    /\ final \in [Tests -> BOOLEAN]
    /\ tried \in [Tests -> BOOLEAN]
    /\ result \in [Tests -> Results]

Init ==
    /\ live \in {Users("user"), Users("empty")}
    /\ generation = 1
    /\ pins \in BOOLEAN
    /\ boot = 0
    /\ foreign = 0
    /\ inbox = <<>>
    /\ active = FALSE
    /\ stage = [t \in Tests |-> "idle"]
    /\ waiting = [t \in Tests |-> FALSE]
    /\ reply = [t \in Tests |-> Reply("none")]
    /\ parked = [t \in Tests |-> Users("user")]
    /\ expected = [t \in Tests |-> 0]
    /\ final = [t \in Tests |-> FALSE]
    /\ tried = [t \in Tests |-> FALSE]
    /\ result = [t \in Tests |-> "none"]

-----------------------------------------------------------------------------
(* The Core.                                                                *)

\* The answer r to the oldest request: lost, or for the caller if it still
\* waits for this very request.
Answer(r) ==
    LET t == Head(inbox).by
        awaited == waiting[t] /\ \A i \in 2..Len(inbox) : inbox[i].by # t
    IN /\ inbox' = Tail(inbox)
       /\ reply' \in IF awaited THEN {reply, [reply EXCEPT ![t] = r]} ELSE {reply}
       /\ UNCHANGED <<boot, foreign, active, stage, waiting, book>>

Oldest(op) == inbox # <<>> /\ Head(inbox).op = op

ServeRead ==
    /\ Oldest("get") \/ Oldest("ask")
    /\ \/ Answer([status |-> "ok", gen |-> generation, config |-> live, pins |-> pins])
       \/ Answer(Reply("error"))
    /\ UNCHANGED <<live, generation, pins>>

Install(c) ==
    /\ live' = c
    /\ generation' = IF live = c THEN generation ELSE generation + 1

Accept ==
    /\ Oldest("apply")
    /\ Head(inbox).gen = generation
    /\ Install(Head(inbox).config)
    /\ Answer(Reply("ok"))
    /\ UNCHANGED pins

\* APPLY_PHYSICAL; when the record cannot be saved the old pins may not come
\* back.
ApplyPhysical ==
    /\ Oldest("physical")
    /\ pins' = TRUE
    /\ \E status \in {"ok", "error"} : Answer(Reply(status))
    /\ UNCHANGED <<live, generation>>

\* Another generation, the write interval, a module that does not start.
Refuse ==
    /\ Oldest("apply") \/ Oldest("physical")
    /\ Answer(Reply("error"))
    /\ UNCHANGED <<live, generation, pins>>

ForeignWrite ==
    /\ foreign < MaxForeign
    /\ foreign' = foreign + 1
    /\ Install(Users("foreign"))
    /\ UNCHANGED <<pins, boot, inbox, active, stage, waiting, reply, book>>

\* What is under way is lost, or arrives when the Core is up again.
Reboot ==
    /\ boot < MaxReboots
    /\ boot' = boot + 1
    /\ generation' = 1
    /\ inbox' \in {inbox, <<>>}
    /\ UNCHANGED <<live, pins, foreign, active, stage, waiting, reply, book>>

-----------------------------------------------------------------------------
(* Calls of a test.                                                         *)

\* Sends q and awaits the answer at step p.
Call(t, q, p) ==
    /\ inbox' = Append(inbox, q)
    /\ stage' = [stage EXCEPT ![t] = p]
    /\ waiting' = [waiting EXCEPT ![t] = TRUE]
    /\ reply' = [reply EXCEPT ![t] = Reply("none")]
    /\ UNCHANGED <<live, generation, pins, boot, foreign>>

\* On to step p without a call.
Continue(t, p) ==
    /\ stage' = [stage EXCEPT ![t] = p]
    /\ waiting' = [waiting EXCEPT ![t] = FALSE]
    /\ reply' = [reply EXCEPT ![t] = Reply("none")]
    /\ UNCHANGED core

\* Only calls that write are bounded
TimeOutOfWrites(t) ==
    /\ waiting[t]
    /\ reply[t].status = "none"
    /\ stage[t] \in {"releasing", "wiring", "applying", "restoring"}
    /\ reply' = [reply EXCEPT ![t] = Reply("error")]
    /\ waiting' = [waiting EXCEPT ![t] = FALSE]
    /\ UNCHANGED <<core, active, stage, book>>

\* boundedRecipeRequest: the bound is reached or the user aborts.
TimeOut(t) ==
    /\ waiting[t]
    /\ reply[t].status = "none"
    /\ reply' = [reply EXCEPT ![t] = Reply("error")]
    /\ waiting' = [waiting EXCEPT ![t] = FALSE]
    /\ UNCHANGED <<core, active, stage, book>>

At(t, p) == stage[t] = p /\ reply[t].status # "none"
Ok(t) == reply[t].status = "ok"

\* The test returns or throws, and `finally' frees the lock.
End(t, r) ==
    /\ result' = [result EXCEPT ![t] = r]
    /\ active' = FALSE
    /\ Continue(t, "ended")
    /\ UNCHANGED <<parked, expected, final, tried>>

-----------------------------------------------------------------------------
(* The test.                                                                *)

\* The lock belongs to one test only until the next one asks for it
BeginAnyhow(t) ==
    /\ stage[t] = "idle"
    /\ active' = TRUE
    /\ Call(t, Request(t, "get"), "parking")
    /\ UNCHANGED book

Begin(t) ==
    /\ stage[t] = "idle"
    /\ ~active
    /\ active' = TRUE
    /\ Call(t, Request(t, "get"), "parking")
    /\ UNCHANGED book

Overlaps(t) ==
    /\ stage[t] = "idle"
    /\ active
    /\ result' = [result EXCEPT ![t] = "refused"]
    /\ Continue(t, "ended")
    /\ UNCHANGED <<active, parked, expected, final, tried>>

\* parkLiveConfig.
Park(t) ==
    /\ At(t, "parking")
    /\ Ok(t)
    /\ parked' = [parked EXCEPT ![t] = reply[t].config]
    /\ expected' = [expected EXCEPT ![t] = reply[t].gen]
    /\ Call(t, Request(t, "ask"), "preparing")
    /\ UNCHANGED <<active, final, tried, result>>

\* The profile is installed and found, the configuration validated.
Refresh(t) ==
    /\ At(t, "preparing")
    /\ Ok(t)
    /\ Call(t, Request(t, "get"), "refreshing")
    /\ UNCHANGED <<active, book>>

\* A recipe goes on with the parked generation if it cannot read a new one;
\* its bus may not be I2C.
Refreshed(t) ==
    /\ At(t, "refreshing")
    /\ Ok(t) \/ t \in Recipes
    /\ LET gen == IF Ok(t) THEN reply[t].gen ELSE expected[t] IN
       /\ expected' = [expected EXCEPT ![t] = gen]
       /\ \/ Call(t, Request(t, "ask"), "asking")
          \/ t \in Recipes /\ Call(t, Apply(t, gen, Of(t, "trial")), "applying")
    /\ UNCHANGED <<active, parked, final, tried, result>>

\* Before anything was written: nothing to put back.
FailsEarly(t) ==
    /\ ~Ok(t)
    /\ \/ At(t, "parking") \/ At(t, "preparing")
       \/ At(t, "refreshing") /\ t \in Displays
       \/ At(t, "asking") /\ t \in Recipes
    /\ End(t, "untouched")

\* ensureRecipeTestI2cPhysical: what the Core has is enough.
HasPins(t) ==
    /\ At(t, "asking")
    /\ Ok(t) /\ reply[t].pins
    /\ Call(t, Apply(t, expected[t], Of(t, "trial")), "applying")
    /\ UNCHANGED <<active, book>>

\* releaseModulesForPhysical.
Release(t) ==
    /\ At(t, "asking")
    /\ Ok(t) /\ ~reply[t].pins
    /\ IF HasModules(parked[t])
       THEN Call(t, Apply(t, expected[t], Of(t, "bare")), "releasing")
       ELSE Call(t, Request(t, "physical"), "wiring")
    /\ UNCHANGED <<active, book>>

\* Whatever the release came to, the pins are tried.
Wire(t) ==
    /\ \/ At(t, "releasing") /\ IF Ok(t) THEN Call(t, Request(t, "get"), "released")
                                ELSE Call(t, Request(t, "physical"), "wiring")
       \/ At(t, "released") /\ Call(t, Request(t, "physical"), "wiring")
    /\ UNCHANGED <<active, book>>

Wired(t) ==
    /\ At(t, "wiring")
    /\ Ok(t)
    /\ Call(t, Request(t, "get"), "wired")
    /\ UNCHANGED <<active, book>>

ApplyTrial(t) ==
    /\ At(t, "wired")
    /\ Ok(t)
    /\ expected' = [expected EXCEPT ![t] = reply[t].gen]
    /\ Call(t, Apply(t, reply[t].gen, Of(t, "trial")), "applying")
    /\ UNCHANGED <<active, parked, final, tried, result>>

\* A recipe returns from its inner catch.
PinsFail(t) ==
    /\ t \in Recipes
    /\ At(t, "wiring") \/ At(t, "wired")
    /\ ~Ok(t)
    /\ End(t, "left")

\* The operations run during APPLY, or as commands of a display.
Run(t) ==
    /\ At(t, "applying")
    /\ Ok(t)
    /\ Continue(t, "running")
    /\ UNCHANGED <<active, book>>

\* The catch of a recipe, once; the finally of a display.  Then the write
\* interval has to pass.
Backoff(t) ==
    /\ ~final[t]
    /\ \/ At(t, "applying") /\ ~Ok(t)
       \/ stage[t] = "running"
       \/ t \in Recipes /\ (At(t, "rereading") \/ At(t, "restoring")) /\ ~Ok(t)
       \/ t \in Displays /\ (At(t, "asking") \/ At(t, "wiring") \/ At(t, "wired")) /\ ~Ok(t)
    /\ final' = [final EXCEPT ![t] = TRUE]
    /\ Continue(t, "backoff")
    /\ UNCHANGED <<active, parked, expected, tried, result>>

\* restoreParkedConfig.
Restore(t) ==
    /\ stage[t] = "backoff" \/ (t \in Recipes /\ stage[t] = "running")
    /\ tried' = [tried EXCEPT ![t] = TRUE]
    /\ Call(t, Request(t, "get"), "rereading")
    /\ UNCHANGED <<active, parked, expected, final, result>>

PutBack(t) ==
    /\ At(t, "rereading")
    /\ Ok(t)
    /\ Call(t, Apply(t, reply[t].gen, parked[t]), "restoring")
    /\ UNCHANGED <<active, book>>

\* A write that was not refused is taken for one that happened
RestoredUnlessRefused(t) ==
    /\ At(t, "restoring")
    /\ Ok(t) \/ ~waiting[t]
    /\ End(t, "restored")

Restored(t) ==
    /\ At(t, "restoring")
    /\ Ok(t)
    /\ End(t, "restored")

NotRestored(t) ==
    /\ final[t]
    /\ At(t, "rereading") \/ At(t, "restoring")
    /\ ~Ok(t)
    /\ End(t, "left")

-----------------------------------------------------------------------------
Flow(t) ==
    \/ TimeOut(t) \/ Park(t) \/ Refresh(t) \/ Refreshed(t) \/ FailsEarly(t)
    \/ HasPins(t) \/ Release(t) \/ Wire(t) \/ Wired(t) \/ ApplyTrial(t) \/ PinsFail(t)
    \/ Run(t) \/ Backoff(t) \/ Restore(t) \/ PutBack(t) \/ Restored(t) \/ NotRestored(t)

Next ==
    \/ ServeRead \/ Accept \/ ApplyPhysical \/ Refuse \/ ForeignWrite \/ Reboot
    \/ \E t \in Tests : Begin(t) \/ Overlaps(t) \/ Flow(t)

\* The page goes on running and its timers fire; the Core need not answer.
Spec == Init /\ [][Next]_vars /\ \A t \in Tests : WF_vars(Flow(t))

-----------------------------------------------------------------------------
(* What the tests promise.                                                  *)

\* "releases the test lock when GET_CONFIG never responds": every test ends
\* and frees the Core for the next one.
LockIsFreed == active ~> ~active

\* What a test has taken out it tries to put back, whichever step fails.
\* "Keep the original parked snapshot for restore".
AlwaysTries ==
    \A t \in Tests : stage[t] = "ended" /\ ~tried[t] => live \notin Temporary(t)

\* A program that another editor wrote stays.
ForeignSurvives ==
    [][live = Users("foreign") => live' = live]_vars

=============================================================================
