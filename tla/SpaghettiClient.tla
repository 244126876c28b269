--------------------------- MODULE SpaghettiClient ---------------------------
(***************************************************************************)
(* One SpaghettiClient of the editor, the transport below it and the Core   *)
(* that answers: request() with its timers, retries and abort signal, the   *)
(* pending map, the serial transport that writes one request at a time, a   *)
(* link that loses frames, and communication.c with its replay cache.       *)
(*                                                                          *)
(* A macrotask of the page and the microtasks it starts are one step, so a  *)
(* settled promise and what awaits it change together.  Timers may fire in  *)
(* any order and at any time: deadlines of 5, 8 and 20 s are not compared.  *)
(* Correlation ids are the calls themselves, since allocateCorrelationId    *)
(* never gives the id of a call that is still pending.                      *)
(* The replay window of the Core, 30 s and more, is longer than any of those *)
(* deadlines, so an entry of the cache goes only when its slot is taken.    *)
(***************************************************************************)
EXTENDS Naturals, Sequences, FiniteSets

CONSTANTS
    Calls,
    NoCall,
    Slots,          \* CONFIG_SPAGHETTI_PROTOCOL_REPLAY_CACHE_SIZE
    MaxRetries,     \* options.maxRetries
    MaxBoots,       \* bound: starts of the Core
    StatusBoot      \* [1..MaxBoots -> Nat]: the boot id its STATUS events carry

ASSUME ClientAssumption ==
    /\ NoCall \notin Calls
    /\ IsFiniteSet(Calls)
    /\ Slots \in Nat \ {0}
    /\ MaxRetries \in Nat
    /\ MaxBoots \in Nat \ {0}
    /\ StatusBoot \in [1..MaxBoots -> Nat \ {0}]

VARIABLES
    link,        \* "serial", or "direct": WebSocket and MQTT, where send does not wait
    phase,       \* where the loop of request() is, for each call
    attempt,     \* its loop counter
    aborted,     \* its signal, as far as it is still to be noticed
    settled,     \* what responsePromise of this attempt was settled with
    outcome,     \* what the caller was told
    pending,     \* the calls in the pending map
    queue,       \* sendQueue: frames whose send is not resolved, the first is written
    disposed,
    knownBoot,   \* lastKnownBootId, 0 for null
    toCore,      \* requests on the line
    toHost,      \* responses on the line
    boot,        \* which start of the Core this is
    cache,       \* replay_cache
    victim,      \* replay_next_victim
    runs,        \* how often the handler of each call ran since the start
    answers      \* what the handler of each call ever answered

client == <<phase, attempt, aborted, settled, outcome, pending, disposed, knownBoot>>
core == <<boot, cache, victim, runs, answers>>
vars == <<link, client, queue, toCore, toHost, core>>

Statuses == {"ok", "error"}
Settlements == Statuses \union {"none", "cancelled", "rebooted"}
Outcomes == Settlements \union {"timeout"}
Phases == {"idle", "sending", "waiting", "sleeping", "ended"}

Frames == [call : Calls, status : Statuses]
Free == [call |-> NoCall, status |-> "error"]

TypeOK ==
    /\ link \in {"serial", "direct"}
    /\ phase \in [Calls -> Phases]
    /\ attempt \in [Calls -> 0..MaxRetries]
    /\ aborted \in [Calls -> BOOLEAN]
    /\ settled \in [Calls -> Settlements]
    /\ outcome \in [Calls -> Outcomes]
    /\ pending \in SUBSET Calls
    /\ queue \in Seq(Calls)
    /\ disposed \in BOOLEAN
    /\ knownBoot \in Nat
    /\ toCore \in Seq(Calls)
    /\ toHost \in Seq(Frames)
    /\ boot \in 1..MaxBoots
    /\ cache \in [1..Slots -> Frames \union {Free}]
    /\ victim \in 1..Slots
    /\ runs \in [Calls -> Nat]
    /\ answers \in [Calls -> SUBSET Statuses]

Init ==
    /\ link \in {"serial", "direct"}
    /\ phase = [c \in Calls |-> "idle"]
    /\ attempt = [c \in Calls |-> 0]
    /\ aborted = [c \in Calls |-> FALSE]
    /\ settled = [c \in Calls |-> "none"]
    /\ outcome = [c \in Calls |-> "none"]
    /\ pending = {}
    /\ queue = <<>>
    /\ disposed = FALSE
    /\ knownBoot = 0
    /\ toCore = <<>>
    /\ toHost = <<>>
    /\ boot = 1
    /\ cache = [i \in 1..Slots |-> Free]
    /\ victim = 1
    /\ runs = [c \in Calls |-> 0]
    /\ answers = [c \in Calls |-> {}]

-----------------------------------------------------------------------------
(* The transport.                                                           *)

\* Hands the frame of c over: written at once unless the serial transport
\* still waits for the answer to an earlier one.
Send(c) ==
    /\ queue' = IF link = "serial" THEN Append(queue, c) ELSE queue
    /\ toCore' = IF queue = <<>> THEN Append(toCore, c) ELSE toCore

\* The send of the frame that is being written resolves, and the next frame
\* is written.
Release ==
    /\ queue' = IF queue = <<>> THEN <<>> ELSE Tail(queue)
    /\ toCore' = IF Len(queue) > 1 THEN Append(toCore, queue[2]) ELSE toCore

\* The calls that were waiting for that send.
Released == {c \in Calls : queue # <<>> /\ c = Head(queue) /\ phase[c] = "sending"}

-----------------------------------------------------------------------------
(* The client.                                                              *)

\* Promises settle as s says and the sends of freed resolve: a call whose
\* send has resolved and whose responsePromise is settled ends with it.
Proceed(s, freed) ==
    LET past == {c \in Calls : phase[c] = "waiting" \/ c \in freed}
    IN
    /\ settled' = s
    /\ phase' = [c \in Calls |->
                   IF c \notin past THEN phase[c]
                   ELSE IF s[c] = "none" THEN "waiting" ELSE "ended"]
    /\ outcome' = [c \in Calls |->
                     IF c \in past /\ s[c] # "none" THEN s[c] ELSE outcome[c]]
    /\ pending' = {c \in pending : s[c] = "none"}

\* The call ends and stays in the map
FailAndStay(c, o) ==
    /\ phase' = [phase EXCEPT ![c] = "ended"]
    /\ outcome' = [outcome EXCEPT ![c] = o]
    /\ UNCHANGED pending

\* pending.delete and throw: the call ends without an answer.
Fail(c, o) ==
    /\ phase' = [phase EXCEPT ![c] = "ended"]
    /\ outcome' = [outcome EXCEPT ![c] = o]
    /\ pending' = pending \ {c}

Request(c) ==
    /\ phase[c] = "idle"
    /\ phase' = [phase EXCEPT ![c] = IF link = "serial" THEN "sending" ELSE "waiting"]
    /\ pending' = pending \union {c}
    /\ Send(c)
    /\ UNCHANGED <<link, attempt, aborted, settled, outcome, disposed, knownBoot, toHost, core>>

\* The attempts are not counted
ResendForEver(c) ==
    /\ phase[c] = "sleeping"
    /\ Send(c)
    /\ IF aborted[c]
       THEN Fail(c, "cancelled")
       ELSE /\ phase' = [phase EXCEPT ![c] = IF link = "serial" THEN "sending" ELSE "waiting"]
            /\ pending' = pending \union {c}
            /\ UNCHANGED outcome
    /\ UNCHANGED <<link, attempt, aborted, settled, disposed, knownBoot, toHost, core>>

\* After the retry delay: the loop again, with the same correlation id.  An
\* abort during the delay is noticed only once the frame was handed over.
Resend(c) ==
    /\ phase[c] = "sleeping"
    /\ attempt' = [attempt EXCEPT ![c] = attempt[c] + 1]
    /\ Send(c)
    /\ IF aborted[c]
       THEN Fail(c, "cancelled")
       ELSE /\ phase' = [phase EXCEPT ![c] = IF link = "serial" THEN "sending" ELSE "waiting"]
            /\ pending' = pending \union {c}
            /\ UNCHANGED outcome
    /\ UNCHANGED <<link, aborted, settled, disposed, knownBoot, toHost, core>>

\* The write stalls until the deadline of the call.
SendDeadline(c) ==
    /\ phase[c] = "sending"
    /\ Fail(c, "timeout")
    /\ UNCHANGED <<link, attempt, aborted, settled, disposed, knownBoot, queue, toCore, toHost, core>>

\* No answer, and no attempt left or the deadline reached.
GiveUp(c) ==
    /\ phase[c] = "waiting"
    /\ Fail(c, "timeout")
    /\ UNCHANGED <<link, attempt, aborted, settled, disposed, knownBoot, queue, toCore, toHost, core>>

\* No answer to this attempt: the call leaves the map for the retry delay.
RetryLater(c) ==
    /\ phase[c] = "waiting"
    /\ attempt[c] < MaxRetries
    /\ phase' = [phase EXCEPT ![c] = "sleeping"]
    /\ pending' = pending \ {c}
    /\ UNCHANGED <<link, attempt, aborted, settled, outcome, disposed, knownBoot,
                   queue, toCore, toHost, core>>

Abort(c) ==
    /\ \/ /\ phase[c] \in {"sending", "waiting"}
          /\ Fail(c, "cancelled")
          /\ UNCHANGED aborted
       \/ /\ phase[c] = "sleeping"
          /\ ~aborted[c]
          /\ aborted' = [aborted EXCEPT ![c] = TRUE]
          /\ UNCHANGED <<phase, outcome, pending>>
    /\ UNCHANGED <<link, attempt, settled, disposed, knownBoot, queue, toCore, toHost, core>>

\* A response frame: the serial transport takes it for the answer to the
\* frame it wrote last, the client looks its call up in the map.
HandleResponse ==
    /\ toHost # <<>>
    /\ LET f == Head(toHost)
           mine == ~disposed /\ f.call \in pending
       IN Proceed(IF mine THEN [settled EXCEPT ![f.call] = f.status] ELSE settled, Released)
    /\ Release
    /\ toHost' = Tail(toHost)
    /\ UNCHANGED <<link, attempt, aborted, disposed, knownBoot, core>>

\* writeOne waits 8 s for a response and then lets the next request go.
WriteTimeout ==
    /\ queue # <<>>
    /\ Proceed(settled, Released)
    /\ Release
    /\ UNCHANGED <<link, attempt, aborted, disposed, knownBoot, toHost, core>>

Reject(o) == [c \in Calls |-> IF c \in pending THEN o ELSE settled[c]]

\* A STATUS event.  Only MQTT carries them, not the serial link.
HandleEvent ==
    /\ link = "direct"
    /\ ~disposed
    /\ knownBoot # StatusBoot[boot]
    /\ knownBoot' = StatusBoot[boot]
    /\ Proceed(IF knownBoot = 0 THEN settled ELSE Reject("rebooted"), {})
    /\ UNCHANGED <<link, attempt, aborted, disposed, queue, toCore, toHost, core>>

Dispose ==
    /\ ~disposed
    /\ disposed' = TRUE
    /\ Proceed(Reject("cancelled"), {})
    /\ UNCHANGED <<link, attempt, aborted, knownBoot, queue, toCore, toHost, core>>

-----------------------------------------------------------------------------
(* The line and the Core.                                                   *)

\* Noise, a request that comes while the worker is busy, a reply whose frame
\* could not be sent in 2 s.
Lose ==
    /\ \/ toCore # <<>> /\ toCore' = Tail(toCore) /\ UNCHANGED toHost
       \/ toHost # <<>> /\ toHost' = Tail(toHost) /\ UNCHANGED toCore
    /\ UNCHANGED <<link, client, queue, core>>

Cached(c) == {i \in 1..Slots : cache[i].call = c}

\* The first free slot, else the slots in turn.
SlotFor ==
    IF Cached(NoCall) = {} THEN victim
    ELSE CHOOSE i \in Cached(NoCall) : \A j \in Cached(NoCall) : i <= j

\* handle_request for a request that the cache remembers: the same answer again.
Replay ==
    /\ toCore # <<>>
    /\ Cached(Head(toCore)) # {}
    /\ \E i \in Cached(Head(toCore)) : toHost' = Append(toHost, cache[i])
    /\ toCore' = Tail(toCore)
    /\ UNCHANGED <<link, client, queue, core>>

\* Only what went well is stored
ExecuteForgetsErrors(s) ==
    /\ toCore # <<>>
    /\ LET c == Head(toCore)
           f == [call |-> c, status |-> s]
       IN
       /\ Cached(c) = {}
       /\ runs' = [runs EXCEPT ![c] = runs[c] + 1]
       /\ answers' = [answers EXCEPT ![c] = answers[c] \union {s}]
       /\ cache' = IF s = "ok" THEN [cache EXCEPT ![SlotFor] = f] ELSE cache
       /\ toHost' = Append(toHost, f)
    /\ UNCHANGED victim
    /\ toCore' = Tail(toCore)
    /\ UNCHANGED <<link, client, queue, boot>>

\* handle_request for any other: the handler runs and its answer is stored.
Execute(s) ==
    /\ toCore # <<>>
    /\ LET c == Head(toCore)
           f == [call |-> c, status |-> s]
       IN
       /\ Cached(c) = {}
       /\ runs' = [runs EXCEPT ![c] = runs[c] + 1]
       /\ answers' = [answers EXCEPT ![c] = answers[c] \union {s}]
       /\ cache' = [cache EXCEPT ![SlotFor] = f]
       /\ toHost' = Append(toHost, f)
    /\ victim' = IF Cached(NoCall) = {} THEN (victim % Slots) + 1 ELSE victim
    /\ toCore' = Tail(toCore)
    /\ UNCHANGED <<link, client, queue, boot>>

\* The Core restarts: its RAM and what was on the way to it are gone.
Reboot ==
    /\ boot < MaxBoots
    /\ boot' = boot + 1
    /\ cache' = [i \in 1..Slots |-> Free]
    /\ victim' = 1
    /\ runs' = [c \in Calls |-> 0]
    /\ toCore' = <<>>
    /\ UNCHANGED <<link, client, queue, toHost, answers>>

-----------------------------------------------------------------------------
Next ==
    \/ \E c \in Calls : \/ Request(c) \/ Resend(c) \/ SendDeadline(c)
                        \/ GiveUp(c) \/ RetryLater(c) \/ Abort(c)
    \/ HandleResponse \/ WriteTimeout \/ HandleEvent \/ Dispose
    \/ Lose \/ Replay \/ Reboot
    \/ \E s \in Statuses : Execute(s)

\* Timers fire.  Nothing is assumed of the line, of the Core or of the user.
Fairness ==
    /\ WF_vars(WriteTimeout)
    /\ \A c \in Calls : /\ WF_vars(SendDeadline(c))
                        /\ WF_vars(GiveUp(c) \/ RetryLater(c))
                        /\ WF_vars(Resend(c))

Spec == Init /\ [][Next]_vars /\ Fairness

-----------------------------------------------------------------------------
(* What the client promises.                                                *)

\* The class comment: retries reuse the correlation id, so a mutation lands
\* inside the firmware's replay window instead of being executed again, and
\* an answer reaches the call it belongs to.  Client, line and Core together
\* implement one remote call.
Promise == INSTANCE RemoteCall
ImplementsRemoteCall == Promise!Spec

\* The pending map holds exactly the calls that can still be answered: what
\* dispose or a reboot does not reject there is never told, and what stays
\* there after its call has ended takes the answer of nobody.
PendingIsWaiting ==
    pending = {c \in Calls : phase[c] \in {"sending", "waiting"} /\ settled[c] = "none"}

\* Every call started ends, whatever the line and the Core do.
CallsEnd == \A c \in Calls : (phase[c] # "idle") ~> (phase[c] = "ended")

\* handleEvent: a changed boot id annuls the ephemeral requests, so no call
\* started before is left to be sent again across the boundary.
RebootEndsCalls ==
    [][knownBoot # 0 /\ knownBoot' # knownBoot
         => \A c \in Calls : phase'[c] # "sleeping"]_vars
=============================================================================
