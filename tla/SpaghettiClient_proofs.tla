------------------------ MODULE SpaghettiClient_proofs ------------------------
(***************************************************************************)
(* Proof that a client, its transport and a Core with enough replay slots   *)
(* implement RemoteCall, for every set of calls, every number of retries    *)
(* and restarts, and whatever the line loses.                               *)
(*                                                                         *)
(* Then the Core's end of the protocol: the dispatcher of Communication     *)
(* answers each request with its own outcome, gives a mutation slot to one  *)
(* holder at a time, and keeps the verdict of a job.                        *)
(***************************************************************************)
EXTENDS SpaghettiClient, CommunicationState, TLAPS, FiniteSetTheorems, WellFoundedInduction, SequenceTheorems

\* A call has ended exactly when its caller was told something.
Told == \A c \in Calls : outcome[c] = "none" <=> phase[c] # "ended"

\* What is settled, on the line or remembered was answered by a run.
Answered ==
    /\ \A c \in Calls : settled[c] \in Statuses => settled[c] \in answers[c]
    /\ \A i \in 1..Len(toHost) : toHost[i].status \in answers[toHost[i].call]
    /\ \A i \in 1..Slots : cache[i].call # NoCall => cache[i].status \in answers[cache[i].call]

\* The cache is filled from the first slot on, one slot for each call.
Filled(n) ==
    /\ \A i \in 1..Slots : cache[i].call = NoCall <=> i > n
    /\ \A i, j \in 1..n : cache[i].call = cache[j].call => i = j

Remembered ==
    /\ \E n \in 0..Slots : Filled(n)
    /\ \A c \in Calls : runs[c] # 0 => Cached(c) # {}

\* A call that will be sent again has an attempt left.
Sleepers == \A c \in Calls : phase[c] = "sleeping" => attempt[c] < MaxRetries

Inv == TypeOK /\ Told /\ Sleepers /\ Answered /\ Remembered

-----------------------------------------------------------------------------
(* Steps of the client and of the line.                                     *)

LEMMA SendTypes ==
    ASSUME TypeOK, NEW c \in Calls, Send(c)
    PROVE  queue' \in Seq(Calls) /\ toCore' \in Seq(Calls)
BY DEF TypeOK, Send

LEMMA ReleaseTypes ==
    ASSUME TypeOK, Release
    PROVE  queue' \in Seq(Calls) /\ toCore' \in Seq(Calls)
<1>1. queue \in Seq(Calls) /\ toCore \in Seq(Calls)
  BY DEF TypeOK
<1>2. queue' \in Seq(Calls)
  BY <1>1 DEF Release
<1>3. Len(queue) > 1 => queue[2] \in Calls
  BY <1>1
<1>4. toCore' \in Seq(Calls)
  BY <1>1, <1>3 DEF Release
<1> QED
  BY <1>2, <1>4

\* A client that settles promises tells every call that ends what it was
\* settled with, and no other.
LEMMA ProceedKeeps ==
    ASSUME TypeOK, Told, NEW s \in [Calls -> Settlements],
           NEW freed \in SUBSET {c \in Calls : phase[c] = "sending"}, Proceed(s, freed)
    PROVE  /\ settled' = s
           /\ phase' \in [Calls -> Phases]
           /\ outcome' \in [Calls -> Outcomes]
           /\ pending' \in SUBSET Calls
           /\ Told'
           /\ \A c \in Calls : phase'[c] = "sleeping" => phase[c] = "sleeping"
           /\ \A c \in Calls : outcome'[c] # outcome[c] => outcome[c] = "none" /\ outcome'[c] = s[c]
<1> DEFINE past == {c \in Calls : phase[c] = "waiting" \/ c \in freed}
<1>1. /\ settled' = s
      /\ phase' = [c \in Calls |->
                     IF c \notin past THEN phase[c]
                     ELSE IF s[c] = "none" THEN "waiting" ELSE "ended"]
      /\ outcome' = [c \in Calls |->
                       IF c \in past /\ s[c] # "none" THEN s[c] ELSE outcome[c]]
      /\ pending' = {c \in pending : s[c] = "none"}
  BY DEF Proceed
<1>2. \A c \in past : c \in Calls /\ phase[c] \in {"waiting", "sending"}
  OBVIOUS
<1> HIDE DEF past
<1>3. phase' \in [Calls -> Phases]
  BY <1>1 DEF TypeOK, Phases
<1>4. outcome' \in [Calls -> Outcomes]
  BY <1>1 DEF TypeOK, Outcomes
<1>5. pending' \in SUBSET Calls
  BY <1>1 DEF TypeOK
<1>6. Told'
  <2> SUFFICES ASSUME NEW c \in Calls
               PROVE  outcome'[c] = "none" <=> phase'[c] # "ended"
    BY DEF Told
  <2>1. CASE c \in past
    <3>1. phase[c] # "ended" /\ outcome[c] = "none"
      BY <1>2, <2>1 DEF Told
    <3> QED
      BY <1>1, <2>1, <3>1
  <2>2. CASE c \notin past
    BY <1>1, <2>2 DEF Told
  <2> QED
    BY <2>1, <2>2
<1>7. \A c \in Calls : outcome'[c] # outcome[c] => outcome[c] = "none" /\ outcome'[c] = s[c]
  BY <1>1, <1>2 DEF Told
<1>8. \A c \in Calls : phase'[c] = "sleeping" => phase[c] = "sleeping"
  BY <1>1
<1> QED
  BY <1>1, <1>3, <1>4, <1>5, <1>6, <1>7, <1>8

LEMMA FailKeeps ==
    ASSUME TypeOK, Told, NEW c \in Calls, NEW o \in {"timeout", "cancelled"}, phase[c] # "ended",
           Fail(c, o)
    PROVE  /\ phase' \in [Calls -> Phases]
           /\ outcome' \in [Calls -> Outcomes]
           /\ pending' \in SUBSET Calls
           /\ Told'
           /\ \A d \in Calls : phase'[d] = "sleeping" => phase[d] = "sleeping"
           /\ \A d \in Calls : outcome'[d] # outcome[d] => outcome[d] = "none" /\ outcome'[d] = o
<1>1. "ended" \in Phases /\ o \in Outcomes /\ o # "none"
  BY DEF Phases, Outcomes, Settlements
<1> QED
  BY <1>1 DEF TypeOK, Told, Fail

\* A step that the Core has no part in.
LEMMA ClientKeeps ==
    ASSUME Inv, UNCHANGED core, TypeOK', Told', Sleepers',
           \A c \in Calls : settled'[c] \in Statuses => settled'[c] \in answers[c],
           toHost' = toHost \/ (toHost # <<>> /\ toHost' = Tail(toHost))
    PROVE  Inv'
<1>1. toHost \in Seq(Frames)
  BY DEF Inv, TypeOK
<1>2. \A i \in 1..Len(toHost') : \E j \in 1..Len(toHost) : toHost'[i] = toHost[j]
  <2>1. CASE toHost' = toHost
    BY <2>1
  <2>2. CASE toHost # <<>> /\ toHost' = Tail(toHost)
    <3>1. Len(toHost') = Len(toHost) - 1 /\ Len(toHost) \in Nat
          /\ \A i \in 1..Len(toHost') : toHost'[i] = toHost[i + 1]
      BY <1>1, <2>2
    <3> QED
      BY <3>1
  <2> QED
    BY <2>1, <2>2
<1>3. \A i \in 1..Len(toHost') : toHost'[i].status \in answers[toHost'[i].call]
  BY <1>2 DEF Inv, Answered
<1>4. Answered'
  BY <1>3 DEF Inv, Answered, core
<1>5. Remembered'
  BY DEF Inv, Remembered, Filled, Cached, core
<1> QED
  BY <1>4, <1>5 DEF Inv

LEMMA SendingWaits ==
    (IF link = "serial" THEN "sending" ELSE "waiting") \in Phases \ {"ended"}
BY DEF Phases

LEMMA RequestKeeps ==
    ASSUME Inv, NEW c \in Calls, Request(c)
    PROVE  Inv'
<1>1. queue' \in Seq(Calls) /\ toCore' \in Seq(Calls)
  BY SendTypes DEF Request, Inv
<1>2. TypeOK' /\ Told' /\ Sleepers'
  BY <1>1, SendingWaits DEF Request, Inv, TypeOK, Told, Sleepers, core
<1> QED
  BY <1>2, ClientKeeps DEF Request, Inv, Answered

LEMMA ResendKeeps ==
    ASSUME Inv, NEW c \in Calls, Resend(c)
    PROVE  Inv'
<1>1. queue' \in Seq(Calls) /\ toCore' \in Seq(Calls)
  BY SendTypes DEF Resend, Inv
<1>2. attempt' \in [Calls -> 0..MaxRetries]
  <2>1. attempt[c] + 1 \in 0..MaxRetries
    BY ClientAssumption DEF Resend, Inv, TypeOK, Sleepers
  <2> QED
    BY <2>1 DEF Resend, Inv, TypeOK
<1>3. TypeOK' /\ Told' /\ Sleepers'
  <2>1. CASE aborted[c]
    <3>1. Fail(c, "cancelled") /\ phase[c] # "ended"
      BY <2>1 DEF Resend
    <3>2. TypeOK' /\ Told'
      BY <1>1, <1>2, <3>1, FailKeeps DEF Resend, Inv, TypeOK, core
    <3>3. Sleepers'
      BY <3>1 DEF Fail, Resend, Inv, TypeOK, Sleepers
    <3> QED
      BY <3>2, <3>3
  <2>2. CASE ~aborted[c]
    BY <1>1, <1>2, <2>2, SendingWaits DEF Resend, Inv, TypeOK, Told, Sleepers, core
  <2> QED
    BY <2>1, <2>2
<1> QED
  BY <1>3, ClientKeeps DEF Resend, Inv, Answered

LEMMA TimersKeep ==
    ASSUME Inv, NEW c \in Calls, SendDeadline(c) \/ GiveUp(c) \/ RetryLater(c) \/ Abort(c)
    PROVE  Inv'
<1>1. CASE SendDeadline(c) \/ GiveUp(c)
  <2>1. Fail(c, "timeout") /\ phase[c] # "ended"
    BY <1>1 DEF SendDeadline, GiveUp
  <2>2. UNCHANGED <<link, attempt, aborted, settled, disposed, knownBoot, queue, toCore, toHost, core>>
    BY <1>1 DEF SendDeadline, GiveUp
  <2>3. TypeOK' /\ Told' /\ Sleepers'
    BY <2>1, <2>2, FailKeeps DEF Inv, TypeOK, Sleepers, core
  <2> QED
    BY <2>2, <2>3, ClientKeeps DEF Inv, Answered
<1>2. CASE RetryLater(c)
  <2>1. "sleeping" \in Phases
    BY DEF Phases
  <2>2. TypeOK' /\ Told' /\ Sleepers'
    BY <1>2, <2>1 DEF RetryLater, Inv, TypeOK, Told, Sleepers, core
  <2> QED
    BY <1>2, <2>2, ClientKeeps DEF RetryLater, Inv, Answered
<1>3. CASE Abort(c)
  <2>1. TypeOK' /\ Told' /\ Sleepers'
    <3>1. CASE phase[c] \in {"sending", "waiting"} /\ Fail(c, "cancelled") /\ UNCHANGED aborted
      <4>1. phase[c] # "ended"
        BY <3>1
      <4> QED
        BY <1>3, <3>1, <4>1, FailKeeps DEF Abort, Inv, TypeOK, Sleepers, core
    <3>2. CASE /\ aborted' = [aborted EXCEPT ![c] = TRUE]
               /\ UNCHANGED <<phase, outcome, pending>>
      BY <1>3, <3>2 DEF Abort, Inv, TypeOK, Told, Sleepers, core
    <3> QED
      BY <1>3, <3>1, <3>2 DEF Abort
  <2> QED
    BY <1>3, <2>1, ClientKeeps DEF Abort, Inv, Answered
<1> QED
  BY <1>1, <1>2, <1>3

\* What HandleResponse settles is an answer of the call it settles.
LEMMA ResponseSettles ==
    ASSUME Inv, toHost # <<>>, NEW mine \in BOOLEAN,
           NEW s, s = IF mine THEN [settled EXCEPT ![Head(toHost).call] = Head(toHost).status] ELSE settled
    PROVE  /\ s \in [Calls -> Settlements]
           /\ \A c \in Calls : s[c] \in Statuses => s[c] \in answers[c]
<1>1. Head(toHost) \in Frames /\ Head(toHost) = toHost[1] /\ 1 \in 1..Len(toHost)
  BY DEF Inv, TypeOK
<1>2. /\ Head(toHost).call \in Calls /\ Head(toHost).status \in Statuses
      /\ Head(toHost).status \in answers[Head(toHost).call]
  BY <1>1 DEF Frames, Inv, Answered
<1> QED
  BY <1>2 DEF Inv, TypeOK, Answered, Settlements

LEMMA HandleResponseKeeps ==
    ASSUME Inv, HandleResponse
    PROVE  Inv'
<1> DEFINE f == Head(toHost)
           mine == ~disposed /\ f.call \in pending
           s == IF mine THEN [settled EXCEPT ![f.call] = f.status] ELSE settled
<1>1. /\ toHost # <<>> /\ Proceed(s, Released) /\ Release /\ toHost' = Tail(toHost)
      /\ UNCHANGED <<link, attempt, aborted, disposed, knownBoot, core>>
  BY DEF HandleResponse
<1>2. s \in [Calls -> Settlements] /\ \A c \in Calls : s[c] \in Statuses => s[c] \in answers[c]
  BY <1>1, ResponseSettles
<1> HIDE DEF s
<1>3. Released \in SUBSET {c \in Calls : phase[c] = "sending"}
  BY DEF Released
<1>4. /\ settled' = s /\ phase' \in [Calls -> Phases] /\ outcome' \in [Calls -> Outcomes]
      /\ pending' \in SUBSET Calls /\ Told'
      /\ \A c \in Calls : phase'[c] = "sleeping" => phase[c] = "sleeping"
  BY <1>1, <1>2, <1>3, ProceedKeeps DEF Inv
<1>5. queue' \in Seq(Calls) /\ toCore' \in Seq(Calls)
  BY <1>1, ReleaseTypes DEF Inv
<1>6. toHost' \in Seq(Frames)
  BY <1>1 DEF Inv, TypeOK
<1>7. TypeOK' /\ Sleepers'
  BY <1>1, <1>2, <1>4, <1>5, <1>6 DEF Inv, TypeOK, Sleepers, core
<1> QED
  BY <1>1, <1>2, <1>4, <1>7, ClientKeeps

LEMMA WriteTimeoutKeeps ==
    ASSUME Inv, WriteTimeout
    PROVE  Inv'
<1>1. settled \in [Calls -> Settlements] /\ Released \in SUBSET {c \in Calls : phase[c] = "sending"}
  BY DEF Released, Inv, TypeOK
<1>2. /\ settled' = settled /\ phase' \in [Calls -> Phases] /\ outcome' \in [Calls -> Outcomes]
      /\ pending' \in SUBSET Calls /\ Told'
      /\ \A c \in Calls : phase'[c] = "sleeping" => phase[c] = "sleeping"
  BY <1>1, ProceedKeeps DEF WriteTimeout, Inv
<1>3. queue' \in Seq(Calls) /\ toCore' \in Seq(Calls)
  BY ReleaseTypes DEF WriteTimeout, Inv
<1>4. TypeOK' /\ Sleepers'
  BY <1>2, <1>3 DEF WriteTimeout, Inv, TypeOK, Sleepers, core
<1> QED
  BY <1>2, <1>4, ClientKeeps DEF WriteTimeout, Inv, Answered

\* A rejection is not an answer.
LEMMA RejectSettles ==
    ASSUME Inv, NEW o \in {"cancelled", "rebooted"}
    PROVE  /\ Reject(o) \in [Calls -> Settlements]
           /\ \A c \in Calls : Reject(o)[c] \in Statuses => Reject(o)[c] \in answers[c]
BY DEF Reject, Inv, TypeOK, Answered, Settlements, Statuses

LEMMA EventsKeep ==
    ASSUME Inv, HandleEvent \/ Dispose
    PROVE  Inv'
<1>1. PICK s \in [Calls -> Settlements] :
        /\ \A c \in Calls : s[c] \in Statuses => s[c] \in answers[c]
        /\ Proceed(s, {})
  <2>1. CASE HandleEvent
    BY <2>1, RejectSettles DEF HandleEvent, Inv, TypeOK, Answered
  <2>2. CASE Dispose
    BY <2>2, RejectSettles DEF Dispose
  <2> QED
    BY <2>1, <2>2
<1>2. /\ settled' = s /\ phase' \in [Calls -> Phases] /\ outcome' \in [Calls -> Outcomes]
      /\ pending' \in SUBSET Calls /\ Told'
      /\ \A c \in Calls : phase'[c] = "sleeping" => phase[c] = "sleeping"
  <2>1. {} \in SUBSET {c \in Calls : phase[c] = "sending"}
    OBVIOUS
  <2> QED
    BY <1>1, <2>1, ProceedKeeps DEF Inv
<1>3. disposed' \in BOOLEAN /\ knownBoot' \in Nat
  BY ClientAssumption DEF HandleEvent, Dispose, Inv, TypeOK
<1>4. UNCHANGED <<link, attempt, aborted, queue, toCore, toHost, core>>
  BY DEF HandleEvent, Dispose
<1>5. TypeOK' /\ Sleepers'
  BY <1>2, <1>3, <1>4 DEF Inv, TypeOK, Sleepers, core
<1> QED
  BY <1>1, <1>2, <1>4, <1>5, ClientKeeps

LEMMA LoseKeeps ==
    ASSUME Inv, Lose
    PROVE  Inv'
<1>1. UNCHANGED <<link, client, queue, core>>
  BY DEF Lose
<1>2. toCore' \in Seq(Calls) /\ toHost' \in Seq(Frames)
  <2>1. toCore \in Seq(Calls) /\ toHost \in Seq(Frames)
    BY DEF Inv, TypeOK
  <2>2. CASE toCore # <<>> /\ toCore' = Tail(toCore) /\ UNCHANGED toHost
    BY <2>1, <2>2
  <2>3. CASE toHost # <<>> /\ toHost' = Tail(toHost) /\ UNCHANGED toCore
    BY <2>1, <2>3
  <2> QED
    BY <2>2, <2>3 DEF Lose
<1>3. TypeOK' /\ Told' /\ Sleepers'
  BY <1>1, <1>2 DEF Inv, TypeOK, Told, Sleepers, client, core
<1>4. toHost' = toHost \/ (toHost # <<>> /\ toHost' = Tail(toHost))
  BY DEF Lose
<1> QED
  BY <1>1, <1>3, <1>4, ClientKeeps DEF Inv, Answered, client

-----------------------------------------------------------------------------
(* Steps of the Core.                                                       *)

\* With a slot for every call, a call that is not in the cache finds a free
\* slot, and it is the one behind the slots in use.
LEMMA SlotIsNext ==
    ASSUME Inv, Cardinality(Calls) <= Slots, NEW c \in Calls, Cached(c) = {}
    PROVE  \E n \in 0..Slots : n < Slots /\ Filled(n) /\ Cached(NoCall) # {} /\ SlotFor = n + 1
<1>1. PICK n \in 0..Slots : Filled(n)
  BY DEF Inv, Remembered
<1>2. n \in Nat /\ Slots \in Nat /\ n <= Slots
  BY <1>1, ClientAssumption
<1>3. \A i \in 1..n : cache[i].call \in Calls \ {c}
  <2> SUFFICES ASSUME NEW i \in 1..n
               PROVE  cache[i].call \in Calls \ {c}
    OBVIOUS
  <2>1. i \in 1..Slots
    BY <1>2
  <2>2. cache[i].call # NoCall
    BY <1>1, <1>2, <2>1 DEF Filled
  <2>3. cache[i] \in Frames
    BY <2>1, <2>2 DEF Inv, TypeOK, Free
  <2>4. cache[i].call # c
    BY <2>1 DEF Cached
  <2> QED
    BY <2>3, <2>4 DEF Frames
<1>4. n < Slots
  <2>1. SUFFICES ASSUME n = Slots
                 PROVE  FALSE
    BY <1>2
  <2>2. IsFiniteSet(Calls \ {c}) /\ Cardinality(Calls \ {c}) = Cardinality(Calls) - 1
        /\ Cardinality(Calls) \in Nat
    BY ClientAssumption, FS_RemoveElement, FS_CardinalityType
  <2>3. IsFiniteSet(1..n) /\ Cardinality(1..n) = n
    BY <1>2, FS_Interval
  <2>4. Cardinality(1..n) > Cardinality(Calls \ {c})
    BY <1>2, <2>1, <2>2, <2>3
  <2> DEFINE h == [i \in 1..n |-> cache[i].call]
  <2>5. h \in [1..n -> Calls \ {c}]
    BY <1>3
  <2> HIDE DEF h
  <2>6. \E i, j \in 1..n : i # j /\ h[i] = h[j]
    BY <2>2, <2>3, <2>4, <2>5, FS_PigeonHole
  <2>7. \E i, j \in 1..n : i # j /\ cache[i].call = cache[j].call
    BY <2>6 DEF h
  <2> QED
    BY <1>1, <2>7 DEF Filled
<1>5. n + 1 \in Cached(NoCall) /\ \A j \in Cached(NoCall) : n + 1 <= j
  BY <1>1, <1>2, <1>4 DEF Filled, Cached
<1>6. \A i \in Cached(NoCall) : (\A j \in Cached(NoCall) : i <= j) => i = n + 1
  BY <1>2, <1>5 DEF Cached
<1>7. SlotFor = n + 1
  BY <1>5, <1>6 DEF SlotFor
<1> QED
  BY <1>1, <1>4, <1>5, <1>7

\* A call that is not in the cache has not run since the Core started.
LEMMA ExecuteIsFirst ==
    ASSUME Inv, NEW c \in Calls, Cached(c) = {}
    PROVE  runs[c] = 0
BY DEF Inv, Remembered

LEMMA ExecuteKeeps ==
    ASSUME Inv, Cardinality(Calls) <= Slots, NEW s \in Statuses, Execute(s)
    PROVE  Inv'
<1> DEFINE c == Head(toCore)
           f == [call |-> c, status |-> s]
<1>1. toCore \in Seq(Calls) /\ toHost \in Seq(Frames) /\ toCore # <<>>
  BY DEF Inv, TypeOK, Execute
<1>2. c \in Calls /\ toCore' \in Seq(Calls)
  BY <1>1 DEF Execute
<1>3. f \in Frames /\ f.call = c /\ f.status = s
  BY <1>2 DEF Frames
<1>4. /\ Cached(c) = {}
      /\ runs' = [runs EXCEPT ![c] = runs[c] + 1]
      /\ answers' = [answers EXCEPT ![c] = answers[c] \union {s}]
      /\ cache' = [cache EXCEPT ![SlotFor] = f]
      /\ toHost' = Append(toHost, f)
      /\ UNCHANGED <<link, client, queue, boot>>
  BY DEF Execute
<1> HIDE DEF c, f
<1>5. PICK n \in 0..Slots : n < Slots /\ Filled(n) /\ Cached(NoCall) # {} /\ SlotFor = n + 1
  BY <1>2, <1>4, SlotIsNext
<1>6. n \in Nat /\ Slots \in Nat /\ n + 1 \in 1..Slots
  BY <1>5, ClientAssumption
<1>7. cache' = [cache EXCEPT ![n + 1] = f] /\ victim' = victim
  BY <1>4, <1>5 DEF Execute
<1>8. \A d \in Calls : answers[d] \subseteq answers'[d] /\ s \in answers'[c]
  BY <1>2, <1>4 DEF Inv, TypeOK
<1>9. c # NoCall
  BY <1>2, ClientAssumption
<1>10. TypeOK'
  <2>1. toHost' \in Seq(Frames)
    BY <1>1, <1>3, <1>4
  <2>2. cache' \in [1..Slots -> Frames \union {Free}]
    BY <1>3, <1>7 DEF Inv, TypeOK
  <2>3. runs' \in [Calls -> Nat] /\ answers' \in [Calls -> SUBSET Statuses]
    BY <1>2, <1>4 DEF Inv, TypeOK
  <2> QED
    BY <1>2, <1>4, <1>7, <2>1, <2>2, <2>3 DEF Inv, TypeOK, client
<1>11. Told' /\ Sleepers'
  BY <1>4 DEF Inv, Told, Sleepers, client
<1>12. Answered'
  <2>1. \A d \in Calls : settled'[d] \in Statuses => settled'[d] \in answers'[d]
    BY <1>4, <1>8 DEF Inv, Answered, client
  <2>2. \A i \in 1..Len(toHost') : toHost'[i].status \in answers'[toHost'[i].call]
    <3> SUFFICES ASSUME NEW i \in 1..Len(toHost')
                 PROVE  toHost'[i].status \in answers'[toHost'[i].call]
      OBVIOUS
    <3>1. CASE i \in 1..Len(toHost)
      <4>1. toHost'[i] = toHost[i] /\ toHost[i] \in Frames
        BY <1>1, <1>3, <1>4, <3>1
      <4> QED
        BY <1>8, <3>1, <4>1 DEF Inv, Answered, Frames
    <3>2. CASE i = Len(toHost) + 1
      <4>1. toHost'[i] = f
        BY <1>1, <1>3, <1>4, <3>2
      <4> QED
        BY <1>2, <1>3, <1>8, <4>1
    <3> QED
      BY <1>1, <1>3, <1>4, <3>1, <3>2
  <2>3. \A i \in 1..Slots : cache'[i].call # NoCall => cache'[i].status \in answers'[cache'[i].call]
    <3> SUFFICES ASSUME NEW i \in 1..Slots, cache'[i].call # NoCall
                 PROVE  cache'[i].status \in answers'[cache'[i].call]
      OBVIOUS
    <3>1. CASE i = n + 1
      <4>1. cache'[i] = f
        BY <1>7, <3>1 DEF Inv, TypeOK
      <4> QED
        BY <1>2, <1>3, <1>8, <4>1
    <3>2. CASE i # n + 1
      <4>1. cache'[i] = cache[i] /\ cache[i] \in Frames \union {Free}
        BY <1>7, <3>2 DEF Inv, TypeOK
      <4>2. cache[i] \in Frames /\ cache[i].call # NoCall
        BY <4>1 DEF Free
      <4>3. cache[i].call \in Calls
        BY <4>2 DEF Frames
      <4> QED
        BY <1>8, <4>1, <4>2, <4>3 DEF Inv, Answered
    <3> QED
      BY <3>1, <3>2
  <2> QED
    BY <2>1, <2>2, <2>3 DEF Answered
<1>13. Remembered'
  <2>1. /\ cache'[n + 1] = f
        /\ \A i \in 1..Slots : i # n + 1 => cache'[i] = cache[i]
    BY <1>6, <1>7 DEF Inv, TypeOK
  <2>2. \A i \in 1..Slots : cache'[i].call = NoCall <=> i > n + 1
    BY <1>3, <1>5, <1>6, <1>9, <2>1 DEF Filled
  <2>3. \A i \in 1..Slots : cache[i].call # c
    BY <1>4 DEF Cached
  <2>4. \A i, j \in 1..(n + 1) : cache'[i].call = cache'[j].call => i = j
    <3> SUFFICES ASSUME NEW i \in 1..(n + 1), NEW j \in 1..(n + 1),
                        cache'[i].call = cache'[j].call
                 PROVE  i = j
      OBVIOUS
    <3>1. i \in 1..Slots /\ j \in 1..Slots
      BY <1>6
    <3>2. CASE i # n + 1 /\ j # n + 1
      <4>1. i \in 1..n /\ j \in 1..n
        BY <1>6, <3>2
      <4> QED
        BY <1>5, <2>1, <3>1, <3>2, <4>1 DEF Filled
    <3>3. CASE i = n + 1 \/ j = n + 1
      BY <1>3, <2>1, <2>3, <3>1, <3>3
    <3> QED
      BY <3>2, <3>3
  <2>5. Filled(n + 1)'
    BY <2>2, <2>4 DEF Filled
  <2>6. \E m \in 0..Slots : Filled(m)'
    BY <1>6, <2>5
  <2>7. ASSUME NEW d \in Calls, runs'[d] # 0
        PROVE  \E i \in 1..Slots : cache'[i].call = d
    <3>1. CASE d = c
      BY <1>3, <1>6, <2>1, <3>1
    <3>2. CASE d # c
      <4>1. runs[d] # 0
        BY <1>4, <2>7, <3>2 DEF Inv, TypeOK
      <4>2. PICK i \in 1..Slots : cache[i].call = d
        BY <4>1 DEF Inv, Remembered, Cached
      <4>3. i # n + 1
        BY <1>5, <1>6, <4>2, ClientAssumption DEF Filled
      <4> QED
        BY <2>1, <4>2, <4>3
    <3> QED
      BY <3>1, <3>2
  <2> QED
    BY <2>6, <2>7 DEF Remembered, Cached
<1> QED
  BY <1>10, <1>11, <1>12, <1>13 DEF Inv

LEMMA ReplayKeeps ==
    ASSUME Inv, Replay
    PROVE  Inv'
<1>1. toCore \in Seq(Calls) /\ toHost \in Seq(Frames) /\ toCore # <<>>
  BY DEF Inv, TypeOK, Replay
<1>2. Head(toCore) \in Calls /\ toCore' \in Seq(Calls)
  BY <1>1 DEF Replay
<1>3. PICK k \in Cached(Head(toCore)) : toHost' = Append(toHost, cache[k])
  BY DEF Replay
<1>4. k \in 1..Slots /\ cache[k].call # NoCall
  BY <1>2, <1>3, ClientAssumption DEF Cached
<1>5. cache[k] \in Frames /\ cache[k].status \in answers[cache[k].call]
  <2>1. cache[k] \in Frames \union {Free}
    BY <1>4 DEF Inv, TypeOK
  <2>2. cache[k] \in Frames
    BY <1>4, <2>1 DEF Free
  <2> QED
    BY <1>4, <2>2 DEF Inv, Answered
<1>6. UNCHANGED <<link, client, queue, core>>
  BY DEF Replay
<1>7. toHost' \in Seq(Frames)
  BY <1>1, <1>3, <1>5
<1>8. TypeOK' /\ Told' /\ Sleepers'
  BY <1>2, <1>6, <1>7 DEF Inv, TypeOK, Told, Sleepers, client, core
<1>9. \A i \in 1..Len(toHost') : toHost'[i].status \in answers[toHost'[i].call]
  <2> SUFFICES ASSUME NEW i \in 1..Len(toHost')
               PROVE  toHost'[i].status \in answers[toHost'[i].call]
    OBVIOUS
  <2>1. CASE i \in 1..Len(toHost)
    <3>1. toHost'[i] = toHost[i]
      BY <1>1, <1>3, <1>5, <2>1
    <3> QED
      BY <2>1, <3>1 DEF Inv, Answered
  <2>2. CASE i = Len(toHost) + 1
    <3>1. toHost'[i] = cache[k]
      BY <1>1, <1>3, <1>5, <2>2
    <3> QED
      BY <1>5, <3>1
  <2> QED
    BY <1>1, <1>3, <1>5, <2>1, <2>2
<1>10. Answered'
  BY <1>6, <1>9 DEF Inv, Answered, client, core
<1>11. Remembered'
  BY <1>6 DEF Inv, Remembered, Filled, Cached, core
<1> QED
  BY <1>8, <1>10, <1>11 DEF Inv

LEMMA RebootKeeps ==
    ASSUME Inv, Reboot
    PROVE  Inv'
<1>1. UNCHANGED <<link, client, queue, toHost, answers>> /\ toCore' = <<>> /\ victim' = 1
      /\ boot' = boot + 1 /\ boot < MaxBoots
      /\ cache' = [i \in 1..Slots |-> Free] /\ runs' = [c \in Calls |-> 0]
  BY DEF Reboot
<1>2. Slots \in Nat /\ Slots >= 1 /\ Free.call = NoCall
  BY ClientAssumption DEF Free
<1>3. TypeOK'
  <2>1. boot' \in 1..MaxBoots /\ victim' \in 1..Slots
    BY <1>1, <1>2, ClientAssumption DEF Inv, TypeOK
  <2>2. cache' \in [1..Slots -> Frames \union {Free}] /\ runs' \in [Calls -> Nat]
    BY <1>1
  <2>3. toCore' \in Seq(Calls)
    BY <1>1
  <2> QED
    BY <1>1, <2>1, <2>2, <2>3 DEF Inv, TypeOK, client
<1>4. Told' /\ Sleepers'
  BY <1>1 DEF Inv, Told, Sleepers, client
<1>5. \A i \in 1..Slots : cache'[i].call = NoCall
  BY <1>1, <1>2
<1>6. Answered'
  BY <1>1, <1>5 DEF Inv, Answered, client
<1>7. Filled(0)'
  BY <1>2, <1>5 DEF Filled
<1>8. Remembered'
  <2>1. \E n \in 0..Slots : Filled(n)'
    BY <1>2, <1>7
  <2>2. \A c \in Calls : runs'[c] = 0
    BY <1>1
  <2> QED
    BY <2>1, <2>2 DEF Remembered
<1> QED
  BY <1>3, <1>4, <1>6, <1>8 DEF Inv

-----------------------------------------------------------------------------
(* The invariant and the refinement.                                        *)

LEMMA InitHolds ==
    ASSUME Init
    PROVE  Inv
<1>1. /\ Slots \in Nat /\ Slots >= 1 /\ Free.call = NoCall /\ MaxRetries \in Nat
      /\ MaxBoots \in Nat /\ MaxBoots >= 1
  BY ClientAssumption DEF Free
<1>2. TypeOK
  <2>1. /\ phase \in [Calls -> Phases] /\ settled \in [Calls -> Settlements]
        /\ outcome \in [Calls -> Outcomes]
    BY DEF Init, Phases, Settlements, Outcomes
  <2>2. /\ attempt \in [Calls -> 0..MaxRetries] /\ aborted \in [Calls -> BOOLEAN]
        /\ knownBoot \in Nat /\ boot \in 1..MaxBoots /\ victim \in 1..Slots
        /\ runs \in [Calls -> Nat]
    BY <1>1 DEF Init
  <2>3. /\ pending \in SUBSET Calls /\ disposed \in BOOLEAN /\ link \in {"serial", "direct"}
        /\ answers \in [Calls -> SUBSET Statuses]
    BY DEF Init
  <2>4. queue \in Seq(Calls) /\ toCore \in Seq(Calls) /\ toHost \in Seq(Frames)
    BY DEF Init
  <2>5. cache \in [1..Slots -> Frames \union {Free}]
    BY DEF Init
  <2> QED
    BY <2>1, <2>2, <2>3, <2>4, <2>5 DEF TypeOK
<1>3. Told /\ Sleepers
  BY DEF Init, Told, Sleepers
<1>4. \A i \in 1..Slots : cache[i].call = NoCall
  BY <1>1 DEF Init
<1>5. Answered
  BY <1>4 DEF Init, Answered, Statuses
<1>6. Filled(0)
  BY <1>1, <1>4 DEF Filled
<1>7. Remembered
  BY <1>1, <1>6 DEF Init, Remembered
<1> QED
  BY <1>2, <1>3, <1>5, <1>7 DEF Inv

LEMMA StutterKeeps ==
    ASSUME Inv, UNCHANGED vars
    PROVE  Inv'
<1>1. TypeOK' /\ Told' /\ Sleepers'
  BY DEF vars, client, core, Inv, TypeOK, Told, Sleepers
<1>2. UNCHANGED core /\ settled' = settled /\ toHost' = toHost
  BY DEF vars, client
<1> QED
  BY <1>1, <1>2, ClientKeeps DEF Inv, Answered

LEMMA StepKeeps ==
    ASSUME Inv, Cardinality(Calls) <= Slots, [Next]_vars
    PROVE  Inv'
<1>1. CASE \E c \in Calls : Request(c)
  BY <1>1, RequestKeeps
<1>2. CASE \E c \in Calls : Resend(c)
  BY <1>2, ResendKeeps
<1>3. CASE \E c \in Calls : SendDeadline(c) \/ GiveUp(c) \/ RetryLater(c) \/ Abort(c)
  BY <1>3, TimersKeep
<1>4. CASE HandleResponse \/ WriteTimeout
  BY <1>4, HandleResponseKeeps, WriteTimeoutKeeps
<1>5. CASE HandleEvent \/ Dispose
  BY <1>5, EventsKeep
<1>6. CASE Lose \/ Replay \/ Reboot
  BY <1>6, LoseKeeps, ReplayKeeps, RebootKeeps
<1>7. CASE \E s \in Statuses : Execute(s)
  BY <1>7, ExecuteKeeps
<1>8. CASE UNCHANGED vars
  BY <1>8, StutterKeeps
<1> QED
  BY <1>1, <1>2, <1>3, <1>4, <1>5, <1>6, <1>7, <1>8 DEF Next

\* A step that the Core has no part in is an End of RemoteCall, or a stutter.
LEMMA EndRefines ==
    ASSUME Inv, UNCHANGED <<runs, answers>>, outcome' \in [Calls -> Outcomes],
           \A c \in Calls : outcome'[c] # outcome[c] =>
               /\ outcome[c] = "none"
               /\ outcome'[c] \in Statuses => outcome'[c] \in answers[c]
    PROVE  Promise!End
<1>1. Outcomes = Promise!Outcomes /\ Statuses = Promise!Statuses
  BY DEF Outcomes, Settlements, Statuses, Promise!Outcomes, Promise!Statuses
<1> QED
  BY <1>1 DEF Promise!End

LEMMA FailRefines ==
    ASSUME Inv, NEW c \in Calls, NEW o \in {"timeout", "cancelled"}, phase[c] # "ended",
           Fail(c, o), UNCHANGED <<runs, answers>>
    PROVE  Promise!End
<1>1. /\ outcome' \in [Calls -> Outcomes]
      /\ \A d \in Calls : outcome'[d] # outcome[d] => outcome[d] = "none" /\ outcome'[d] = o
  BY FailKeeps DEF Inv
<1>2. o \notin Statuses
  BY DEF Statuses
<1> QED
  BY <1>1, <1>2, EndRefines

LEMMA ProceedRefines ==
    ASSUME Inv, NEW s \in [Calls -> Settlements],
           \A c \in Calls : s[c] \in Statuses => s[c] \in answers[c],
           NEW freed \in SUBSET {c \in Calls : phase[c] = "sending"}, Proceed(s, freed),
           UNCHANGED <<runs, answers>>
    PROVE  Promise!End
<1>1. /\ outcome' \in [Calls -> Outcomes]
      /\ \A c \in Calls : outcome'[c] # outcome[c] => outcome[c] = "none" /\ outcome'[c] = s[c]
  BY ProceedKeeps DEF Inv
<1> QED
  BY <1>1, EndRefines

LEMMA ClientRefines ==
    ASSUME Inv, NEW c \in Calls,
           \/ Request(c) \/ Resend(c) \/ SendDeadline(c)
           \/ GiveUp(c) \/ RetryLater(c) \/ Abort(c)
    PROVE  Promise!End \/ UNCHANGED Promise!vars
<1>1. UNCHANGED <<runs, answers>>
  BY DEF Request, Resend, SendDeadline, GiveUp, RetryLater, Abort, core
<1>2. CASE SendDeadline(c) \/ GiveUp(c)
  <2>1. Fail(c, "timeout") /\ phase[c] # "ended"
    BY <1>2 DEF SendDeadline, GiveUp
  <2> QED
    BY <1>1, <2>1, FailRefines
<1>3. CASE Fail(c, "cancelled") /\ phase[c] # "ended"
  BY <1>1, <1>3, FailRefines
<1>4. CASE UNCHANGED outcome
  BY <1>1, <1>4 DEF Promise!vars
<1> QED
  BY <1>2, <1>3, <1>4 DEF Request, Resend, RetryLater, Abort

LEMMA TransportRefines ==
    ASSUME Inv, HandleResponse \/ WriteTimeout \/ HandleEvent \/ Dispose
    PROVE  Promise!End
<1>1. UNCHANGED <<runs, answers>>
  BY DEF HandleResponse, WriteTimeout, HandleEvent, Dispose, core
<1>2. Released \in SUBSET {c \in Calls : phase[c] = "sending"}
  BY DEF Released
<1>3. CASE HandleResponse
  <2> DEFINE f == Head(toHost)
             mine == ~disposed /\ f.call \in pending
             s == IF mine THEN [settled EXCEPT ![f.call] = f.status] ELSE settled
  <2>1. toHost # <<>> /\ Proceed(s, Released)
    BY <1>3 DEF HandleResponse
  <2>2. s \in [Calls -> Settlements] /\ \A c \in Calls : s[c] \in Statuses => s[c] \in answers[c]
    BY <2>1, ResponseSettles
  <2> HIDE DEF s
  <2> QED
    BY <1>1, <1>2, <2>1, <2>2, ProceedRefines
<1>4. CASE WriteTimeout
  <2>1. settled \in [Calls -> Settlements] /\ Proceed(settled, Released)
    BY <1>4 DEF WriteTimeout, Inv, TypeOK
  <2>2. \A c \in Calls : settled[c] \in Statuses => settled[c] \in answers[c]
    BY DEF Inv, Answered
  <2> QED
    BY <1>1, <1>2, <2>1, <2>2, ProceedRefines
<1>5. CASE HandleEvent \/ Dispose
  <2>1. PICK s \in [Calls -> Settlements] :
          /\ \A c \in Calls : s[c] \in Statuses => s[c] \in answers[c]
          /\ Proceed(s, {})
    <3>1. CASE HandleEvent
      BY <3>1, RejectSettles DEF HandleEvent, Inv, TypeOK, Answered
    <3>2. CASE Dispose
      BY <3>2, RejectSettles DEF Dispose
    <3> QED
      BY <1>5, <3>1, <3>2
  <2>2. {} \in SUBSET {c \in Calls : phase[c] = "sending"}
    OBVIOUS
  <2> QED
    BY <1>1, <2>1, <2>2, ProceedRefines
<1> QED
  BY <1>3, <1>4, <1>5

LEMMA CoreRefines ==
    ASSUME Inv, \/ Lose \/ Replay \/ Reboot
                \/ \E s \in Statuses : Execute(s)
    PROVE  [Promise!Next]_(Promise!vars)
<1>1. CASE Lose \/ Replay
  <2>1. UNCHANGED <<runs, answers, outcome>>
    BY <1>1 DEF Lose, Replay, client, core
  <2> QED
    BY <2>1 DEF Promise!vars
<1>2. CASE Reboot
  <2>1. Promise!Restart
    BY <1>2 DEF Reboot, client, Promise!Restart
  <2> QED
    BY <2>1 DEF Promise!Next
<1>3. CASE \E s \in Statuses : Execute(s)
  <2>1. PICK s \in Statuses : Execute(s)
    BY <1>3
  <2> DEFINE c == Head(toCore)
  <2>2. /\ toCore # <<>> /\ Cached(c) = {} /\ outcome' = outcome
        /\ runs' = [runs EXCEPT ![c] = runs[c] + 1]
        /\ answers' = [answers EXCEPT ![c] = answers[c] \union {s}]
    BY <2>1 DEF Execute, client
  <2>3. c \in Calls
    BY <2>2 DEF Inv, TypeOK
  <2> HIDE DEF c
  <2>4. runs[c] = 0
    BY <2>2, <2>3, ExecuteIsFirst
  <2>5. Promise!Run(c, s)
    BY <2>2, <2>4 DEF Promise!Run
  <2>6. s \in Promise!Statuses
    BY DEF Statuses, Promise!Statuses
  <2> QED
    BY <2>3, <2>5, <2>6 DEF Promise!Next
<1> QED
  BY <1>1, <1>2, <1>3

LEMMA StepRefines ==
    ASSUME Inv, [Next]_vars
    PROVE  [Promise!Next]_(Promise!vars)
<1>1. CASE \E c \in Calls : \/ Request(c) \/ Resend(c) \/ SendDeadline(c)
                             \/ GiveUp(c) \/ RetryLater(c) \/ Abort(c)
  BY <1>1, ClientRefines DEF Promise!Next
<1>2. CASE HandleResponse \/ WriteTimeout \/ HandleEvent \/ Dispose
  BY <1>2, TransportRefines DEF Promise!Next
<1>3. CASE \/ Lose \/ Replay \/ Reboot
           \/ \E s \in Statuses : Execute(s)
  BY <1>3, CoreRefines
<1>4. CASE UNCHANGED vars
  BY <1>4 DEF vars, client, core, Promise!vars
<1> QED
  BY <1>1, <1>2, <1>3, <1>4 DEF Next

\* As long as the calls fit in the replay cache, every state is a state of
\* Inv: what is told was answered, and what ran is remembered.
THEOREM ClientInvariant ==
    ASSUME Cardinality(Calls) <= Slots
    PROVE  Spec => []Inv
<1>1. Init => Inv
  BY InitHolds
<1>2. Inv /\ [Next]_vars => Inv'
  BY StepKeeps
<1> QED
  BY <1>1, <1>2, PTL DEF Spec

\* Type correctness of the client, the line and the replay cache.
THEOREM ClientTypes ==
    ASSUME Cardinality(Calls) <= Slots
    PROVE  Spec => []TypeOK
<1>1. Inv => TypeOK
  BY DEF Inv
<1> QED
  BY <1>1, ClientInvariant, PTL

\* At most one run of an operation for each start of the Core, however often
\* the request is sent again, and a caller is told what a run of its own
\* operation answered: for every number of calls the cache has room for.
THEOREM ClientImplementsRemoteCall ==
    ASSUME Cardinality(Calls) <= Slots
    PROVE  Spec => ImplementsRemoteCall
<1>1. Init => Promise!Init
  BY DEF Init, Promise!Init
<1>2. Inv /\ [Next]_vars => [Promise!Next]_(Promise!vars)
  BY StepRefines
<1> QED
  BY <1>1, <1>2, ClientInvariant, PTL DEF Spec, ImplementsRemoteCall, Promise!Spec

-----------------------------------------------------------------------------
(* The pending map.                                                         *)

\* Only a call whose send is still under way may be settled and not ended.
Unsettled == \A c \in Calls : phase[c] \in {"idle", "waiting", "sleeping"} => settled[c] = "none"

MapInv == PendingIsWaiting /\ Unsettled

LEMMA ProceedMap ==
    ASSUME TypeOK, MapInv, NEW s \in [Calls -> Settlements],
           \A c \in Calls : s[c] = settled[c] \/ (s[c] # "none" /\ c \in pending),
           NEW freed \in SUBSET {c \in Calls : phase[c] = "sending"}, Proceed(s, freed)
    PROVE  MapInv'
<1> DEFINE past == {c \in Calls : phase[c] = "waiting" \/ c \in freed}
<1>1. /\ settled' = s
      /\ phase' = [c \in Calls |->
                     IF c \notin past THEN phase[c]
                     ELSE IF s[c] = "none" THEN "waiting" ELSE "ended"]
      /\ pending' = {c \in pending : s[c] = "none"}
  BY DEF Proceed
<1>2. \A c \in past : phase[c] \in {"waiting", "sending"}
  OBVIOUS
<1>3. \A c \in Calls : phase[c] = "waiting" => c \in past
  OBVIOUS
<1> HIDE DEF past
<1>4. Unsettled'
  <2> SUFFICES ASSUME NEW c \in Calls, phase'[c] \in {"idle", "waiting", "sleeping"}
               PROVE  s[c] = "none"
    BY <1>1 DEF Unsettled
  <2>1. CASE c \in past
    BY <1>1, <2>1
  <2>2. CASE c \notin past
    BY <1>1, <1>3, <2>2 DEF MapInv, PendingIsWaiting, Unsettled
  <2> QED
    BY <2>1, <2>2
<1>5. ASSUME NEW c \in Calls
      PROVE  c \in pending' <=> phase'[c] \in {"sending", "waiting"} /\ s[c] = "none"
  <2>1. c \in pending <=> phase[c] \in {"sending", "waiting"} /\ settled[c] = "none"
    BY DEF MapInv, PendingIsWaiting
  <2>2. CASE c \in past
    BY <1>1, <1>2, <2>1, <2>2
  <2>3. CASE c \notin past
    BY <1>1, <2>1, <2>3
  <2> QED
    BY <2>2, <2>3
<1>6. pending' \subseteq Calls
  BY <1>1 DEF TypeOK
<1>7. PendingIsWaiting'
  BY <1>1, <1>5, <1>6 DEF PendingIsWaiting
<1> QED
  BY <1>4, <1>7 DEF MapInv

\* One call leaves the map, or enters it unsettled.
LEMMA OneCallMap ==
    ASSUME TypeOK, MapInv, NEW c \in Calls, UNCHANGED settled, NEW p \in Phases,
           phase' = [phase EXCEPT ![c] = p],
           \/ p \in {"sleeping", "ended"} /\ pending' = pending \ {c}
           \/ p \in {"sending", "waiting"} /\ pending' = pending \union {c},
           p # "ended" => settled[c] = "none"
    PROVE  MapInv'
<1>1. \A d \in Calls : phase'[d] = IF d = c THEN p ELSE phase[d]
  BY DEF TypeOK
<1>2. Unsettled'
  BY <1>1 DEF MapInv, Unsettled
<1>3. ASSUME NEW d \in Calls
      PROVE  d \in pending' <=> phase'[d] \in {"sending", "waiting"} /\ settled[d] = "none"
  <2>1. d \in pending <=> phase[d] \in {"sending", "waiting"} /\ settled[d] = "none"
    BY DEF MapInv, PendingIsWaiting
  <2> QED
    BY <1>1, <2>1
<1>4. pending' \subseteq Calls
  BY DEF TypeOK
<1>5. PendingIsWaiting'
  BY <1>3, <1>4 DEF PendingIsWaiting
<1> QED
  BY <1>2, <1>5 DEF MapInv

LEMMA FailMap ==
    ASSUME TypeOK, MapInv, NEW c \in Calls, NEW o, Fail(c, o), UNCHANGED settled
    PROVE  MapInv'
<1>1. "ended" \in Phases
  BY DEF Phases
<1> QED
  BY <1>1, OneCallMap DEF Fail

LEMMA SameMap ==
    ASSUME MapInv, UNCHANGED <<phase, settled, pending>>
    PROVE  MapInv'
BY DEF MapInv, PendingIsWaiting, Unsettled

LEMMA CallMap ==
    ASSUME TypeOK, MapInv, NEW c \in Calls,
           \/ Request(c) \/ Resend(c) \/ SendDeadline(c)
           \/ GiveUp(c) \/ RetryLater(c) \/ Abort(c)
    PROVE  MapInv'
<1>1. settled' = settled
  BY DEF Request, Resend, SendDeadline, GiveUp, RetryLater, Abort
<1>2. CASE Fail(c, "timeout") \/ Fail(c, "cancelled")
  BY <1>1, <1>2, FailMap
<1>3. CASE /\ phase[c] \in {"idle", "sleeping"}
           /\ phase' = [phase EXCEPT ![c] = IF link = "serial" THEN "sending" ELSE "waiting"]
           /\ pending' = pending \union {c}
  <2>1. settled[c] = "none"
    BY <1>3 DEF MapInv, Unsettled
  <2>2. PICK p \in {"sending", "waiting"} : phase' = [phase EXCEPT ![c] = p]
    BY <1>3
  <2>3. p \in Phases
    BY DEF Phases
  <2> QED
    BY <1>1, <1>3, <2>1, <2>2, <2>3, OneCallMap
<1>4. CASE RetryLater(c)
  <2>1. settled[c] = "none" /\ "sleeping" \in Phases
    BY <1>4 DEF RetryLater, MapInv, Unsettled, Phases
  <2> QED
    BY <1>1, <1>4, <2>1, OneCallMap DEF RetryLater
<1>5. CASE UNCHANGED <<phase, settled, pending>>
  BY <1>5, SameMap
<1> QED
  BY <1>1, <1>2, <1>3, <1>4, <1>5 DEF Request, Resend, SendDeadline, GiveUp, Abort

LEMMA TransportMap ==
    ASSUME TypeOK, MapInv, HandleResponse \/ WriteTimeout \/ HandleEvent \/ Dispose
    PROVE  MapInv'
<1>1. Released \in SUBSET {c \in Calls : phase[c] = "sending"}
  BY DEF Released
<1>2. {} \in SUBSET {c \in Calls : phase[c] = "sending"}
  OBVIOUS
<1>3. settled \in [Calls -> Settlements]
  BY DEF TypeOK
<1>4. CASE HandleResponse
  <2> DEFINE f == Head(toHost)
             mine == ~disposed /\ f.call \in pending
             s == IF mine THEN [settled EXCEPT ![f.call] = f.status] ELSE settled
  <2>1. toHost # <<>> /\ Proceed(s, Released)
    BY <1>4 DEF HandleResponse
  <2>2. f \in Frames
    BY <2>1 DEF TypeOK
  <2>3. f.status \in Settlements /\ f.status # "none"
    BY <2>2 DEF Frames, Settlements, Statuses
  <2> HIDE DEF f
  <2>4. s \in [Calls -> Settlements]
    BY <1>3, <2>3
  <2>5. \A c \in Calls : s[c] = settled[c] \/ (s[c] # "none" /\ c \in pending)
    BY <1>3, <2>3
  <2> HIDE DEF s
  <2> QED
    BY <1>1, <2>1, <2>4, <2>5, ProceedMap
<1>5. CASE WriteTimeout
  BY <1>1, <1>3, <1>5, ProceedMap DEF WriteTimeout
<1>6. CASE HandleEvent \/ Dispose
  <2>1. ASSUME NEW o \in {"cancelled", "rebooted"}
        PROVE  /\ Reject(o) \in [Calls -> Settlements]
               /\ \A c \in Calls : \/ Reject(o)[c] = settled[c]
                                   \/ Reject(o)[c] # "none" /\ c \in pending
    <3>1. o \in Settlements /\ o # "none"
      BY DEF Settlements
    <3> QED
      BY <1>3, <3>1 DEF Reject
  <2>2. CASE Proceed(settled, {})
    BY <1>2, <1>3, <2>2, ProceedMap
  <2>3. CASE Proceed(Reject("rebooted"), {}) \/ Proceed(Reject("cancelled"), {})
    BY <1>2, <2>1, <2>3, ProceedMap
  <2> QED
    BY <1>6, <2>2, <2>3 DEF HandleEvent, Dispose
<1> QED
  BY <1>4, <1>5, <1>6

LEMMA MapInit ==
    ASSUME Init
    PROVE  MapInv
BY DEF Init, MapInv, PendingIsWaiting, Unsettled

LEMMA MapStep ==
    ASSUME TypeOK, MapInv, [Next]_vars
    PROVE  MapInv'
<1>1. CASE \E c \in Calls : \/ Request(c) \/ Resend(c) \/ SendDeadline(c)
                             \/ GiveUp(c) \/ RetryLater(c) \/ Abort(c)
  BY <1>1, CallMap
<1>2. CASE HandleResponse \/ WriteTimeout \/ HandleEvent \/ Dispose
  BY <1>2, TransportMap
<1>3. CASE UNCHANGED client
  BY <1>3, SameMap DEF client
<1> QED
  BY <1>1, <1>2, <1>3 DEF Next, Lose, Replay, Reboot, Execute, vars

\* The pending map holds exactly the calls that can still be answered,
\* whatever is lost, cancelled, disposed or restarted.
THEOREM PendingWaits ==
    ASSUME Cardinality(Calls) <= Slots
    PROVE  Spec => []PendingIsWaiting
<1>1. Init => MapInv
  BY MapInit
<1>2. TypeOK /\ MapInv /\ [Next]_vars => MapInv'
  BY MapStep
<1>3. MapInv => PendingIsWaiting
  BY DEF MapInv
<1> QED
  BY <1>1, <1>2, <1>3, ClientTypes, PTL DEF Spec

-----------------------------------------------------------------------------
(* Communication is the other end of the protocol.  Its state and promises    *)
(* are those of CommunicationState, and Core is its specification; what is    *)
(* proved is proved for every number of adapters, requests and slots.         *)

CONSTANTS Requests, Provisioners, Window

Core == INSTANCE Communication

\* What CommunicationAssumption says
Limits ==
    /\ Inflight \in Nat \ {0}
    /\ Window \in Nat \ {0}
    /\ \A q \in Requests : q.execution \in {"read", "mutation", "async"}
    /\ None \notin Requests

AdapterType == [at : Core!AdapterPoints, request : Requests \cup {None},
                slot : 0 .. Inflight, result : Core!Results \cup {None}]

EntryType == [request : Requests, result : Core!Results, ttl : 0 .. Window]

MutationType == [request : Requests \cup {None}, result : Core!Results \cup {None}, done : BOOLEAN]

JobType == [state : Core!JobStates, id : Nat, request : Requests \cup {None},
            status : {"OK", "ERROR", "TIMEOUT"}, left : -1 .. Window]

CacheType ==
    /\ DOMAIN replay_cache = Core!Slots
    /\ \A i \in Core!Slots : replay_cache[i] = None \/ replay_cache[i] \in EntryType
    /\ replay_next_victim \in Core!Slots

AdapterTypes ==
    /\ adapters \in [Adapters -> AdapterType]
    /\ \A a \in Adapters : adapters[a].at # "idle" => adapters[a].request # None

MutationTypes ==
    /\ mutation_slots \in [Core!Slots -> MutationType]
    /\ mutation_queue \in Seq(Core!Slots) /\ Len(mutation_queue) <= Inflight
    /\ mutating \in 0 .. Inflight

JobTypes ==
    /\ job_slots \in [Core!Slots -> JobType]
    /\ job_queue \in Seq(Core!Slots) /\ Len(job_queue) <= Inflight
    /\ job_worker \in [at : {"idle", "checked", "running", "judged"}, slot : 0 .. Inflight]
    /\ next_job_id \in Nat
Holding(a) == adapters[a].at \in {"acquired", "waiting"}
Mutates(a) == Holding(a) /\ adapters[a].request.execution = "mutation"
Puts(a) == adapters[a].at = "acquired" /\ adapters[a].request.execution = "async"
On(queue_, i) == \E k \in 1 .. Len(queue_) : queue_[k] = i
Distinct(queue_) == \A k, l \in 1 .. Len(queue_) : queue_[k] = queue_[l] => k = l

\* What an adapter at `at' may have in hand
OwnOf(at, request, result) ==
    /\ at \in {"idle", "admitted", "acquired", "waiting"} => result = None
    /\ at \in {"store", "answered"} => result \in Core!Results /\ result.of = request
    /\ at = "acquired" => request.execution \in {"mutation", "async"}
    /\ at = "waiting" => request.execution = "mutation"

AdaptersInv ==
    \A a \in Adapters : OwnOf(adapters[a].at, adapters[a].request, adapters[a].result)

ReplayInv ==
    /\ DOMAIN replay_cache = Core!Slots
    /\ \A i \in Core!Slots :
          replay_cache[i] # None => replay_cache[i].result.of = replay_cache[i].request

HoldersInv ==
    /\ \A a \in Adapters : Mutates(a) =>
          LET i == adapters[a].slot IN
          /\ i \in Core!Slots
          /\ mutation_slots[i].request = adapters[a].request
          /\ adapters[a].at = "acquired" => ~On(mutation_queue, i) /\ mutating # i /\ ~mutation_slots[i].done
          /\ adapters[a].at = "waiting" => On(mutation_queue, i) \/ mutating = i \/ mutation_slots[i].done
    /\ \A a, b \in Adapters : Mutates(a) /\ Mutates(b) /\ adapters[a].slot = adapters[b].slot => a = b
    /\ \A i \in Core!Slots : mutation_slots[i].request # None =>
          \E a \in Adapters : Mutates(a) /\ adapters[a].slot = i

SlotsInv ==
    /\ \A i \in Core!Slots :
          /\ mutation_slots[i].done => /\ mutation_slots[i].request # None
                                       /\ mutation_slots[i].result \in Core!Results
                                       /\ mutation_slots[i].result.of = mutation_slots[i].request
          /\ On(mutation_queue, i) => mutation_slots[i].request # None /\ ~mutation_slots[i].done /\ mutating # i
          /\ mutating = i => mutation_slots[i].request # None /\ ~mutation_slots[i].done
    /\ Distinct(mutation_queue)

Fresh == {"PENDING", "EXPIRED"}

JobsInv ==
    /\ \A a \in Adapters : Puts(a) =>
          LET i == adapters[a].slot IN
          /\ i \in Core!Slots
          /\ job_slots[i].state \in Fresh
          /\ ~On(job_queue, i) /\ job_worker.slot # i
    /\ \A a, b \in Adapters : Puts(a) /\ Puts(b) /\ adapters[a].slot = adapters[b].slot => a = b
    /\ \A i \in Core!Slots : On(job_queue, i) => job_slots[i].state \in Fresh /\ job_worker.slot # i
    /\ Distinct(job_queue)
    /\ job_worker.at = "idle" <=> job_worker.slot = 0
    /\ job_worker.at = "checked" => job_slots[job_worker.slot].state \in Fresh
    /\ job_worker.at = "running" => job_slots[job_worker.slot].state \in {"RUNNING", "EXPIRED"}
    /\ job_worker.at = "judged" => job_slots[job_worker.slot].state \in {"COMPLETED", "FAILED"}

-----------------------------------------------------------------------------

LEMMA LeastIsMember ==
  ASSUME NEW S \in SUBSET Nat, S # {}
  PROVE  Core!Min(S) \in S
<1>1. PICK m \in S : \A y \in S : ~ (<<y, m>> \in OpToRel(<, Nat))
  BY NatLessThanWellFounded, WFMin
<1>2. \A y \in S : m =< y
  <2>1. SUFFICES ASSUME NEW y \in S PROVE m =< y
    OBVIOUS
  <2>2. <<y, m>> \in Nat \X Nat /\ <<y, m>>[1] = y /\ <<y, m>>[2] = m
    OBVIOUS
  <2>3. ~ (y < m)
    BY <1>1, <2>2 DEF OpToRel
  <2> QED BY <2>2, <2>3
<1> QED BY <1>2, Zenon DEF Core!Min

LEMMA EntryIsOne ==
  ASSUME CacheType, Limits, NEW q, Core!Entries(q) # {}
  PROVE  /\ Core!Entry(q) \in EntryType
         /\ \E i \in Core!Slots : replay_cache[i] # None /\ Core!Entry(q) = replay_cache[i]
<1>1. Core!Entries(q) \in SUBSET Nat
  BY DEF Core!Entries, Core!Slots, Limits
<1>2. PICK i \in Core!Entries(q) : i = Core!Min(Core!Entries(q))
  BY <1>1, LeastIsMember
<1>3. i \in Core!Slots /\ Core!Purged[i] # None
  BY DEF Core!Entries
<1>4. replay_cache[i] # None /\ Core!Purged[i] = replay_cache[i]
  BY <1>3 DEF Core!Purged
<1>5. Core!Entry(q) = replay_cache[i]
  BY <1>2, <1>4 DEF Core!Entry
<1> QED BY <1>3, <1>4, <1>5 DEF CacheType

\* One step of one adapter thread
AdapterStep(a) == Core!Arrive(a) \/ Core!Proceed(a)

LEMMA FreeSlot ==
  ASSUME Limits
  PROVE  /\ Core!FreeMutations # {} => Core!Min(Core!FreeMutations) \in Core!FreeMutations
         /\ Core!FreeJobs # {} => Core!Min(Core!FreeJobs) \in Core!FreeJobs
         /\ Core!FreeMutations \subseteq Core!Slots /\ Core!FreeJobs \subseteq Core!Slots
<1>1. Core!FreeMutations \in SUBSET Nat /\ Core!FreeJobs \in SUBSET Nat
  BY DEF Core!FreeMutations, Core!FreeJobs, Core!Slots, Limits
<1> QED BY <1>1, LeastIsMember DEF Core!FreeMutations, Core!FreeJobs

-----------------------------------------------------------------------------
(* Steps of the adapters, field by field                                      *)

\* Adapter a is at `at' now, and the other adapters are where they were.
Becomes(a, at, request, slot, result) ==
    /\ adapters'[a].at = at /\ adapters'[a].request = request
    /\ adapters'[a].slot = slot /\ adapters'[a].result = result
    /\ \A b \in Adapters : b # a => adapters'[b] = adapters[b]

LEMMA BecomesRecord ==
  ASSUME AdapterTypes, NEW a \in Adapters, NEW r \in AdapterType, r.at # "idle" => r.request # None,
         adapters' = [x \in Adapters |-> IF x = a THEN r ELSE adapters[x]]
  PROVE  AdapterTypes' /\ Becomes(a, r.at, r.request, r.slot, r.result)
<1>1. adapters'[a] = r /\ \A b \in Adapters : b # a => adapters'[b] = adapters[b]
  BY DEF AdapterTypes
<1>2. adapters' \in [Adapters -> AdapterType]
  BY DEF AdapterTypes
<1> QED BY <1>1, <1>2 DEF AdapterTypes, Becomes

LEMMA RecordFields ==
  ASSUME NEW at \in Core!AdapterPoints, NEW request \in Requests \cup {None},
         NEW slot \in 0 .. Inflight, NEW result \in Core!Results \cup {None}
  PROVE  [at |-> at, request |-> request, slot |-> slot, result |-> result] \in AdapterType
BY DEF AdapterType

LEMMA UpdatedAdapters ==
  ASSUME AdapterTypes, NEW a \in Adapters, NEW r
  PROVE  [adapters EXCEPT ![a] = r] = [x \in Adapters |-> IF x = a THEN r ELSE adapters[x]]
BY DEF AdapterTypes

LEMMA ToStoreBecomes ==
  ASSUME AdapterTypes, NEW a \in Adapters, adapters[a].at # "idle", NEW status \in Core!Statuses,
         Core!ToStore(a, status), Limits
  PROVE  /\ AdapterTypes'
         /\ Becomes(a, "store", adapters[a].request, 0, [status |-> status, of |-> adapters[a].request])
<1>1. adapters[a].request \in Requests /\ adapters[a].request # None
  BY DEF AdapterTypes, AdapterType
<1>2. [status |-> status, of |-> adapters[a].request] \in Core!Results
  BY <1>1 DEF Core!Results
<1>3. "store" \in Core!AdapterPoints /\ 0 \in 0 .. Inflight
  BY DEF Core!AdapterPoints, Limits
<1> DEFINE r == [at |-> "store", request |-> adapters[a].request, slot |-> 0,
                 result |-> [status |-> status, of |-> adapters[a].request]]
<1>4. r \in AdapterType
  BY <1>1, <1>2, <1>3, RecordFields
<1>5. /\ r.at = "store" /\ r.request = adapters[a].request /\ r.slot = 0
      /\ r.result = [status |-> status, of |-> adapters[a].request]
  OBVIOUS
<1>6. adapters' = [adapters EXCEPT ![a] = r]
  BY DEF Core!ToStore, Core!Request
<1> HIDE DEF r
<1> QED BY <1>1, <1>4, <1>5, <1>6, BecomesRecord, UpdatedAdapters

LEMMA AnswerBecomes ==
  ASSUME AdapterTypes, NEW a \in Adapters, NEW q \in Requests, NEW result \in Core!Results, Limits,
         Core!Answer(a, q, result)
  PROVE  AdapterTypes' /\ Becomes(a, "answered", q, 0, result)
<1>1. "answered" \in Core!AdapterPoints /\ 0 \in 0 .. Inflight /\ q # None
  BY DEF Core!AdapterPoints, Limits
<1> DEFINE r == [at |-> "answered", request |-> q, slot |-> 0, result |-> result]
<1>2. r \in AdapterType
  BY <1>1, RecordFields
<1>3. r.at = "answered" /\ r.request = q /\ r.slot = 0 /\ r.result = result
  OBVIOUS
<1>4. adapters' = [adapters EXCEPT ![a] = r]
  BY DEF Core!Answer
<1> HIDE DEF r
<1> QED BY <1>1, <1>2, <1>3, <1>4, BecomesRecord, UpdatedAdapters

LEMMA MovesOn ==
  ASSUME AdapterTypes, NEW a \in Adapters, NEW at \in Core!AdapterPoints, NEW slot \in 0 .. Inflight,
         NEW request \in Requests, Limits
  PROVE  /\ adapters' = [adapters EXCEPT ![a].at = at, ![a].request = request]
              => AdapterTypes' /\ Becomes(a, at, request, adapters[a].slot, adapters[a].result)
         /\ adapters' = [adapters EXCEPT ![a].at = at, ![a].slot = slot] /\ adapters[a].at # "idle"
              => AdapterTypes' /\ Becomes(a, at, adapters[a].request, slot, adapters[a].result)
         /\ adapters' = [adapters EXCEPT ![a].at = at] /\ adapters[a].at # "idle"
              => AdapterTypes' /\ Becomes(a, at, adapters[a].request, adapters[a].slot, adapters[a].result)
<1>1. PICK r \in AdapterType : r = adapters[a]
  BY DEF AdapterTypes
<1>2. /\ r.request \in Requests \cup {None} /\ r.slot \in 0 .. Inflight
      /\ r.result \in Core!Results \cup {None}
      /\ adapters[a].at # "idle" => r.request # None
      /\ request # None
  BY <1>1 DEF AdapterTypes, AdapterType, Limits
<1>3. DOMAIN adapters = Adapters
  BY DEF AdapterTypes
<1>4. ASSUME adapters' = [adapters EXCEPT ![a].at = at, ![a].request = request]
      PROVE  AdapterTypes' /\ Becomes(a, at, request, adapters[a].slot, adapters[a].result)
  <2>1. PICK s \in AdapterType : s = [r EXCEPT !.at = at, !.request = request]
    BY <1>2 DEF AdapterType
  <2>2. s.at = at /\ s.request = request /\ s.slot = r.slot /\ s.result = r.result
    BY <2>1 DEF AdapterType
  <2>3. adapters' = [x \in Adapters |-> IF x = a THEN s ELSE adapters[x]]
    BY <1>1, <1>3, <1>4, <2>1
  <2>4. s.at # "idle" => s.request # None
    BY <1>2, <2>2
  <2>5. AdapterTypes' /\ Becomes(a, s.at, s.request, s.slot, s.result)
    BY <2>3, <2>4, BecomesRecord
  <2> QED BY <1>1, <2>2, <2>5
<1>5. ASSUME adapters' = [adapters EXCEPT ![a].at = at, ![a].slot = slot], adapters[a].at # "idle"
      PROVE  AdapterTypes' /\ Becomes(a, at, adapters[a].request, slot, adapters[a].result)
  <2>1. PICK s \in AdapterType : s = [r EXCEPT !.at = at, !.slot = slot]
    BY <1>2 DEF AdapterType
  <2>2. s.at = at /\ s.request = r.request /\ s.slot = slot /\ s.result = r.result
    BY <2>1 DEF AdapterType
  <2>3. adapters' = [x \in Adapters |-> IF x = a THEN s ELSE adapters[x]]
    BY <1>1, <1>3, <1>5, <2>1
  <2>4. s.at # "idle" => s.request # None
    BY <1>2, <1>5, <2>2
  <2>5. AdapterTypes' /\ Becomes(a, s.at, s.request, s.slot, s.result)
    BY <2>3, <2>4, BecomesRecord
  <2> QED BY <1>1, <2>2, <2>5
<1>6. ASSUME adapters' = [adapters EXCEPT ![a].at = at], adapters[a].at # "idle"
      PROVE  AdapterTypes' /\ Becomes(a, at, adapters[a].request, adapters[a].slot, adapters[a].result)
  <2>1. PICK s \in AdapterType : s = [r EXCEPT !.at = at]
    BY <1>2 DEF AdapterType
  <2>2. s.at = at /\ s.request = r.request /\ s.slot = r.slot /\ s.result = r.result
    BY <2>1 DEF AdapterType
  <2>3. adapters' = [x \in Adapters |-> IF x = a THEN s ELSE adapters[x]]
    BY <1>1, <1>3, <1>6, <2>1
  <2>4. s.at # "idle" => s.request # None
    BY <1>2, <1>6, <2>2
  <2>5. AdapterTypes' /\ Becomes(a, s.at, s.request, s.slot, s.result)
    BY <2>3, <2>4, BecomesRecord
  <2> QED BY <1>1, <2>2, <2>5
<1> QED BY <1>4, <1>5, <1>6

\* Mutation slot i has a new content, and the other slots have their old one.
Holds(i, request, result, done) ==
    /\ mutation_slots'[i].request = request /\ mutation_slots'[i].result = result
    /\ mutation_slots'[i].done = done
    /\ \A j \in Core!Slots : j # i => mutation_slots'[j] = mutation_slots[j]

SlotsTyped == mutation_slots \in [Core!Slots -> MutationType]

LEMMA HoldsRecord ==
  ASSUME SlotsTyped, NEW i \in Core!Slots, NEW r \in MutationType,
         mutation_slots' = [x \in Core!Slots |-> IF x = i THEN r ELSE mutation_slots[x]]
  PROVE  SlotsTyped' /\ Holds(i, r.request, r.result, r.done)
<1>1. mutation_slots'[i] = r /\ \A j \in Core!Slots : j # i => mutation_slots'[j] = mutation_slots[j]
  BY DEF SlotsTyped
<1>2. mutation_slots' \in [Core!Slots -> MutationType]
  BY DEF SlotsTyped
<1> QED BY <1>1, <1>2 DEF SlotsTyped, Holds

LEMMA FilledSlot ==
  ASSUME SlotsTyped, NEW i \in Core!Slots, NEW request \in Requests \cup {None},
         NEW result \in Core!Results \cup {None}, NEW done \in BOOLEAN,
         mutation_slots' = [mutation_slots EXCEPT ![i] = [request |-> request, result |-> result, done |-> done]]
  PROVE  SlotsTyped' /\ Holds(i, request, result, done)
<1>1. PICK r \in MutationType : r = [request |-> request, result |-> result, done |-> done]
  BY DEF MutationType
<1>2. r.request = request /\ r.result = result /\ r.done = done
  BY <1>1
<1>3. mutation_slots' = [x \in Core!Slots |-> IF x = i THEN r ELSE mutation_slots[x]]
  BY <1>1 DEF SlotsTyped
<1> QED BY <1>2, <1>3, HoldsRecord

LEMMA ChangedSlot ==
  ASSUME SlotsTyped, NEW i \in Core!Slots
  PROVE  /\ mutation_slots' = [mutation_slots EXCEPT ![i].request = None]
              => SlotsTyped' /\ Holds(i, None, mutation_slots[i].result, mutation_slots[i].done)
         /\ \A result \in Core!Results :
              mutation_slots' = [mutation_slots EXCEPT ![i].result = result, ![i].done = TRUE]
                => SlotsTyped' /\ Holds(i, mutation_slots[i].request, result, TRUE)
<1>1. PICK r \in MutationType : r = mutation_slots[i]
  BY DEF SlotsTyped
<1>2. DOMAIN mutation_slots = Core!Slots
  BY DEF SlotsTyped
<1>3. ASSUME mutation_slots' = [mutation_slots EXCEPT ![i].request = None]
      PROVE  SlotsTyped' /\ Holds(i, None, mutation_slots[i].result, mutation_slots[i].done)
  <2>1. PICK s \in MutationType : s = [r EXCEPT !.request = None]
    BY DEF MutationType
  <2>2. s.request = None /\ s.result = r.result /\ s.done = r.done
    BY <2>1 DEF MutationType
  <2>3. mutation_slots' = [x \in Core!Slots |-> IF x = i THEN s ELSE mutation_slots[x]]
    BY <1>1, <1>2, <1>3, <2>1
  <2> QED BY <1>1, <2>2, <2>3, HoldsRecord
<1>4. ASSUME NEW result \in Core!Results,
             mutation_slots' = [mutation_slots EXCEPT ![i].result = result, ![i].done = TRUE]
      PROVE  SlotsTyped' /\ Holds(i, mutation_slots[i].request, result, TRUE)
  <2>1. PICK s \in MutationType : s = [r EXCEPT !.result = result, !.done = TRUE]
    BY DEF MutationType
  <2>2. s.request = r.request /\ s.result = result /\ s.done = TRUE
    BY <2>1 DEF MutationType
  <2>3. mutation_slots' = [x \in Core!Slots |-> IF x = i THEN s ELSE mutation_slots[x]]
    BY <1>1, <1>2, <1>4, <2>1
  <2> QED BY <1>1, <2>2, <2>3, HoldsRecord
<1> QED BY <1>3, <1>4

\* Job slot i has a new state, and the other slots have their old one.
JobIs(i, state) ==
    /\ job_slots'[i].state = state
    /\ \A j \in Core!Slots : j # i => job_slots'[j].state = job_slots[j].state

JobsTyped == job_slots \in [Core!Slots -> JobType]

LEMMA JobRecord ==
  ASSUME JobsTyped, NEW i \in Core!Slots, NEW r \in JobType,
         job_slots' = [x \in Core!Slots |-> IF x = i THEN r ELSE job_slots[x]]
  PROVE  JobsTyped' /\ JobIs(i, r.state)
<1>1. job_slots'[i] = r /\ \A j \in Core!Slots : j # i => job_slots'[j] = job_slots[j]
  BY DEF JobsTyped
<1>2. job_slots' \in [Core!Slots -> JobType]
  BY DEF JobsTyped
<1> QED BY <1>1, <1>2 DEF JobsTyped, JobIs

LEMMA ChangedJob ==
  ASSUME JobsTyped, NEW i \in Core!Slots, NEW state \in Core!JobStates,
         NEW status \in {"OK", "ERROR", "TIMEOUT"}
  PROVE  /\ job_slots' = [job_slots EXCEPT ![i].state = state] => JobsTyped' /\ JobIs(i, state)
         /\ job_slots' = [job_slots EXCEPT ![i].status = status]
              => JobsTyped' /\ JobIs(i, job_slots[i].state)
         /\ job_slots' = [job_slots EXCEPT ![i].state = state, ![i].status = status]
              => JobsTyped' /\ JobIs(i, state)
<1>1. PICK r \in JobType : r = job_slots[i]
  BY DEF JobsTyped
<1>2. DOMAIN job_slots = Core!Slots
  BY DEF JobsTyped
<1>3. ASSUME job_slots' = [job_slots EXCEPT ![i].state = state] PROVE JobsTyped' /\ JobIs(i, state)
  <2>1. PICK s \in JobType : s = [r EXCEPT !.state = state]
    BY DEF JobType
  <2>2. s.state = state
    BY <2>1 DEF JobType
  <2>3. job_slots' = [x \in Core!Slots |-> IF x = i THEN s ELSE job_slots[x]]
    BY <1>1, <1>2, <1>3, <2>1
  <2> QED BY <2>2, <2>3, JobRecord
<1>4. ASSUME job_slots' = [job_slots EXCEPT ![i].status = status]
      PROVE  JobsTyped' /\ JobIs(i, job_slots[i].state)
  <2>1. PICK s \in JobType : s = [r EXCEPT !.status = status]
    BY DEF JobType
  <2>2. s.state = r.state
    BY <2>1 DEF JobType
  <2>3. job_slots' = [x \in Core!Slots |-> IF x = i THEN s ELSE job_slots[x]]
    BY <1>1, <1>2, <1>4, <2>1
  <2> QED BY <1>1, <2>2, <2>3, JobRecord
<1>5. ASSUME job_slots' = [job_slots EXCEPT ![i].state = state, ![i].status = status]
      PROVE  JobsTyped' /\ JobIs(i, state)
  <2>1. PICK s \in JobType : s = [r EXCEPT !.state = state, !.status = status]
    BY DEF JobType
  <2>2. s.state = state
    BY <2>1 DEF JobType
  <2>3. job_slots' = [x \in Core!Slots |-> IF x = i THEN s ELSE job_slots[x]]
    BY <1>1, <1>2, <1>5, <2>1
  <2> QED BY <2>2, <2>3, JobRecord
<1> QED BY <1>3, <1>4, <1>5

-----------------------------------------------------------------------------
(* The replay cache: an entry is an answer to the request it is kept for      *)

CacheInv == CacheType /\ ReplayInv

LEMMA KeptEntries ==
  ASSUME CacheInv, DOMAIN replay_cache' = Core!Slots, replay_next_victim' = replay_next_victim,
         \A i \in Core!Slots : replay_cache'[i] = None \/ replay_cache'[i] = replay_cache[i]
  PROVE  CacheInv'
BY DEF CacheInv, CacheType, ReplayInv

LEMMA PurgeKeeps ==
  ASSUME CacheInv, replay_cache' = Core!Purged, UNCHANGED replay_next_victim
  PROVE  CacheInv'
<1>1. DOMAIN replay_cache' = Core!Slots
  BY DEF Core!Purged
<1>2. \A i \in Core!Slots : replay_cache'[i] = None \/ replay_cache'[i] = replay_cache[i]
  BY DEF Core!Purged
<1> QED BY <1>1, <1>2, KeptEntries

LEMMA InvalidateKeeps ==
  ASSUME CacheInv, NEW p, Core!Invalidate(p)
  PROVE  CacheInv'
<1>1. DOMAIN replay_cache' = Core!Slots /\ replay_next_victim' = replay_next_victim
  BY DEF Core!Invalidate
<1>2. \A i \in Core!Slots : replay_cache'[i] = None \/ replay_cache'[i] = replay_cache[i]
  BY DEF Core!Invalidate
<1> QED BY <1>1, <1>2, KeptEntries

LEMMA TickKeepsCache ==
  ASSUME CacheInv, Core!Tick, Limits
  PROVE  CacheInv'
<1>1. DOMAIN replay_cache' = Core!Slots /\ replay_next_victim' = replay_next_victim
  BY DEF Core!Tick
<1>2. ASSUME NEW i \in Core!Slots
      PROVE  replay_cache'[i] = None \/ (replay_cache[i] # None /\ replay_cache'[i] \in EntryType
                                           /\ replay_cache'[i].result = replay_cache[i].result
                                           /\ replay_cache'[i].request = replay_cache[i].request)
  <2>1. CASE replay_cache[i] = None
    BY <2>1 DEF Core!Tick
  <2>2. CASE replay_cache[i] # None
    <3>1. PICK e \in EntryType : e = replay_cache[i]
      BY <2>2 DEF CacheInv, CacheType
    <3>2. PICK t \in 0 .. Window : t = (IF e.ttl > 0 THEN e.ttl - 1 ELSE 0)
      BY <3>1 DEF EntryType, Limits
    <3>3. replay_cache'[i] = [e EXCEPT !.ttl = t]
      BY <2>2, <3>1, <3>2 DEF Core!Tick
    <3>4. [e EXCEPT !.ttl = t] \in EntryType /\ [e EXCEPT !.ttl = t].result = e.result
          /\ [e EXCEPT !.ttl = t].request = e.request
      BY <3>1, <3>2 DEF EntryType
    <3> QED BY <2>2, <3>1, <3>3, <3>4
  <2> QED BY <2>1, <2>2
<1> QED BY <1>1, <1>2 DEF CacheInv, CacheType, ReplayInv

LEMMA StoreKeeps ==
  ASSUME CacheInv, Limits, NEW q \in Requests, NEW result \in Core!Results, result.of = q,
         Core!Stored(q, result)
  PROVE  CacheInv'
<1> DEFINE unused == {i \in Core!Slots : Core!Purged[i] = None}
           v == IF unused # {} THEN Core!Min(unused) ELSE replay_next_victim
<1>1. v \in Core!Slots
  <2>1. unused \in SUBSET Nat
    BY DEF Core!Slots, Limits
  <2> QED BY <2>1, LeastIsMember DEF CacheInv, CacheType
<1>2. PICK e \in EntryType : e = [request |-> q, result |-> result, ttl |-> Window]
  <2>1. Window \in 0 .. Window
    BY DEF Limits
  <2>2. [request |-> q, result |-> result, ttl |-> Window] \in EntryType
    BY <2>1 DEF EntryType
  <2> QED BY <2>2
<1>3. e.result.of = e.request
  BY <1>2
<1>4. replay_cache' = [Core!Purged EXCEPT ![v] = e]
  BY <1>2 DEF Core!Stored
<1>5. replay_next_victim' \in Core!Slots
  <2>1. replay_next_victim \in Core!Slots
    BY DEF CacheInv, CacheType
  <2>2. replay_next_victim \in Nat /\ Inflight \in Nat /\ Inflight > 0
    BY <2>1 DEF Core!Slots, Limits
  <2>3. (replay_next_victim % Inflight) + 1 \in 1 .. Inflight
    BY <2>2
  <2>4. replay_next_victim' = replay_next_victim \/ replay_next_victim' = (replay_next_victim % Inflight) + 1
    BY DEF Core!Stored
  <2> QED BY <2>1, <2>3, <2>4 DEF Core!Slots
<1> HIDE DEF v
<1>6. DOMAIN replay_cache' = Core!Slots
  BY <1>4 DEF Core!Purged
<1>7. \A i \in Core!Slots : replay_cache'[i] = None \/ replay_cache'[i] = replay_cache[i]
                             \/ replay_cache'[i] = e
  BY <1>4 DEF Core!Purged
<1> QED BY <1>3, <1>5, <1>6, <1>7 DEF CacheInv, CacheType, ReplayInv

-----------------------------------------------------------------------------
(* What each adapter has in hand, and the mutation slots                      *)

Adapted == AdapterTypes /\ AdaptersInv
MutationInv == MutationTypes /\ HoldersInv /\ SlotsInv

LEMMA AdaptedKeeps ==
  ASSUME Adapted, NEW a \in Adapters, NEW at, NEW request, NEW slot, NEW result,
         AdapterTypes', Becomes(a, at, request, slot, result), OwnOf(at, request, result)
  PROVE  Adapted'
<1>1. ASSUME NEW b \in Adapters
      PROVE  OwnOf(adapters'[b].at, adapters'[b].request, adapters'[b].result)
  <2>1. CASE b = a
    BY <2>1 DEF Becomes
  <2>2. CASE b # a
    <3>1. adapters'[b] = adapters[b]
      BY <2>2 DEF Becomes
    <3> QED BY <3>1 DEF Adapted, AdaptersInv
  <2> QED BY <2>1, <2>2
<1>2. AdaptersInv'
  BY <1>1 DEF AdaptersInv, OwnOf
<1> QED BY <1>2 DEF Adapted

\* Steps that leave the mutations and their holders alone
LEMMA MutationFrame ==
  ASSUME MutationInv, UNCHANGED <<mutation_slots, mutation_queue, mutating>>,
         \A b \in Adapters : Mutates(b)' = Mutates(b) /\ (Mutates(b) => adapters'[b] = adapters[b])
  PROVE  MutationInv'
<1> USE DEF MutationInv
<1>1. MutationTypes'
  BY DEF MutationTypes
<1>2. SlotsInv'
  BY DEF SlotsInv, On, Distinct
<1>3. HoldersInv'
  BY DEF HoldersInv, On
<1> QED BY <1>1, <1>2, <1>3

LEMMA ElsewhereFrame ==
  ASSUME MutationInv, UNCHANGED <<mutation_slots, mutation_queue, mutating>>,
         NEW a \in Adapters, NEW at, NEW request, NEW slot, NEW result,
         Becomes(a, at, request, slot, result), ~Mutates(a),
         at \notin {"acquired", "waiting"} \/ request.execution # "mutation"
  PROVE  MutationInv'
<1>1. ASSUME NEW b \in Adapters
      PROVE  Mutates(b)' = Mutates(b) /\ (Mutates(b) => adapters'[b] = adapters[b])
  <2>1. CASE b = a
    BY <2>1 DEF Becomes, Mutates, Holding
  <2>2. CASE b # a
    <3>1. adapters'[b] = adapters[b]
      BY <2>2 DEF Becomes
    <3> QED BY <3>1 DEF Mutates, Holding
  <2> QED BY <2>1, <2>2
<1> QED BY <1>1, MutationFrame

-----------------------------------------------------------------------------
(* Arrivals and answers                                                       *)

LEMMA ArriveKeeps ==
  ASSUME Limits, Adapted, CacheInv, MutationInv, NEW a \in Adapters, Core!Arrive(a)
  PROVE  Adapted' /\ CacheInv' /\ MutationInv' /\ UNCHANGED Core!jobs
         /\ adapters[a].at = "idle" /\ \E at, request, slot, result :
                at \in {"answered", "admitted"} /\ Becomes(a, at, request, slot, result)
<1>1. PICK q \in Requests : Core!Refuse(a, q) \/ Core!Replay(a, q) \/ Core!Deny(a, q) \/ Core!Admit(a, q)
  BY DEF Core!Arrive
<1>2. CacheInv' /\ UNCHANGED Core!jobs /\ UNCHANGED <<mutation_slots, mutation_queue, mutating>>
      /\ adapters[a].at = "idle"
  <2>1. replay_cache' = Core!Purged /\ UNCHANGED replay_next_victim
    BY <1>1 DEF Core!Refuse, Core!Replay, Core!Deny, Core!Admit
  <2> QED BY <1>1, <2>1, PurgeKeeps DEF Core!Refuse, Core!Replay, Core!Deny, Core!Admit, Core!At, Core!mutations
<1>3. ~Mutates(a) /\ adapters[a].result = None
  BY <1>2 DEF Mutates, Holding, Adapted, AdaptersInv, OwnOf
<1>4. ASSUME NEW result \in Core!Results, result.of = q, Core!Answer(a, q, result)
      PROVE  Adapted' /\ MutationInv' /\ Becomes(a, "answered", q, 0, result)
  <2>1. AdapterTypes' /\ Becomes(a, "answered", q, 0, result)
    BY <1>4, AnswerBecomes DEF Adapted
  <2>2. OwnOf("answered", q, result)
    BY <1>4 DEF OwnOf
  <2> QED BY <1>2, <1>3, <2>1, <2>2, AdaptedKeeps, ElsewhereFrame
<1>5. CASE Core!Refuse(a, q) \/ Core!Deny(a, q)
  <2>1. PICK status \in Core!Statuses : Core!Answer(a, q, [status |-> status, of |-> q])
    BY <1>5 DEF Core!Refuse, Core!Deny, Core!Statuses
  <2>2. [status |-> status, of |-> q] \in Core!Results /\ [status |-> status, of |-> q].of = q
    BY DEF Core!Results
  <2> QED BY <1>2, <1>4, <2>1, <2>2
<1>6. CASE Core!Replay(a, q)
  <2>1. Core!Entries(q) # {} /\ Core!Entry(q).request = q /\ Core!Answer(a, q, Core!Entry(q).result)
    BY <1>6 DEF Core!Replay, Core!Hit
  <2>2. Core!Entry(q).result \in Core!Results
    BY <2>1, EntryIsOne DEF EntryType, CacheInv
  <2>3. Core!Entry(q).result.of = q
    BY <2>1, EntryIsOne DEF CacheInv, ReplayInv
  <2> QED BY <1>2, <1>4, <2>1, <2>2, <2>3
<1>7. CASE Core!Admit(a, q)
  <2>1. "admitted" \in Core!AdapterPoints /\ 0 \in 0 .. Inflight
    BY DEF Core!AdapterPoints, Limits
  <2>2. AdapterTypes' /\ Becomes(a, "admitted", q, adapters[a].slot, adapters[a].result)
    BY <1>7, <2>1, MovesOn DEF Adapted, Core!Admit
  <2>3. OwnOf("admitted", q, adapters[a].result)
    BY <1>3 DEF OwnOf
  <2> QED BY <1>2, <1>3, <2>2, <2>3, AdaptedKeeps, ElsewhereFrame
<1> QED BY <1>1, <1>5, <1>6, <1>7

-----------------------------------------------------------------------------
(* Serialized mutations                                                       *)

\* An answer that is kept for the cache ends the mutation's hold on its slot.
LEMMA StoreBecomes ==
  ASSUME Limits, Adapted, NEW a \in Adapters, adapters[a].at # "idle", NEW status \in Core!Statuses,
         Core!ToStore(a, status)
  PROVE  /\ Adapted'
         /\ \E result : Becomes(a, "store", adapters[a].request, 0, result)
<1>1. /\ AdapterTypes'
      /\ Becomes(a, "store", adapters[a].request, 0, [status |-> status, of |-> adapters[a].request])
  BY ToStoreBecomes DEF Adapted
<1>2. adapters[a].request \in Requests
  BY DEF Adapted, AdapterTypes, AdapterType
<1>3. OwnOf("store", adapters[a].request, [status |-> status, of |-> adapters[a].request])
  BY <1>2 DEF OwnOf, Core!Results
<1> QED BY <1>1, <1>3, AdaptedKeeps

\* A slot that nobody holds is in no place.
LEMMA FreeIsNowhere ==
  ASSUME MutationInv, NEW i \in Core!Slots, mutation_slots[i].request = None
  PROVE  /\ ~On(mutation_queue, i) /\ mutating # i /\ ~mutation_slots[i].done
         /\ \A a \in Adapters : Mutates(a) => adapters[a].slot # i \/ adapters[a].request = None
<1>1. ~On(mutation_queue, i) /\ mutating # i /\ ~mutation_slots[i].done
  BY DEF MutationInv, SlotsInv
<1>2. \A a \in Adapters : Mutates(a) => adapters[a].slot # i \/ adapters[a].request = None
  BY DEF MutationInv, HoldersInv
<1> QED BY <1>1, <1>2

LEMMA AcquireMutationKeeps ==
  ASSUME Limits, Adapted, MutationInv, NEW a \in Adapters, Core!AcquireMutation(a)
  PROVE  /\ Adapted' /\ MutationInv' /\ UNCHANGED Core!jobs /\ UNCHANGED Core!replay
         /\ ~Puts(a) /\ ~Puts(a)' /\ \A b \in Adapters : b # a => adapters'[b] = adapters[b]
<1>1. /\ adapters[a].at = "admitted" /\ adapters[a].request.execution = "mutation"
      /\ UNCHANGED <<mutation_queue, mutating>> /\ UNCHANGED Core!jobs /\ UNCHANGED Core!replay
  BY DEF Core!AcquireMutation, Core!At, Core!Request
<1>2. ~Mutates(a) /\ ~Puts(a) /\ adapters[a].result = None
      /\ adapters[a].request \in Requests /\ adapters[a].request # None
  BY <1>1 DEF Mutates, Holding, Puts, Adapted, AdaptersInv, OwnOf, AdapterTypes, AdapterType
<1>3. CASE Core!FreeMutations = {}
  <2>1. Core!ToStore(a, "NO_SPACE") /\ UNCHANGED mutation_slots /\ "NO_SPACE" \in Core!Statuses
    BY <1>3 DEF Core!AcquireMutation, Core!Statuses
  <2>2. Adapted'
    BY <1>1, <2>1, StoreBecomes
  <2>3. PICK result : Becomes(a, "store", adapters[a].request, 0, result)
    BY <1>1, <2>1, StoreBecomes
  <2>4. MutationInv'
    BY <1>1, <1>2, <2>1, <2>3, ElsewhereFrame
  <2>5. ~Puts(a)' /\ \A b \in Adapters : b # a => adapters'[b] = adapters[b]
    BY <2>3 DEF Becomes, Puts
  <2> QED BY <1>1, <1>2, <2>2, <2>4, <2>5
<1>4. CASE Core!FreeMutations # {}
  <2>1. PICK i \in Core!FreeMutations :
           /\ mutation_slots' = [mutation_slots EXCEPT
                ![i] = [request |-> adapters[a].request, result |-> None, done |-> FALSE]]
           /\ adapters' = [adapters EXCEPT ![a].at = "acquired", ![a].slot = i]
    BY <1>4, FreeSlot DEF Core!AcquireMutation, Core!Request
  <2>2. i \in Core!Slots /\ mutation_slots[i].request = None
    BY DEF Core!FreeMutations
  <2>3. i \in 0 .. Inflight /\ "acquired" \in Core!AdapterPoints
    BY <2>2 DEF Core!Slots, Limits, Core!AdapterPoints
  <2>4. AdapterTypes' /\ Becomes(a, "acquired", adapters[a].request, i, None)
    BY <1>1, <1>2, <2>1, <2>3, MovesOn DEF Adapted
  <2>5. Adapted'
    <3>1. OwnOf("acquired", adapters[a].request, None)
      BY <1>1 DEF OwnOf
    <3> QED BY <2>4, <3>1, AdaptedKeeps
  <2>6. SlotsTyped' /\ Holds(i, adapters[a].request, None, FALSE)
    BY <1>2, <2>1, <2>2, FilledSlot DEF MutationInv, MutationTypes, SlotsTyped
  <2>7. Mutates(a)' /\ adapters'[a].slot = i /\ adapters'[a].at = "acquired"
        /\ adapters'[a].request = adapters[a].request
    BY <1>1, <2>4 DEF Mutates, Holding, Becomes
  <2>8. \A b \in Adapters : b # a => adapters'[b] = adapters[b] /\ (Mutates(b)' <=> Mutates(b))
    BY <2>4 DEF Becomes, Mutates, Holding
  <2>9. \A b \in Adapters : Mutates(b) => adapters[b].slot # i
    BY <2>2, FreeIsNowhere DEF Mutates, Holding, Adapted, AdapterTypes
  <2>10. MutationTypes'
    BY <1>1, <2>6 DEF MutationInv, MutationTypes, SlotsTyped
  <2>11. SlotsInv'
    BY <1>1, <2>2, <2>6, FreeIsNowhere DEF MutationInv, SlotsInv, Holds, On, Distinct
  <2>12. HoldersInv'
    <3>1. ASSUME NEW b \in Adapters, Mutates(b)'
          PROVE  LET j == adapters'[b].slot IN
                 /\ j \in Core!Slots
                 /\ mutation_slots'[j].request = adapters'[b].request
                 /\ adapters'[b].at = "acquired" => ~On(mutation_queue, j) /\ mutating # j /\ ~mutation_slots'[j].done
                 /\ adapters'[b].at = "waiting" => On(mutation_queue, j) \/ mutating = j \/ mutation_slots'[j].done
      <4>1. CASE b = a
        BY <2>2, <2>6, <2>7, <4>1, FreeIsNowhere DEF Holds
      <4>2. CASE b # a
        BY <2>6, <2>8, <2>9, <3>1, <4>2 DEF Holds, MutationInv, HoldersInv
      <4> QED BY <4>1, <4>2
    <3>2. \A b, c \in Adapters : Mutates(b)' /\ Mutates(c)' /\ adapters'[b].slot = adapters'[c].slot => b = c
      BY <2>7, <2>8, <2>9 DEF MutationInv, HoldersInv
    <3>3. ASSUME NEW j \in Core!Slots, mutation_slots'[j].request # None
          PROVE  \E b \in Adapters : Mutates(b)' /\ adapters'[b].slot = j
      <4>1. CASE j = i
        BY <2>7, <4>1
      <4>2. CASE j # i
        <5>1. mutation_slots[j].request # None
          BY <2>6, <3>3, <4>2 DEF Holds
        <5>2. PICK b \in Adapters : Mutates(b) /\ adapters[b].slot = j
          BY <5>1 DEF MutationInv, HoldersInv
        <5> QED BY <1>2, <2>8, <5>2
      <4> QED BY <4>1, <4>2
    <3> QED BY <1>1, <3>1, <3>2, <3>3 DEF HoldersInv, On
  <2>13. ~Puts(a)'
    BY <1>1, <2>7 DEF Puts
  <2> QED BY <1>1, <1>2, <2>5, <2>8, <2>10, <2>11, <2>12, <2>13 DEF MutationInv
<1> QED BY <1>3, <1>4

LEMMA AppendPlaces ==
  ASSUME NEW q \in Seq(Core!Slots), NEW i \in Core!Slots, ~On(q, i), Distinct(q)
  PROVE  /\ Append(q, i) \in Seq(Core!Slots)
         /\ \A j : On(Append(q, i), j) <=> On(q, j) \/ j = i
         /\ Distinct(Append(q, i))
<1>1. /\ Append(q, i) \in Seq(Core!Slots) /\ Len(Append(q, i)) = Len(q) + 1 /\ Len(q) \in Nat
      /\ \A k \in 1 .. Len(q) : Append(q, i)[k] = q[k]
      /\ Append(q, i)[Len(q) + 1] = i
  OBVIOUS
<1>2. \A j : On(Append(q, i), j) <=> On(q, j) \/ j = i
  <2>1. ASSUME NEW j, On(Append(q, i), j) PROVE On(q, j) \/ j = i
    <3>1. PICK k \in 1 .. Len(q) + 1 : Append(q, i)[k] = j
      BY <1>1, <2>1 DEF On
    <3>2. k \in 1 .. Len(q) \/ k = Len(q) + 1
      BY <1>1
    <3> QED BY <1>1, <3>1, <3>2 DEF On
  <2>2. ASSUME NEW j, On(q, j) PROVE On(Append(q, i), j)
    <3>1. PICK k \in 1 .. Len(q) : q[k] = j
      BY <2>2 DEF On
    <3>2. k \in 1 .. Len(q) + 1
      BY <1>1
    <3> QED BY <1>1, <3>1, <3>2 DEF On
  <2>3. On(Append(q, i), i)
    <3>1. Len(q) + 1 \in 1 .. Len(q) + 1
      BY <1>1
    <3> QED BY <1>1, <3>1 DEF On
  <2> QED BY <2>1, <2>2, <2>3
<1>3. ASSUME NEW k \in 1 .. Len(q) + 1, NEW l \in 1 .. Len(q) + 1, Append(q, i)[k] = Append(q, i)[l]
      PROVE  k = l
  <2>1. \A n \in 1 .. Len(q) : q[n] # i
    BY DEF On
  <2>2. (k \in 1 .. Len(q) \/ k = Len(q) + 1) /\ (l \in 1 .. Len(q) \/ l = Len(q) + 1)
    BY <1>1
  <2> QED BY <1>1, <1>3, <2>1, <2>2 DEF Distinct
<1> QED BY <1>1, <1>2, <1>3 DEF Distinct

LEMMA TailPlaces ==
  ASSUME NEW q \in Seq(Core!Slots), q # <<>>, Distinct(q)
  PROVE  /\ Tail(q) \in Seq(Core!Slots) /\ Len(Tail(q)) <= Len(q) /\ Head(q) \in Core!Slots
         /\ On(q, Head(q))
         /\ \A j : On(Tail(q), j) <=> On(q, j) /\ j # Head(q)
         /\ Distinct(Tail(q))
<1>1. /\ Tail(q) \in Seq(Core!Slots) /\ Len(Tail(q)) = Len(q) - 1 /\ Len(q) \in Nat \ {0}
      /\ \A k \in 1 .. Len(q) - 1 : Tail(q)[k] = q[k + 1]
      /\ Head(q) = q[1] /\ Head(q) \in Core!Slots
  OBVIOUS
<1>2. On(q, Head(q))
  BY <1>1 DEF On
<1>3. ASSUME NEW j, On(Tail(q), j) PROVE On(q, j) /\ j # Head(q)
  <2>1. PICK k \in 1 .. Len(q) - 1 : q[k + 1] = j
    BY <1>1, <1>3 DEF On
  <2>2. k + 1 \in 1 .. Len(q) /\ 1 \in 1 .. Len(q) /\ k + 1 # 1
    BY <1>1
  <2> QED BY <1>1, <2>1, <2>2 DEF On, Distinct
<1>4. ASSUME NEW j, On(q, j), j # Head(q) PROVE On(Tail(q), j)
  <2>1. PICK k \in 1 .. Len(q) : q[k] = j
    BY <1>4 DEF On
  <2>2. k - 1 \in 1 .. Len(q) - 1 /\ (k - 1) + 1 = k
    BY <1>1, <1>4, <2>1
  <2>3. Tail(q)[k - 1] = j
    BY <1>1, <2>1, <2>2
  <2> QED BY <1>1, <2>2, <2>3 DEF On
<1>5. ASSUME NEW k \in 1 .. Len(q) - 1, NEW l \in 1 .. Len(q) - 1, Tail(q)[k] = Tail(q)[l]
      PROVE  k = l
  <2>1. k + 1 \in 1 .. Len(q) /\ l + 1 \in 1 .. Len(q)
    BY <1>1
  <2>2. q[k + 1] = q[l + 1]
    BY <1>1, <1>5
  <2>3. k + 1 = l + 1
    BY <2>1, <2>2 DEF Distinct
  <2> QED BY <2>3
<1>6. Distinct(Tail(q))
  BY <1>1, <1>5 DEF Distinct
<1> QED BY <1>1, <1>2, <1>3, <1>4, <1>6

LEMMA PutMutationKeeps ==
  ASSUME Limits, Adapted, MutationInv, NEW a \in Adapters, Core!PutMutation(a)
  PROVE  /\ Adapted' /\ MutationInv' /\ UNCHANGED Core!jobs /\ UNCHANGED Core!replay
         /\ ~Puts(a) /\ ~Puts(a)' /\ \A b \in Adapters : b # a => adapters'[b] = adapters[b]
<1> DEFINE i == adapters[a].slot
<1>1. /\ adapters[a].at = "acquired" /\ adapters[a].request.execution = "mutation"
      /\ UNCHANGED mutating /\ UNCHANGED Core!jobs /\ UNCHANGED Core!replay
  BY DEF Core!PutMutation, Core!At, Core!Request
<1>2. /\ Mutates(a) /\ ~Puts(a) /\ adapters[a].result = None
      /\ adapters[a].request \in Requests /\ adapters[a].request # None
  BY <1>1 DEF Mutates, Holding, Puts, Adapted, AdaptersInv, OwnOf, AdapterTypes, AdapterType
<1>3. /\ i \in Core!Slots /\ mutation_slots[i].request = adapters[a].request
      /\ ~On(mutation_queue, i) /\ mutating # i /\ ~mutation_slots[i].done
  BY <1>1, <1>2 DEF MutationInv, HoldersInv
<1>4. \A b \in Adapters : b # a /\ Mutates(b) => adapters[b].slot # i
  BY <1>2 DEF MutationInv, HoldersInv
<1>5. CASE Len(mutation_queue) < Inflight
  <2>1. /\ mutation_queue' = Append(mutation_queue, i) /\ UNCHANGED mutation_slots
        /\ adapters' = [adapters EXCEPT ![a].at = "waiting"]
    BY <1>5 DEF Core!PutMutation
  <2>2. "waiting" \in Core!AdapterPoints /\ i \in 0 .. Inflight
    BY <1>3 DEF Core!AdapterPoints, Core!Slots, Limits
  <2>3. AdapterTypes' /\ Becomes(a, "waiting", adapters[a].request, i, None)
    BY <1>1, <1>2, <2>1, <2>2, MovesOn DEF Adapted
  <2>4. Adapted'
    <3>1. OwnOf("waiting", adapters[a].request, None)
      BY <1>1 DEF OwnOf
    <3> QED BY <2>3, <3>1, AdaptedKeeps
  <2>5. /\ mutation_queue' \in Seq(Core!Slots) /\ Distinct(mutation_queue')
        /\ \A j : On(mutation_queue', j) <=> On(mutation_queue, j) \/ j = i
    BY <1>3, <2>1, AppendPlaces DEF MutationInv, MutationTypes, SlotsInv
  <2>6. MutationTypes'
    <3>1. Len(mutation_queue') <= Inflight
      BY <1>5, <2>1 DEF MutationInv, MutationTypes, Limits
    <3> QED BY <1>1, <2>1, <2>5, <3>1 DEF MutationInv, MutationTypes
  <2>7. SlotsInv'
    BY <1>1, <1>2, <1>3, <2>1, <2>5 DEF MutationInv, SlotsInv
  <2>8. Mutates(a)' /\ adapters'[a].slot = i /\ adapters'[a].at = "waiting"
        /\ adapters'[a].request = adapters[a].request
    BY <1>1, <2>3 DEF Mutates, Holding, Becomes
  <2>9. \A b \in Adapters : b # a => adapters'[b] = adapters[b] /\ (Mutates(b)' <=> Mutates(b))
    BY <2>3 DEF Becomes, Mutates, Holding
  <2>10. HoldersInv'
    BY <1>1, <1>2, <1>3, <1>4, <2>1, <2>5, <2>8, <2>9 DEF MutationInv, HoldersInv
  <2>11. ~Puts(a)'
    BY <2>8 DEF Puts
  <2> QED BY <1>1, <1>2, <2>4, <2>6, <2>7, <2>9, <2>10, <2>11 DEF MutationInv
<1>6. CASE ~ (Len(mutation_queue) < Inflight)
  <2>1. /\ mutation_slots' = [mutation_slots EXCEPT ![i].request = None] /\ UNCHANGED mutation_queue
        /\ Core!ToStore(a, "NO_SPACE") /\ "NO_SPACE" \in Core!Statuses
    BY <1>6 DEF Core!PutMutation, Core!Statuses
  <2>2. Adapted'
    BY <1>1, <2>1, StoreBecomes
  <2>3. PICK result : Becomes(a, "store", adapters[a].request, 0, result)
    BY <1>1, <2>1, StoreBecomes
  <2>4. SlotsTyped' /\ Holds(i, None, mutation_slots[i].result, mutation_slots[i].done)
    BY <1>3, <2>1, ChangedSlot DEF MutationInv, MutationTypes, SlotsTyped
  <2>5. ~Mutates(a)' /\ ~Puts(a)'
    BY <2>3 DEF Mutates, Holding, Puts, Becomes
  <2>6. \A b \in Adapters : b # a => adapters'[b] = adapters[b] /\ (Mutates(b)' <=> Mutates(b))
    BY <2>3 DEF Becomes, Mutates, Holding
  <2>7. MutationTypes'
    BY <1>1, <2>1, <2>4 DEF MutationInv, MutationTypes, SlotsTyped
  <2>8. SlotsInv'
    BY <1>1, <1>3, <2>1, <2>4 DEF MutationInv, SlotsInv, Holds, On, Distinct
  <2>9. HoldersInv'
    BY <1>1, <1>2, <1>4, <2>1, <2>4, <2>5, <2>6 DEF MutationInv, HoldersInv, Holds, On
  <2> QED BY <1>1, <1>2, <2>2, <2>5, <2>6, <2>7, <2>8, <2>9 DEF MutationInv
<1> QED BY <1>5, <1>6

LEMMA WokenKeeps ==
  ASSUME Limits, Adapted, MutationInv, NEW a \in Adapters, Core!Woken(a)
  PROVE  /\ Adapted' /\ MutationInv' /\ UNCHANGED Core!jobs /\ UNCHANGED Core!replay
         /\ ~Puts(a) /\ ~Puts(a)' /\ \A b \in Adapters : b # a => adapters'[b] = adapters[b]
<1> DEFINE i == adapters[a].slot
           q == adapters[a].request
<1>1. /\ adapters[a].at = "waiting" /\ mutation_slots[i].done
      /\ UNCHANGED <<mutation_queue, mutating>> /\ UNCHANGED Core!jobs /\ UNCHANGED Core!replay
      /\ mutation_slots' = [mutation_slots EXCEPT ![i] = [request |-> None, result |-> None, done |-> FALSE]]
      /\ adapters' = [adapters EXCEPT ![a] = [at |-> "store", request |-> q, slot |-> 0,
                                              result |-> mutation_slots[i].result]]
  BY DEF Core!Woken, Core!At, Core!Request, Core!FreeMutation
<1>2. /\ Mutates(a) /\ ~Puts(a) /\ q \in Requests /\ q # None
  BY <1>1 DEF Mutates, Holding, Puts, Adapted, AdaptersInv, OwnOf, AdapterTypes, AdapterType
<1>3. i \in Core!Slots /\ mutation_slots[i].request = q
  BY <1>1, <1>2 DEF MutationInv, HoldersInv
<1>4. \A b \in Adapters : b # a /\ Mutates(b) => adapters[b].slot # i
  BY <1>2 DEF MutationInv, HoldersInv
<1>5. /\ ~On(mutation_queue, i) /\ mutating # i
      /\ mutation_slots[i].result \in Core!Results /\ mutation_slots[i].result.of = q
  BY <1>1, <1>3 DEF MutationInv, SlotsInv
<1>6. AdapterTypes' /\ Becomes(a, "store", q, 0, mutation_slots[i].result)
  <2>1. "store" \in Core!AdapterPoints /\ 0 \in 0 .. Inflight
    BY DEF Core!AdapterPoints, Limits
  <2>2. PICK r \in AdapterType : r = [at |-> "store", request |-> q, slot |-> 0,
                                      result |-> mutation_slots[i].result]
    BY <1>2, <1>5, <2>1, RecordFields
  <2>3. r.at = "store" /\ r.request = q /\ r.slot = 0 /\ r.result = mutation_slots[i].result
    BY <2>2
  <2>4. adapters' = [x \in Adapters |-> IF x = a THEN r ELSE adapters[x]]
    BY <1>1, <2>2, UpdatedAdapters DEF Adapted
  <2>5. AdapterTypes' /\ Becomes(a, r.at, r.request, r.slot, r.result)
    BY <1>2, <2>3, <2>4, BecomesRecord DEF Adapted
  <2> QED BY <2>3, <2>5
<1>7. Adapted'
  <2>1. OwnOf("store", q, mutation_slots[i].result)
    BY <1>5 DEF OwnOf
  <2> QED BY <1>6, <2>1, AdaptedKeeps
<1>8. SlotsTyped' /\ Holds(i, None, None, FALSE)
  BY <1>1, <1>3, FilledSlot DEF MutationInv, MutationTypes, SlotsTyped
<1>9. ~Mutates(a)' /\ ~Puts(a)'
  BY <1>6 DEF Mutates, Holding, Puts, Becomes
<1>10. \A b \in Adapters : b # a => adapters'[b] = adapters[b] /\ (Mutates(b)' <=> Mutates(b))
  BY <1>6 DEF Becomes, Mutates, Holding
<1>11. MutationTypes'
  BY <1>1, <1>8 DEF MutationInv, MutationTypes, SlotsTyped
<1>12. SlotsInv'
  BY <1>1, <1>3, <1>5, <1>8 DEF MutationInv, SlotsInv, Holds, On, Distinct
<1>13. HoldersInv'
  BY <1>1, <1>2, <1>4, <1>8, <1>9, <1>10 DEF MutationInv, HoldersInv, Holds, On
<1> QED BY <1>1, <1>2, <1>7, <1>9, <1>10, <1>11, <1>12, <1>13 DEF MutationInv

LEMMA StartMutationKeeps ==
  ASSUME Limits, MutationInv, Core!StartMutation
  PROVE  MutationInv'
<1> DEFINE i == Head(mutation_queue)
<1>1. /\ mutating = 0 /\ mutation_queue # <<>> /\ mutating' = i /\ mutation_queue' = Tail(mutation_queue)
      /\ UNCHANGED <<adapters, mutation_slots>>
  BY DEF Core!StartMutation
<1>2. /\ mutation_queue' \in Seq(Core!Slots) /\ Len(mutation_queue') <= Len(mutation_queue)
      /\ i \in Core!Slots /\ On(mutation_queue, i) /\ Distinct(mutation_queue')
      /\ \A j : On(mutation_queue', j) <=> On(mutation_queue, j) /\ j # i
  BY <1>1, TailPlaces DEF MutationInv, MutationTypes, SlotsInv
<1>3. i \in 0 .. Inflight /\ Len(mutation_queue') <= Inflight
  BY <1>2 DEF MutationInv, MutationTypes, Core!Slots, Limits
<1>4. \A j \in Core!Slots : j # 0
  BY DEF Core!Slots, Limits
<1>5. MutationTypes'
  BY <1>1, <1>2, <1>3 DEF MutationInv, MutationTypes
<1> HIDE DEF i
<1>6. SlotsInv'
  BY <1>1, <1>2, <1>4 DEF MutationInv, SlotsInv
<1>7. \A b \in Adapters : Mutates(b)' <=> Mutates(b)
  BY <1>1 DEF Mutates, Holding
<1>8. HoldersInv'
  BY <1>1, <1>2, <1>4, <1>7 DEF MutationInv, HoldersInv
<1> QED BY <1>5, <1>6, <1>8 DEF MutationInv

LEMMA FinishMutationKeeps ==
  ASSUME Limits, MutationInv, NEW status \in {"OK", "ERROR"}, Core!FinishMutation(status)
  PROVE  MutationInv'
<1>1. mutating # 0 /\ mutating' = 0 /\ UNCHANGED <<adapters, mutation_queue>>
  BY DEF Core!FinishMutation
<1>2. PICK i \in Core!Slots : i = mutating
  BY <1>1 DEF MutationInv, MutationTypes, Core!Slots, Limits
<1>3. ~On(mutation_queue, i) /\ mutation_slots[i].request # None /\ ~mutation_slots[i].done
  BY <1>2 DEF MutationInv, SlotsInv
<1>4. PICK r \in Core!Results : r = [status |-> status, of |-> mutation_slots[i].request]
  <2>1. mutation_slots[i].request \in Requests
    BY <1>3 DEF MutationInv, MutationTypes, MutationType
  <2> QED BY <2>1 DEF Core!Results, Core!Statuses
<1>5. r.of = mutation_slots[i].request
  BY <1>4
<1>6. SlotsTyped' /\ Holds(i, mutation_slots[i].request, r, TRUE)
  <2>1. mutation_slots' = [mutation_slots EXCEPT ![i].result = r, ![i].done = TRUE]
    BY <1>2, <1>4 DEF Core!FinishMutation
  <2> QED BY <2>1, ChangedSlot DEF MutationInv, MutationTypes, SlotsTyped
<1>7. MutationTypes'
  BY <1>1, <1>6 DEF MutationInv, MutationTypes, SlotsTyped, Limits
<1>8. \A j \in Core!Slots : j # 0
  BY DEF Core!Slots, Limits
<1>9. SlotsInv'
  <2>1. ASSUME NEW j \in Core!Slots
        PROVE  /\ mutation_slots'[j].done => /\ mutation_slots'[j].request # None
                                             /\ mutation_slots'[j].result \in Core!Results
                                             /\ mutation_slots'[j].result.of = mutation_slots'[j].request
               /\ On(mutation_queue, j) => mutation_slots'[j].request # None /\ ~mutation_slots'[j].done
    <3>1. CASE j = i
      BY <1>3, <1>5, <1>6, <3>1 DEF Holds
    <3>2. CASE j # i
      <4>1. mutation_slots'[j] = mutation_slots[j]
        BY <1>6, <3>2 DEF Holds
      <4> QED BY <4>1 DEF MutationInv, SlotsInv
    <3> QED BY <3>1, <3>2
  <2>2. Distinct(mutation_queue)
    BY DEF MutationInv, SlotsInv
  <2> QED BY <1>1, <1>8, <2>1, <2>2 DEF SlotsInv, On, Distinct
<1>10. \A b \in Adapters : Mutates(b)' <=> Mutates(b)
  BY <1>1 DEF Mutates, Holding
<1>11. HoldersInv'
  <2>1. ASSUME NEW b \in Adapters, Mutates(b), NEW j, j = adapters[b].slot
        PROVE  /\ j \in Core!Slots
               /\ mutation_slots'[j].request = adapters[b].request
               /\ adapters[b].at = "acquired" => ~On(mutation_queue, j) /\ ~mutation_slots'[j].done
               /\ adapters[b].at = "waiting" => On(mutation_queue, j) \/ mutation_slots'[j].done
    <3>1. /\ j \in Core!Slots
          /\ mutation_slots[j].request = adapters[b].request
          /\ adapters[b].at = "acquired" => ~On(mutation_queue, j) /\ mutating # j /\ ~mutation_slots[j].done
          /\ adapters[b].at = "waiting" => On(mutation_queue, j) \/ mutating = j \/ mutation_slots[j].done
      BY <2>1 DEF MutationInv, HoldersInv
    <3>2. CASE j = i
      BY <1>2, <1>6, <3>1, <3>2 DEF Holds
    <3>3. CASE j # i
      <4>1. mutation_slots'[j] = mutation_slots[j]
        BY <1>6, <3>1, <3>3 DEF Holds
      <4> QED BY <1>2, <3>1, <3>3, <4>1
    <3> QED BY <3>2, <3>3
  <2>2. \A j \in Core!Slots : mutation_slots'[j].request # None =>
           \E b \in Adapters : Mutates(b) /\ adapters[b].slot = j
    <3>1. \A j \in Core!Slots : mutation_slots'[j].request = mutation_slots[j].request
      BY <1>6 DEF Holds
    <3> QED BY <3>1 DEF MutationInv, HoldersInv
  <2>3. \A b, c \in Adapters : Mutates(b) /\ Mutates(c) /\ adapters[b].slot = adapters[c].slot => b = c
    BY DEF MutationInv, HoldersInv
  <2> QED BY <1>1, <1>8, <1>10, <2>1, <2>2, <2>3 DEF HoldersInv, On
<1> QED BY <1>7, <1>9, <1>11 DEF MutationInv

-----------------------------------------------------------------------------
(* Asynchronous jobs                                                          *)

JobInv == JobTypes /\ JobsInv

LEMMA JobFrame ==
  ASSUME JobInv, UNCHANGED Core!jobs,
         \A b \in Adapters : Puts(b)' = Puts(b) /\ (Puts(b) => adapters'[b] = adapters[b])
  PROVE  JobInv'
<1>1. UNCHANGED <<job_slots, job_queue, job_worker, next_job_id>>
  BY DEF Core!jobs
<1>2. JobTypes'
  BY <1>1 DEF JobInv, JobTypes
<1>3. JobsInv'
  BY <1>1 DEF JobInv, JobsInv, On, Distinct
<1> QED BY <1>2, <1>3 DEF JobInv

LEMMA JobFrameOfOne ==
  ASSUME JobInv, UNCHANGED Core!jobs, NEW a \in Adapters, ~Puts(a), ~Puts(a)',
         \A b \in Adapters : b # a => adapters'[b] = adapters[b]
  PROVE  JobInv'
<1>1. ASSUME NEW b \in Adapters
      PROVE  Puts(b)' = Puts(b) /\ (Puts(b) => adapters'[b] = adapters[b])
  <2>1. CASE b = a
    BY <2>1 DEF Puts
  <2>2. CASE b # a
    <3>1. adapters'[b] = adapters[b]
      BY <2>2
    <3> QED BY <3>1 DEF Puts
  <2> QED BY <2>1, <2>2
<1> QED BY <1>1, JobFrame

LEMMA StoreReturnKeep ==
  ASSUME Limits, Adapted, CacheInv, MutationInv, JobInv, NEW a \in Adapters, Core!Store(a) \/ Core!Return(a)
  PROVE  Adapted' /\ CacheInv' /\ MutationInv' /\ JobInv'
<1>1. /\ UNCHANGED <<mutation_slots, mutation_queue, mutating>> /\ UNCHANGED Core!jobs
      /\ adapters[a].at \in {"store", "answered"} /\ ~Mutates(a) /\ ~Puts(a)
  BY DEF Core!Store, Core!Return, Core!mutations, Core!At, Mutates, Holding, Puts
<1>2. OwnOf(adapters[a].at, adapters[a].request, adapters[a].result)
  BY DEF Adapted, AdaptersInv
<1>3. PICK at, request, slot, result :
         /\ AdapterTypes' /\ Becomes(a, at, request, slot, result) /\ OwnOf(at, request, result)
         /\ at \in {"answered", "idle"}
  <2>1. CASE Core!Store(a)
    <3>1. adapters' = [adapters EXCEPT ![a].at = "answered"] /\ adapters[a].at = "store"
      BY <2>1 DEF Core!Store, Core!At
    <3>2. "answered" \in Core!AdapterPoints /\ 0 \in 0 .. Inflight /\ adapters[a].request \in Requests
      BY <3>1 DEF Core!AdapterPoints, Limits, Adapted, AdapterTypes, AdapterType
    <3>3. AdapterTypes' /\ Becomes(a, "answered", adapters[a].request, adapters[a].slot, adapters[a].result)
      BY <3>1, <3>2, MovesOn DEF Adapted
    <3>4. OwnOf("answered", adapters[a].request, adapters[a].result)
      BY <1>2, <3>1 DEF OwnOf
    <3> QED BY <3>3, <3>4
  <2>2. CASE Core!Return(a)
    <3>1. "idle" \in Core!AdapterPoints /\ 0 \in 0 .. Inflight
      BY DEF Core!AdapterPoints, Limits
    <3>2. PICK r \in AdapterType : r = [at |-> "idle", request |-> None, slot |-> 0, result |-> None]
      BY <3>1, RecordFields
    <3>3. r.at = "idle" /\ r.request = None /\ r.slot = 0 /\ r.result = None
      BY <3>2
    <3>4. adapters' = [x \in Adapters |-> IF x = a THEN r ELSE adapters[x]]
      BY <2>2, <3>2, UpdatedAdapters DEF Core!Return, Adapted
    <3>5. AdapterTypes' /\ Becomes(a, r.at, r.request, r.slot, r.result)
      BY <3>3, <3>4, BecomesRecord DEF Adapted
    <3>6. OwnOf(r.at, r.request, r.result)
      BY <3>3 DEF OwnOf
    <3> QED BY <3>3, <3>5, <3>6
  <2> QED BY <2>1, <2>2
<1>4. Adapted' /\ MutationInv'
  BY <1>1, <1>3, AdaptedKeeps, ElsewhereFrame
<1>5. ~Puts(a)' /\ \A b \in Adapters : b # a => adapters'[b] = adapters[b]
  BY <1>3 DEF Becomes, Puts
<1>6. CacheInv'
  <2>1. CASE Core!Store(a)
    <3>1. adapters[a].result \in Core!Results /\ adapters[a].result.of = adapters[a].request
          /\ Core!Stored(adapters[a].request, adapters[a].result)
      BY <1>2, <2>1 DEF OwnOf, Core!Store, Core!At, Core!Request
    <3>2. adapters[a].request \in Requests
      BY <1>1 DEF Adapted, AdapterTypes, AdapterType
    <3> QED BY <3>1, <3>2, StoreKeeps
  <2>2. CASE Core!Return(a)
    BY <2>2 DEF Core!Return, Core!replay, CacheInv, CacheType, ReplayInv
  <2> QED BY <2>1, <2>2
<1> QED BY <1>1, <1>4, <1>5, <1>6, JobFrameOfOne

\* A change of the state of one job that its holder and its worker can live with
LEMMA JobStateKeeps ==
  ASSUME JobInv, JobsTyped', NEW i \in Core!Slots, NEW state, JobIs(i, state),
         UNCHANGED <<job_queue, job_worker, next_job_id>>,
         \A b \in Adapters : Puts(b)' = Puts(b) /\ (Puts(b) => adapters'[b].slot = adapters[b].slot),
         state = job_slots[i].state \/ (state = "EXPIRED" /\ job_slots[i].state \in {"PENDING", "RUNNING"})
  PROVE  JobInv'
<1>1. JobTypes'
  BY DEF JobInv, JobTypes, JobsTyped
<1>2. \A j \in Core!Slots : job_slots[j].state \in Fresh => job_slots'[j].state \in Fresh
  BY DEF JobIs, Fresh
<1>3. \A j \in Core!Slots : job_slots[j].state \in {"RUNNING", "EXPIRED"}
                              => job_slots'[j].state \in {"RUNNING", "EXPIRED"}
  BY DEF JobIs
<1>4. \A j \in Core!Slots : job_slots[j].state \in {"COMPLETED", "FAILED"}
                              => job_slots'[j].state \in {"COMPLETED", "FAILED"}
  BY DEF JobIs
<1>5. job_worker.slot = 0 \/ job_worker.slot \in Core!Slots
  BY DEF JobInv, JobTypes, Core!Slots
<1>6. JobsInv'
  BY <1>2, <1>3, <1>4, <1>5 DEF JobInv, JobsInv, On, Distinct
<1> QED BY <1>1, <1>6 DEF JobInv

\* A job that has a verdict keeps it in this step.
Final == \A i \in Core!Slots :
            job_slots[i].state \in {"COMPLETED", "FAILED"} => job_slots'[i].state = job_slots[i].state

LEMMA ReadKeeps ==
  ASSUME Limits, Adapted, MutationInv, JobInv, NEW a \in Adapters, Core!Read(a)
  PROVE  Adapted' /\ MutationInv' /\ JobInv' /\ UNCHANGED Core!replay /\ Final
<1>1. /\ adapters[a].at = "admitted" /\ UNCHANGED Core!replay
      /\ UNCHANGED <<mutation_slots, mutation_queue, mutating>>
      /\ UNCHANGED <<job_queue, job_worker, next_job_id>>
  BY DEF Core!Read, Core!At, Core!mutations
<1>2. ~Mutates(a) /\ ~Puts(a)
  BY <1>1 DEF Mutates, Holding, Puts
<1>3. PICK status \in Core!Statuses : Core!ToStore(a, status)
  BY DEF Core!Read, Core!Statuses
<1>4. Adapted'
  BY <1>1, <1>3, StoreBecomes
<1>5. PICK result : Becomes(a, "store", adapters[a].request, 0, result)
  BY <1>1, <1>3, StoreBecomes
<1>6. MutationInv'
  BY <1>1, <1>2, <1>5, ElsewhereFrame
<1>7. ASSUME NEW b \in Adapters
      PROVE  Puts(b)' = Puts(b) /\ (Puts(b) => adapters'[b] = adapters[b])
  <2>1. CASE b = a
    BY <1>2, <1>5, <2>1 DEF Puts, Becomes
  <2>2. CASE b # a
    <3>1. adapters'[b] = adapters[b]
      BY <1>5, <2>2 DEF Becomes
    <3> QED BY <3>1 DEF Puts
  <2> QED BY <2>1, <2>2
<1>8. CASE job_slots' = job_slots
  BY <1>1, <1>4, <1>6, <1>7, <1>8, JobFrame DEF Core!jobs, Final
<1>9. CASE job_slots' # job_slots
  <2>1. PICK named \in SUBSET Core!Slots : named # {} /\ job_slots' = Core!ExpiredByPoll(Core!Min(named))
    BY <1>9 DEF Core!Read
  <2>2. PICK i \in Core!Slots : job_slots' = Core!ExpiredByPoll(i)
    <3>1. named \in SUBSET Nat
      BY DEF Core!Slots, Limits
    <3> QED BY <2>1, <3>1, LeastIsMember
  <2>3. /\ job_slots[i].state \in {"PENDING", "RUNNING"}
        /\ job_slots' = [job_slots EXCEPT ![i].state = "EXPIRED", ![i].status = "TIMEOUT"]
    BY <1>9, <2>2 DEF Core!ExpiredByPoll
  <2>4. "EXPIRED" \in Core!JobStates /\ "TIMEOUT" \in {"OK", "ERROR", "TIMEOUT"}
    BY DEF Core!JobStates
  <2>5. JobsTyped' /\ JobIs(i, "EXPIRED")
    BY <2>3, <2>4, ChangedJob DEF JobInv, JobTypes, JobsTyped
  <2>6. JobInv'
    BY <1>1, <1>7, <2>3, <2>5, JobStateKeeps
  <2> QED BY <1>1, <1>4, <1>6, <2>3, <2>5, <2>6 DEF Final, JobIs
<1> QED BY <1>8, <1>9

LEMMA AcquireJobKeeps ==
  ASSUME Limits, Adapted, MutationInv, JobInv, NEW a \in Adapters, Core!AcquireJob(a)
  PROVE  Adapted' /\ MutationInv' /\ JobInv' /\ UNCHANGED Core!replay /\ Final
<1>1. /\ adapters[a].at = "admitted" /\ adapters[a].request.execution = "async" /\ UNCHANGED Core!replay
      /\ UNCHANGED <<mutation_slots, mutation_queue, mutating>> /\ UNCHANGED <<job_queue, job_worker>>
  BY DEF Core!AcquireJob, Core!At, Core!mutations, Core!Request
<1>2. /\ ~Mutates(a) /\ ~Puts(a) /\ adapters[a].result = None
      /\ adapters[a].request \in Requests /\ adapters[a].request # None
  BY <1>1 DEF Mutates, Holding, Puts, Adapted, AdaptersInv, OwnOf, AdapterTypes, AdapterType
<1>3. CASE Core!FreeJobs = {}
  <2>1. Core!ToStore(a, "NO_SPACE") /\ UNCHANGED <<job_slots, next_job_id>> /\ "NO_SPACE" \in Core!Statuses
    BY <1>3 DEF Core!AcquireJob, Core!Statuses
  <2>2. Adapted'
    BY <1>1, <2>1, StoreBecomes
  <2>3. PICK result : Becomes(a, "store", adapters[a].request, 0, result)
    BY <1>1, <2>1, StoreBecomes
  <2>4. MutationInv'
    BY <1>1, <1>2, <2>3, ElsewhereFrame
  <2>5. ~Puts(a)' /\ \A b \in Adapters : b # a => adapters'[b] = adapters[b]
    BY <2>3 DEF Becomes, Puts
  <2>6. UNCHANGED Core!jobs
    BY <1>1, <2>1 DEF Core!jobs
  <2> QED BY <1>1, <1>2, <2>1, <2>2, <2>4, <2>5, <2>6, JobFrameOfOne DEF Final
<1>4. CASE Core!FreeJobs # {}
  <2>1. PICK i \in Core!FreeJobs :
           /\ job_slots' = [job_slots EXCEPT
                ![i] = [state |-> "PENDING", id |-> next_job_id + 1, request |-> adapters[a].request,
                        status |-> "OK", left |-> Window]]
           /\ next_job_id' = next_job_id + 1
           /\ adapters' = [adapters EXCEPT ![a].at = "acquired", ![a].slot = i]
    BY <1>4, FreeSlot DEF Core!AcquireJob, Core!Request
  <2>2. i \in Core!Slots /\ job_slots[i].state = "FREE"
    BY DEF Core!FreeJobs
  <2>3. i \in 0 .. Inflight /\ "acquired" \in Core!AdapterPoints
    BY <2>2 DEF Core!Slots, Limits, Core!AdapterPoints
  <2>4. AdapterTypes' /\ Becomes(a, "acquired", adapters[a].request, i, None)
    BY <1>1, <1>2, <2>1, <2>3, MovesOn DEF Adapted
  <2>5. Adapted'
    <3>1. OwnOf("acquired", adapters[a].request, None)
      BY <1>1 DEF OwnOf
    <3> QED BY <2>4, <3>1, AdaptedKeeps
  <2>6. MutationInv'
    BY <1>1, <1>2, <2>4, ElsewhereFrame
  <2>7. JobsTyped' /\ JobIs(i, "PENDING")
    <3>1. next_job_id + 1 \in Nat /\ Window \in -1 .. Window
      BY DEF JobInv, JobTypes, Limits
    <3>2. [state |-> "PENDING", id |-> next_job_id + 1, request |-> adapters[a].request,
           status |-> "OK", left |-> Window] \in JobType
      BY <1>2, <3>1 DEF JobType, Core!JobStates
    <3>3. PICK r \in JobType : r = [state |-> "PENDING", id |-> next_job_id + 1,
                                    request |-> adapters[a].request, status |-> "OK", left |-> Window]
      BY <3>2
    <3>4. r.state = "PENDING"
      BY <3>3
    <3>5. job_slots' = [x \in Core!Slots |-> IF x = i THEN r ELSE job_slots[x]]
      BY <2>1, <3>3 DEF JobInv, JobTypes
    <3> QED BY <2>2, <3>4, <3>5, JobRecord DEF JobInv, JobTypes, JobsTyped
  <2>8. JobTypes'
    <3>1. next_job_id' \in Nat
      BY <2>1 DEF JobInv, JobTypes
    <3> QED BY <1>1, <2>7, <3>1 DEF JobInv, JobTypes, JobsTyped
  <2>9. Puts(a)' /\ adapters'[a].slot = i
    BY <1>1, <2>4 DEF Puts, Becomes
  <2>10. \A b \in Adapters : b # a => adapters'[b] = adapters[b] /\ (Puts(b)' <=> Puts(b))
    BY <2>4 DEF Becomes, Puts
  <2>11. /\ ~On(job_queue, i) /\ job_worker.slot # i
         /\ \A b \in Adapters : Puts(b) => adapters[b].slot # i
    <3>1. i # 0 /\ "FREE" \notin Fresh
      BY <2>2 DEF Core!Slots, Fresh, Limits
    <3>2. job_worker.slot = i => job_worker.at \in {"checked", "running", "judged"}
      BY <3>1 DEF JobInv, JobTypes, JobsInv
    <3>3. job_worker.slot # i
      BY <2>2, <3>1, <3>2 DEF JobInv, JobsInv
    <3> QED BY <2>2, <3>1, <3>3 DEF JobInv, JobsInv
  <2>12. job_worker.at # "idle" => job_worker.slot \in Core!Slots
    BY DEF JobInv, JobTypes, JobsInv, Core!Slots
  <2>13. JobsInv'
    <3>1. ASSUME NEW b \in Adapters, Puts(b)'
          PROVE  /\ adapters'[b].slot \in Core!Slots
                 /\ job_slots'[adapters'[b].slot].state \in Fresh
                 /\ ~On(job_queue, adapters'[b].slot) /\ job_worker.slot # adapters'[b].slot
      <4>1. CASE b = a
        BY <2>2, <2>7, <2>9, <2>11, <4>1 DEF JobIs, Fresh
      <4>2. CASE b # a
        BY <2>7, <2>10, <2>11, <3>1, <4>2 DEF JobIs, JobInv, JobsInv
      <4> QED BY <4>1, <4>2
    <3>2. \A b, c \in Adapters : Puts(b)' /\ Puts(c)' /\ adapters'[b].slot = adapters'[c].slot => b = c
      BY <2>9, <2>10, <2>11 DEF JobInv, JobsInv
    <3>3. \A j \in Core!Slots : On(job_queue, j) => job_slots'[j].state \in Fresh /\ job_worker.slot # j
      BY <2>7, <2>11 DEF JobIs, JobInv, JobsInv
    <3>4. /\ Distinct(job_queue) /\ (job_worker.at = "idle" <=> job_worker.slot = 0)
          /\ job_worker.at = "checked" => job_slots'[job_worker.slot].state \in Fresh
          /\ job_worker.at = "running" => job_slots'[job_worker.slot].state \in {"RUNNING", "EXPIRED"}
          /\ job_worker.at = "judged" => job_slots'[job_worker.slot].state \in {"COMPLETED", "FAILED"}
      BY <2>7, <2>11, <2>12 DEF JobIs, JobInv, JobsInv
    <3> QED BY <1>1, <3>1, <3>2, <3>3, <3>4 DEF JobsInv, On, Distinct
  <2>14. Final
    BY <2>2, <2>7 DEF Final, JobIs
  <2> QED BY <1>1, <2>5, <2>6, <2>8, <2>13, <2>14 DEF JobInv
<1> QED BY <1>3, <1>4

LEMMA PutJobKeeps ==
  ASSUME Limits, Adapted, MutationInv, JobInv, NEW a \in Adapters, Core!PutJob(a)
  PROVE  Adapted' /\ MutationInv' /\ JobInv' /\ UNCHANGED Core!replay /\ Final
<1>1. /\ adapters[a].at = "acquired" /\ adapters[a].request.execution = "async" /\ UNCHANGED Core!replay
      /\ UNCHANGED <<mutation_slots, mutation_queue, mutating>> /\ UNCHANGED <<job_worker, next_job_id>>
  BY DEF Core!PutJob, Core!At, Core!mutations, Core!Request
<1>2. ~Mutates(a) /\ Puts(a)
  BY <1>1 DEF Mutates, Holding, Puts
<1>3. PICK i \in Core!Slots :
         /\ i = adapters[a].slot /\ job_slots[i].state \in Fresh /\ ~On(job_queue, i) /\ job_worker.slot # i
         /\ \A b \in Adapters : b # a /\ Puts(b) => adapters[b].slot # i
  BY <1>2 DEF JobInv, JobsInv
<1>4. PICK status \in Core!Statuses : Core!ToStore(a, status)
  BY DEF Core!PutJob, Core!Statuses
<1>5. Adapted'
  BY <1>1, <1>4, StoreBecomes
<1>6. PICK result : Becomes(a, "store", adapters[a].request, 0, result)
  BY <1>1, <1>4, StoreBecomes
<1>7. MutationInv'
  BY <1>1, <1>2, <1>6, ElsewhereFrame
<1>8. ~Puts(a)' /\ \A b \in Adapters : b # a => adapters'[b] = adapters[b] /\ (Puts(b)' <=> Puts(b))
  BY <1>6 DEF Becomes, Puts
<1>9. CASE Len(job_queue) < Inflight
  <2>1. job_queue' = Append(job_queue, i) /\ UNCHANGED job_slots
    BY <1>3, <1>9 DEF Core!PutJob
  <2>2. /\ job_queue' \in Seq(Core!Slots) /\ Distinct(job_queue')
        /\ \A j : On(job_queue', j) <=> On(job_queue, j) \/ j = i
    BY <1>3, <2>1, AppendPlaces DEF JobInv, JobTypes, JobsInv
  <2>3. Len(job_queue') <= Inflight
    BY <1>9, <2>1 DEF JobInv, JobTypes, Limits
  <2>4. JobTypes'
    BY <1>1, <2>1, <2>2, <2>3 DEF JobInv, JobTypes
  <2>5. JobsInv'
    BY <1>1, <1>3, <1>8, <2>1, <2>2 DEF JobInv, JobsInv
  <2> QED BY <1>1, <1>5, <1>7, <2>1, <2>4, <2>5 DEF JobInv, Final
<1>10. CASE ~ (Len(job_queue) < Inflight)
  <2>1. job_slots' = [job_slots EXCEPT ![i].state = "FREE"] /\ UNCHANGED job_queue
    BY <1>3, <1>10 DEF Core!PutJob
  <2>2. JobsTyped' /\ JobIs(i, "FREE")
    <3>1. "FREE" \in Core!JobStates /\ "OK" \in {"OK", "ERROR", "TIMEOUT"}
      BY DEF Core!JobStates
    <3> QED BY <2>1, <3>1, ChangedJob DEF JobInv, JobTypes, JobsTyped
  <2>3. JobTypes'
    BY <1>1, <2>1, <2>2 DEF JobInv, JobTypes, JobsTyped
  <2>4. UNCHANGED <<job_queue, job_worker>>
    BY <1>1, <2>1
  <2>5. job_worker.at # "idle" => job_worker.slot \in Core!Slots
    BY DEF JobInv, JobTypes, JobsInv, Core!Slots
  <2>6. JobsInv'
    BY <1>3, <1>8, <2>2, <2>4, <2>5 DEF JobInv, JobsInv, JobIs, On, Distinct
  <2> QED BY <1>1, <1>3, <1>5, <1>7, <2>2, <2>3, <2>6 DEF JobInv, Final, JobIs, Fresh
<1> QED BY <1>9, <1>10

LEMMA NoPuts ==
  ASSUME UNCHANGED adapters
  PROVE  \A b \in Adapters : Puts(b)' = Puts(b) /\ adapters'[b] = adapters[b]
BY DEF Puts

\* Steps of the job worker
LEMMA QueueStepsKeep ==
  ASSUME Limits, JobInv, Core!ExpireJob \/ Core!CheckJob
  PROVE  JobInv' /\ Final
<1>1. /\ job_worker.at = "idle" /\ job_queue # <<>> /\ job_queue' = Tail(job_queue)
      /\ UNCHANGED adapters /\ UNCHANGED next_job_id
  BY DEF Core!ExpireJob, Core!CheckJob
<1>2. PICK i \in Core!Slots : i = Head(job_queue) /\ On(job_queue, i)
  BY <1>1, TailPlaces DEF JobInv, JobTypes, JobsInv
<1>3. /\ job_queue' \in Seq(Core!Slots) /\ Len(job_queue') <= Len(job_queue) /\ Distinct(job_queue')
      /\ \A j : On(job_queue', j) <=> On(job_queue, j) /\ j # i
  BY <1>1, <1>2, TailPlaces DEF JobInv, JobTypes, JobsInv
<1>4. Len(job_queue') <= Inflight
  BY <1>3 DEF JobInv, JobTypes, Limits
<1>5. job_slots[i].state \in Fresh
      /\ \A b \in Adapters : Puts(b) => adapters[b].slot # i
  BY <1>2 DEF JobInv, JobsInv
<1>6. i # 0 /\ i \in 0 .. Inflight
  BY <1>2 DEF Core!Slots, Limits
<1>7. CASE Core!ExpireJob
  <2>1. job_slots' = [job_slots EXCEPT ![i].state = "EXPIRED", ![i].status = "TIMEOUT"]
    BY <1>2, <1>7 DEF Core!ExpireJob
  <2>2. JobsTyped' /\ JobIs(i, "EXPIRED")
    <3>1. "EXPIRED" \in Core!JobStates /\ "TIMEOUT" \in {"OK", "ERROR", "TIMEOUT"}
      BY DEF Core!JobStates
    <3> QED BY <2>1, <3>1, ChangedJob DEF JobInv, JobTypes, JobsTyped
  <2>3. job_worker' = job_worker
    BY <1>7 DEF Core!ExpireJob
  <2>4. JobTypes'
    BY <1>1, <1>3, <1>4, <2>2, <2>3 DEF JobInv, JobTypes, JobsTyped
  <2>5. JobsInv'
    <3>1. \A j \in Core!Slots : job_slots[j].state \in Fresh => job_slots'[j].state \in Fresh
      BY <2>2 DEF JobIs, Fresh
    <3> QED BY <1>1, <1>3, <2>3, <3>1, NoPuts DEF JobInv, JobsInv
  <2>6. Final
    BY <1>5, <2>2 DEF Final, JobIs, Fresh
  <2> QED BY <2>4, <2>5, <2>6 DEF JobInv
<1>8. CASE Core!CheckJob
  <2>1. /\ job_worker' = [at |-> "checked", slot |-> i] /\ UNCHANGED job_slots
    BY <1>2, <1>8 DEF Core!CheckJob
  <2>2. job_worker'.at = "checked" /\ job_worker'.slot = i
    BY <2>1
  <2>3. JobTypes'
    BY <1>1, <1>3, <1>4, <1>6, <2>1 DEF JobInv, JobTypes
  <2>4. JobsInv'
    BY <1>1, <1>3, <1>5, <1>6, <2>1, <2>2, NoPuts DEF JobInv, JobsInv
  <2> QED BY <2>1, <2>3, <2>4 DEF JobInv, Final
<1> QED BY <1>7, <1>8

LEMMA RunStepsKeep ==
  ASSUME Limits, JobInv,
         Core!RunJob \/ Core!FinishJob \/ \E verdict \in {"COMPLETED", "FAILED"} : Core!JudgeJob(verdict)
  PROVE  JobInv' /\ Final
<1>1. job_worker.at \in {"checked", "running", "judged"} /\ UNCHANGED <<adapters, job_queue, next_job_id>>
  BY DEF Core!RunJob, Core!FinishJob, Core!JudgeJob
<1>2. PICK i \in Core!Slots : i = job_worker.slot
  BY <1>1 DEF JobInv, JobTypes, JobsInv, Core!Slots
<1>3. ~On(job_queue, i) /\ \A b \in Adapters : Puts(b) => adapters[b].slot # i
  BY <1>2 DEF JobInv, JobsInv
<1>4. i # 0 /\ i \in 0 .. Inflight
  BY DEF Core!Slots, Limits
<1>5. ASSUME NEW state, NEW at \in {"idle", "running", "judged"}, NEW slot \in {0, i},
             JobsTyped', JobIs(i, state), job_worker' = [at |-> at, slot |-> slot],
             at = "idle" <=> slot = 0,
             at = "running" => state \in {"RUNNING", "EXPIRED"},
             at = "judged" => state \in {"COMPLETED", "FAILED"},
             state = job_slots[i].state \/ job_worker.at # "judged"
      PROVE  JobInv' /\ Final
  <2>1. job_worker'.at = at /\ job_worker'.slot = slot
    BY <1>5
  <2>2. JobTypes'
    <3>1. slot \in 0 .. Inflight
      BY <1>4 DEF Limits
    <3>2. job_worker' \in [at : {"idle", "checked", "running", "judged"}, slot : 0 .. Inflight]
      BY <1>5, <3>1
    <3> QED BY <1>1, <1>5, <3>2 DEF JobInv, JobTypes, JobsTyped
  <2>3. JobsInv'
    <3>1. \A j \in Core!Slots : j # i => job_slots'[j].state = job_slots[j].state
      BY <1>5 DEF JobIs
    <3>2. ASSUME NEW j \in Core!Slots, On(job_queue, j)
          PROVE  job_slots'[j].state \in Fresh /\ job_worker'.slot # j
      BY <1>3, <1>4, <2>1, <3>1, <3>2 DEF JobInv, JobsInv, Core!Slots
    <3>3. ASSUME NEW b \in Adapters, Puts(b)
          PROVE  /\ adapters[b].slot \in Core!Slots
                 /\ job_slots'[adapters[b].slot].state \in Fresh
                 /\ ~On(job_queue, adapters[b].slot) /\ job_worker'.slot # adapters[b].slot
      BY <1>3, <1>4, <2>1, <3>1, <3>3 DEF JobInv, JobsInv, Core!Slots
    <3>4. /\ Distinct(job_queue)
          /\ \A b, c \in Adapters : Puts(b) /\ Puts(c) /\ adapters[b].slot = adapters[c].slot => b = c
      BY DEF JobInv, JobsInv
    <3>5. job_slots'[i].state = state
      BY <1>5 DEF JobIs
    <3>6. /\ job_worker'.at = "idle" <=> job_worker'.slot = 0
          /\ job_worker'.at # "checked"
          /\ job_worker'.at = "running" => job_slots'[job_worker'.slot].state \in {"RUNNING", "EXPIRED"}
          /\ job_worker'.at = "judged" => job_slots'[job_worker'.slot].state \in {"COMPLETED", "FAILED"}
      BY <1>5, <2>1, <3>5
    <3> QED BY <1>1, <3>2, <3>3, <3>4, <3>6, NoPuts DEF JobsInv, On, Distinct
  <2>4. Final
    <3>1. job_worker.at # "judged" => job_slots[i].state \notin {"COMPLETED", "FAILED"}
      BY <1>1, <1>2 DEF JobInv, JobsInv, Fresh
    <3> QED BY <1>5, <3>1 DEF Final, JobIs
  <2> QED BY <2>2, <2>3, <2>4 DEF JobInv
<1>6. PICK w \in [at : {"idle", "checked", "running", "judged"}, slot : 0 .. Inflight] : w = job_worker
  BY DEF JobInv, JobTypes
<1>7. CASE Core!RunJob
  <2>1. /\ job_slots' = [job_slots EXCEPT ![i].state = "RUNNING"] /\ job_worker.at = "checked"
        /\ job_worker' = [w EXCEPT !.at = "running"]
    BY <1>2, <1>6, <1>7 DEF Core!RunJob
  <2>2. JobsTyped' /\ JobIs(i, "RUNNING")
    <3>1. "RUNNING" \in Core!JobStates /\ "OK" \in {"OK", "ERROR", "TIMEOUT"}
      BY DEF Core!JobStates
    <3> QED BY <2>1, <3>1, ChangedJob DEF JobInv, JobTypes, JobsTyped
  <2>3. job_worker' = [at |-> "running", slot |-> i]
    BY <1>2, <1>6, <2>1
  <2> QED BY <1>4, <1>5, <2>1, <2>2, <2>3
<1>8. CASE \E verdict \in {"COMPLETED", "FAILED"} : Core!JudgeJob(verdict)
  <2>1. PICK verdict \in {"COMPLETED", "FAILED"} :
           /\ job_slots' = [job_slots EXCEPT ![i].state = verdict] /\ job_worker.at = "running"
           /\ job_worker' = [w EXCEPT !.at = "judged"]
    BY <1>2, <1>6, <1>8 DEF Core!JudgeJob
  <2>2. JobsTyped' /\ JobIs(i, verdict)
    <3>1. verdict \in Core!JobStates /\ "OK" \in {"OK", "ERROR", "TIMEOUT"}
      BY DEF Core!JobStates
    <3> QED BY <2>1, <3>1, ChangedJob DEF JobInv, JobTypes, JobsTyped
  <2>3. job_worker' = [at |-> "judged", slot |-> i]
    BY <1>2, <1>6, <2>1
  <2> QED BY <1>4, <1>5, <2>1, <2>2, <2>3
<1>9. CASE Core!FinishJob
  <2>1. PICK status \in {"OK", "ERROR", "TIMEOUT"} : job_slots' = [job_slots EXCEPT ![i].status = status]
    BY <1>2, <1>9 DEF Core!FinishJob
  <2>2. JobsTyped' /\ JobIs(i, job_slots[i].state)
    <3>1. PICK state \in Core!JobStates : state = job_slots[i].state
      BY DEF JobInv, JobTypes, JobType
    <3> QED BY <2>1, <3>1, ChangedJob DEF JobInv, JobTypes, JobsTyped
  <2>3. job_worker' = [at |-> "idle", slot |-> 0]
    BY <1>9 DEF Core!FinishJob
  <2> QED BY <1>5, <2>2, <2>3
<1> QED BY <1>7, <1>8, <1>9

LEMMA TickKeepsJobs ==
  ASSUME Limits, JobInv, Core!Tick
  PROVE  JobInv' /\ Final
<1>1. UNCHANGED <<adapters, job_queue, job_worker, next_job_id>>
  BY DEF Core!Tick
<1>2. ASSUME NEW i \in Core!Slots
      PROVE  job_slots'[i] \in JobType /\ job_slots'[i].state = job_slots[i].state
  <2>1. PICK r \in JobType : r = job_slots[i]
    BY DEF JobInv, JobTypes
  <2>2. PICK left \in -1 .. Window :
           left = IF r.state = "FREE" THEN 0 ELSE IF r.left >= 0 THEN r.left - 1 ELSE -1
    BY <2>1 DEF JobType, Limits
  <2>3. job_slots'[i] = [r EXCEPT !.left = left]
    BY <2>1, <2>2 DEF Core!Tick
  <2>4. [r EXCEPT !.left = left] \in JobType /\ [r EXCEPT !.left = left].state = r.state
    BY <2>1, <2>2 DEF JobType
  <2> QED BY <2>1, <2>3, <2>4
<1>3. job_slots' \in [Core!Slots -> JobType]
  <2>1. job_slots' = [i \in Core!Slots |-> job_slots'[i]]
    BY DEF Core!Tick
  <2> QED BY <1>2, <2>1
<1>4. JobTypes'
  BY <1>1, <1>3 DEF JobInv, JobTypes
<1>5. JobsInv'
  <2>1. job_worker.at # "idle" => job_worker.slot \in Core!Slots
    BY DEF JobInv, JobTypes, JobsInv, Core!Slots
  <2> QED BY <1>1, <1>2, <2>1, NoPuts DEF JobInv, JobsInv, On, Distinct
<1> QED BY <1>2, <1>4, <1>5 DEF JobInv, Final

-----------------------------------------------------------------------------
(* The whole dispatcher                                                       *)

CoreInv == Adapted /\ CacheInv /\ MutationInv /\ JobInv

LEMMA CoreStart == Limits /\ Core!Init => CoreInv
<1> SUFFICES ASSUME Limits, Core!Init PROVE CoreInv OBVIOUS
<1>1. 0 \in 0 .. Inflight /\ 0 \in -1 .. Window /\ 1 \in Core!Slots /\ 0 \in Nat
  BY DEF Limits, Core!Slots
<1>2. Adapted
  <2>1. PICK r \in AdapterType : r = [at |-> "idle", request |-> None, slot |-> 0, result |-> None]
    <3>1. "idle" \in Core!AdapterPoints
      BY DEF Core!AdapterPoints
    <3> QED BY <1>1, <3>1, RecordFields
  <2>2. r.at = "idle" /\ r.result = None
    BY <2>1
  <2>3. adapters = [a \in Adapters |-> r]
    BY <2>1 DEF Core!Init
  <2> QED BY <2>2, <2>3 DEF Adapted, AdapterTypes, AdaptersInv, OwnOf
<1>3. CacheInv
  BY <1>1 DEF Core!Init, CacheInv, CacheType, ReplayInv
<1>4. \A a \in Adapters : ~Mutates(a) /\ ~Puts(a)
  BY DEF Core!Init, Mutates, Holding, Puts
<1>5. mutation_queue = <<>> /\ job_queue = <<>> /\ mutating = 0 /\ next_job_id = 0
      /\ job_worker = [at |-> "idle", slot |-> 0] /\ Len(<<>>) = 0 /\ <<>> \in Seq(Core!Slots)
  BY DEF Core!Init
<1>6. (\A i : ~On(<<>>, i)) /\ Distinct(<<>>) /\ \A j \in Core!Slots : j # 0
  BY <1>5 DEF On, Distinct, Core!Slots, Limits
<1>7. MutationInv
  <2>1. PICK r \in MutationType : r = [request |-> None, result |-> None, done |-> FALSE]
    BY DEF MutationType
  <2>2. r.request = None /\ ~r.done
    BY <2>1
  <2>3. mutation_slots = [i \in Core!Slots |-> r]
    BY <2>1 DEF Core!Init, Core!FreeMutation
  <2>4. MutationTypes
    BY <1>1, <1>5, <2>3 DEF MutationTypes, Limits
  <2>5. HoldersInv /\ SlotsInv
    BY <1>4, <1>5, <1>6, <2>2, <2>3 DEF HoldersInv, SlotsInv
  <2> QED BY <2>4, <2>5 DEF MutationInv
<1>8. JobInv
  <2>1. [state |-> "FREE", id |-> 0, request |-> None, status |-> "OK", left |-> 0] \in JobType
    BY <1>1 DEF JobType, Core!JobStates
  <2>2. job_slots \in [Core!Slots -> JobType]
    BY <2>1 DEF Core!Init, Core!FreeJob
  <2>3. JobTypes
    BY <1>1, <1>5, <2>2 DEF JobTypes, Limits
  <2>4. job_worker.at = "idle" /\ job_worker.slot = 0
    BY <1>5
  <2>5. JobsInv
    BY <1>4, <1>5, <1>6, <2>4 DEF JobsInv
  <2> QED BY <2>3, <2>5 DEF JobInv
<1> QED BY <1>2, <1>3, <1>7, <1>8 DEF CoreInv

LEMMA SameAdapters ==
  ASSUME UNCHANGED adapters
  PROVE  Adapted' = Adapted /\ \A b \in Adapters : Mutates(b)' = Mutates(b)
BY DEF Adapted, AdapterTypes, AdaptersInv, Mutates, Holding

LEMMA CoreProceedKeeps ==
  ASSUME Limits, CoreInv, NEW a \in Adapters, Core!Proceed(a)
  PROVE  CoreInv' /\ Final
<1> USE DEF CoreInv
<1>1. ASSUME UNCHANGED Core!replay PROVE CacheInv'
  BY <1>1 DEF Core!replay, CacheInv, CacheType, ReplayInv
<1>2. ASSUME UNCHANGED Core!jobs PROVE Final
  BY <1>2 DEF Core!jobs, Final
<1>3. CASE Core!Read(a)
  BY <1>1, <1>3, ReadKeeps
<1>4. CASE Core!AcquireMutation(a)
  BY <1>1, <1>2, <1>4, AcquireMutationKeeps, JobFrameOfOne
<1>5. CASE Core!PutMutation(a)
  BY <1>1, <1>2, <1>5, PutMutationKeeps, JobFrameOfOne
<1>6. CASE Core!Woken(a)
  BY <1>1, <1>2, <1>6, WokenKeeps, JobFrameOfOne
<1>7. CASE Core!AcquireJob(a)
  BY <1>1, <1>7, AcquireJobKeeps
<1>8. CASE Core!PutJob(a)
  BY <1>1, <1>8, PutJobKeeps
<1>9. CASE Core!Store(a) \/ Core!Return(a)
  BY <1>2, <1>9, StoreReturnKeep DEF Core!Store, Core!Return
<1> QED BY <1>3, <1>4, <1>5, <1>6, <1>7, <1>8, <1>9 DEF Core!Proceed

LEMMA CoreStep == Limits /\ CoreInv /\ [Core!Next]_Core!vars => CoreInv' /\ Final
<1> SUFFICES ASSUME Limits, CoreInv, [Core!Next]_Core!vars PROVE CoreInv' /\ Final OBVIOUS
<1> USE DEF CoreInv
<1>1. ASSUME NEW a \in Adapters, Core!Arrive(a) PROVE CoreInv' /\ Final
  <2>1. Adapted' /\ CacheInv' /\ MutationInv' /\ UNCHANGED Core!jobs /\ adapters[a].at = "idle"
    BY <1>1, ArriveKeeps
  <2>2. PICK at, request, slot, result :
           at \in {"answered", "admitted"} /\ Becomes(a, at, request, slot, result)
    BY <1>1, ArriveKeeps
  <2>3. ~Puts(a) /\ ~Puts(a)' /\ \A b \in Adapters : b # a => adapters'[b] = adapters[b]
    BY <2>1, <2>2 DEF Becomes, Puts
  <2>4. Final
    BY <2>1 DEF Core!jobs, Final
  <2> QED BY <2>1, <2>3, <2>4, JobFrameOfOne
<1>2. ASSUME NEW a \in Adapters, Core!Proceed(a) PROVE CoreInv' /\ Final
  BY <1>2, CoreProceedKeeps
<1>3. ASSUME UNCHANGED Core!replay PROVE CacheInv'
  BY <1>3 DEF Core!replay, CacheInv, CacheType, ReplayInv
<1>4. ASSUME UNCHANGED adapters, UNCHANGED Core!jobs PROVE JobInv' /\ Final
  <2>1. JobInv'
    BY <1>4, NoPuts, JobFrame
  <2> QED BY <1>4, <2>1 DEF Core!jobs, Final
<1>5. ASSUME UNCHANGED adapters, UNCHANGED Core!mutations PROVE MutationInv'
  BY <1>5, SameAdapters, MutationFrame DEF Core!mutations
<1>6. CASE Core!MutationWorker
  <2>1. UNCHANGED adapters /\ UNCHANGED Core!replay /\ UNCHANGED Core!jobs
    BY <1>6 DEF Core!MutationWorker, Core!StartMutation, Core!FinishMutation
  <2>2. MutationInv'
    BY <1>6, StartMutationKeeps, FinishMutationKeeps DEF Core!MutationWorker
  <2> QED BY <1>3, <1>4, <2>1, <2>2, SameAdapters
<1>7. CASE Core!JobWorker
  <2>1. UNCHANGED adapters /\ UNCHANGED Core!replay /\ UNCHANGED Core!mutations
    BY <1>7 DEF Core!JobWorker, Core!ExpireJob, Core!CheckJob, Core!RunJob, Core!FinishJob, Core!JudgeJob
  <2>2. JobInv' /\ Final
    BY <1>7, QueueStepsKeep, RunStepsKeep DEF Core!JobWorker
  <2> QED BY <1>3, <1>5, <2>1, <2>2, SameAdapters
<1>8. CASE Core!Tick
  <2>1. UNCHANGED adapters /\ UNCHANGED Core!mutations
    BY <1>8 DEF Core!Tick
  <2> QED BY <1>5, <1>8, <2>1, SameAdapters, TickKeepsCache, TickKeepsJobs
<1>9. ASSUME NEW p, Core!Invalidate(p) PROVE CoreInv' /\ Final
  <2>1. UNCHANGED adapters /\ UNCHANGED Core!mutations /\ UNCHANGED Core!jobs
    BY <1>9 DEF Core!Invalidate
  <2> QED BY <1>4, <1>5, <1>9, <2>1, SameAdapters, InvalidateKeeps
<1>10. CASE UNCHANGED Core!vars
  <2>1. UNCHANGED adapters /\ UNCHANGED Core!replay /\ UNCHANGED Core!mutations /\ UNCHANGED Core!jobs
    BY <1>10 DEF Core!vars
  <2> QED BY <1>3, <1>4, <1>5, <2>1, SameAdapters
<1> QED BY <1>1, <1>2, <1>6, <1>7, <1>8, <1>9, <1>10 DEF Core!Next

LEMMA CoreHolds == ASSUME Limits PROVE Core!Spec => []CoreInv
<1>1. Core!Init => CoreInv
  BY CoreStart
<1>2. CoreInv /\ [Core!Next]_Core!vars => CoreInv'
  BY CoreStep
<1> QED BY <1>1, <1>2, PTL DEF Core!Spec

\* Everything has its type, for every number of adapters, requests and slots.
THEOREM DispatcherTypes == ASSUME Limits PROVE Core!Spec => []Core!TypeOK
<1>1. CoreInv => Core!TypeOK
  BY DEF CoreInv, Adapted, AdapterTypes, AdapterType, CacheInv, CacheType, EntryType,
     MutationInv, MutationTypes, MutationType, JobInv, JobTypes, JobType, Core!TypeOK
<1> QED BY <1>1, CoreHolds, PTL

\* An answer is never somebody else's: what an adapter sends is the outcome of the very
\* request it got, however cache entries and slots are used again.
THEOREM AnswersMatch == ASSUME Limits PROVE Core!Spec => []AnswerIsForRequest
<1>1. CoreInv => AnswerIsForRequest
  <2> SUFFICES ASSUME CoreInv, NEW a \in Adapters, adapters[a].result # None
               PROVE  adapters[a].result.of = adapters[a].request
    BY DEF AnswerIsForRequest
  <2>1. OwnOf(adapters[a].at, adapters[a].request, adapters[a].result)
    BY DEF CoreInv, Adapted, AdaptersInv
  <2>2. adapters[a].at \in Core!AdapterPoints
    BY DEF CoreInv, Adapted, AdapterTypes, AdapterType
  <2> QED BY <2>1, <2>2 DEF OwnOf, Core!AdapterPoints
<1> QED BY <1>1, CoreHolds, PTL

LEMMA OneOrNone ==
  ASSUME NEW S, \A x, y \in S : x = y
  PROVE  /\ S = {} => Cardinality(S) = 0
         /\ S # {} => Cardinality(S) = 1
<1>1. S = {} => Cardinality(S) = 0
  BY FS_EmptySet
<1>2. ASSUME S # {} PROVE Cardinality(S) = 1
  <2>1. PICK x : S = {x}
    BY <1>2
  <2> QED BY <2>1, FS_Singleton
<1> QED BY <1>1, <1>2

\* A mutation slot has one holder, who waits for the request in it, and is in exactly
\* one place: with the holder, in the queue, with the worker, or done.
THEOREM MutationsHaveOneHolder == ASSUME Limits PROVE Core!Spec => []SlotsOwned
<1>1. CoreInv => SlotsOwned
  <2> SUFFICES ASSUME CoreInv, NEW i \in Core!Slots
               PROVE  LET holders == {a \in Holder(i) : adapters[a].request.execution = "mutation"}
                          waiting == {a \in holders : At(a, "waiting")}
                          places == Cardinality(Queued(mutation_queue, i))
                                      + (IF mutating = i THEN 1 ELSE 0)
                                      + (IF mutation_slots[i].done THEN 1 ELSE 0)
                      IN
                      /\ Cardinality(holders) = IF mutation_slots[i].request = None THEN 0 ELSE 1
                      /\ places = Cardinality(waiting)
                      /\ \A a \in holders : mutation_slots[i].request = adapters[a].request
    BY DEF SlotsOwned, Core!Slots
  <2> DEFINE holders == {a \in Holder(i) : adapters[a].request.execution = "mutation"}
             waiting == {a \in holders : At(a, "waiting")}
             queued == Queued(mutation_queue, i)
  <2>1. \A a : a \in holders <=> a \in Adapters /\ Mutates(a) /\ adapters[a].slot = i
    BY DEF Holder, Mutates, Holding
  <2>2. \A a : a \in waiting <=> a \in holders /\ adapters[a].at = "waiting"
    BY DEF At
  <2>3. queued # {} <=> On(mutation_queue, i)
    BY DEF Queued, On
  <2>4. \A k, l \in queued : k = l
    BY DEF Queued, CoreInv, MutationInv, SlotsInv, Distinct
  <2> HIDE DEF holders, waiting, queued
  <2>5. /\ \A a, b \in holders : a = b
        /\ \A a \in holders : mutation_slots[i].request = adapters[a].request /\ adapters[a].request # None
        /\ mutation_slots[i].request # None => holders # {}
    BY <2>1 DEF CoreInv, MutationInv, HoldersInv, Adapted, AdapterTypes, Mutates, Holding
  <2>6. Cardinality(holders) = IF mutation_slots[i].request = None THEN 0 ELSE 1
    BY <2>5, OneOrNone
  <2>7. Cardinality(waiting) = IF waiting = {} THEN 0 ELSE 1
    BY <2>2, <2>5, OneOrNone
  <2>8. Cardinality(queued) = IF On(mutation_queue, i) THEN 1 ELSE 0
    BY <2>3, <2>4, OneOrNone
  <2>9. waiting # {} <=> On(mutation_queue, i) \/ mutating = i \/ mutation_slots[i].done
    <3>1. ASSUME waiting # {} PROVE On(mutation_queue, i) \/ mutating = i \/ mutation_slots[i].done
      BY <2>1, <2>2, <3>1 DEF CoreInv, MutationInv, HoldersInv
    <3>2. ASSUME On(mutation_queue, i) \/ mutating = i \/ mutation_slots[i].done PROVE waiting # {}
      <4>1. mutation_slots[i].request # None
        BY <3>2 DEF CoreInv, MutationInv, SlotsInv
      <4>2. PICK a \in holders : TRUE
        BY <2>5, <4>1
      <4>3. adapters[a].at # "acquired"
        BY <2>1, <3>2, <4>2 DEF CoreInv, MutationInv, HoldersInv
      <4> QED BY <2>1, <2>2, <4>2, <4>3 DEF Mutates, Holding
    <3> QED BY <3>1, <3>2
  <2>10. /\ mutating = i => ~mutation_slots[i].done /\ ~On(mutation_queue, i)
         /\ mutation_slots[i].done => ~On(mutation_queue, i)
    BY DEF CoreInv, MutationInv, SlotsInv
  <2>11. Cardinality(queued) + (IF mutating = i THEN 1 ELSE 0) + (IF mutation_slots[i].done THEN 1 ELSE 0)
           = Cardinality(waiting)
    BY <2>7, <2>8, <2>9, <2>10
  <2> QED BY <2>5, <2>6, <2>11, Zenon DEF holders, waiting, queued
<1> QED BY <1>1, CoreHolds, PTL

\* A verdict is final: a job that COMPLETED or FAILED stays so, whatever polls come late.
THEOREM VerdictsStay == ASSUME Limits PROVE Core!Spec => VerdictKept
<1>1. CoreInv /\ [Core!Next]_Core!vars
        => [\A i \in 1 .. Inflight : job_slots[i].state \in {"COMPLETED", "FAILED"}
                                    => job_slots'[i].state = job_slots[i].state]_job_slots
  BY CoreStep DEF Final, Core!Slots
<1> QED BY <1>1, CoreHolds, PTL DEF Core!Spec, VerdictKept
=============================================================================
