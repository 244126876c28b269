----------------------- MODULE ConfigDeployment_proofs -----------------------
(***************************************************************************)
(* Proofs about ConfigDeployment, for every set of editors, every number of *)
(* chunks and of restarts, and whatever is lost, late or given up.          *)
(* The last section is about HardwareTest, the other program of the editor  *)
(* that writes the configuration of a Core.                                 *)
(***************************************************************************)
EXTENDS ConfigDeployment, TestVerdicts, TLAPS, SequenceTheorems

CoreTypes ==
    /\ config \in Configs
    /\ generation \in Nat \ {0}
    /\ boot \in 1..(MaxReboots + 1)
    /\ upload \in [editor : Authors, op : Operations, gen : Nat, got : Seq(Authors)]
    /\ installed \in SUBSET Authors

CallTypes ==
    /\ inbox \in [Editors -> Seq(Requests)]
    /\ call \in [Editors -> Requests]
    /\ waiting \in [Editors -> BOOLEAN]
    /\ reply \in [Editors -> Answers]
    /\ served \in [Editors -> [boot : Nat, answer : Answers]]

FlowTypes ==
    /\ pc \in [Editors -> {"idle", "validate", "apply", "read", "done"}]
    /\ why \in [Editors -> {"none", "readback", "conflict", "ambiguous"}]
    /\ expected \in [Editors -> Nat]
    /\ applied \in [Editors -> Nat]
    /\ download \in [Editors -> [gen : Nat, hash : Configs, got : Seq(Authors)]]
    /\ outcome \in [Editors -> Outcomes]

\* The slot holds the beginning of one transfer.
SlotInv ==
    /\ Len(upload.got) < Chunks
    /\ \A i \in 1..Len(upload.got) : upload.got[i] = upload.editor

InForce == \E a \in installed : config = Whole(a)

CoreInv == CoreTypes /\ SlotInv /\ InForce

\* What the Core may have answered to the request q of e, when the editors in
\* inst have had their configurations in force.
Honest(q, e, a, inst) ==
    /\ a.status = "snapshot" =>
          a.chunk = a.hash[q.chunk] /\ \E b \in inst : a.hash = Whole(b)
    /\ a.status = "ack" => q.chunk < Chunks
    /\ a.status \in {"same", "applied"} => e \in inst

\* The call that is awaited is the last one sent, and nothing is under way
\* once it is answered.
CallInv(e) ==
    /\ waiting[e] => inbox[e] = <<>> \/ inbox[e][Len(inbox[e])] = call[e]
    /\ reply[e].status \notin {"none", "lost"} => inbox[e] = <<>>
    /\ Honest(call[e], e, reply[e], installed)
    /\ Honest(call[e], e, served[e].answer, installed)

\* What is downloaded so far is the beginning of what its hash stands for.
DownloadInv(e) ==
    /\ Len(download[e].got) <= Chunks
    /\ \A i \in 1..Len(download[e].got) : download[e].got[i] = download[e].hash[i]
    /\ pc[e] \in {"idle", "validate", "apply"} => download[e].got = <<>>
    /\ pc[e] = "read" => Len(download[e].got) = call[e].chunk - 1

OutcomeInv(e) ==
    /\ outcome[e] # "none" => pc[e] = "done"
    /\ pc[e] = "done" => ~waiting[e]
    /\ outcome[e] \notin {"none", "REMOTE_ERROR"} => inbox[e] = <<>>
    /\ outcome[e] \in Recorded => e \in installed

EditorInv(e) == CallInv(e) /\ DownloadInv(e) /\ OutcomeInv(e)

CallsInv == CallTypes /\ FlowTypes /\ \A e \in Editors : EditorInv(e)

Inv == CoreInv /\ CallsInv

LEMMA InvTypes == Inv => TypeOK
  BY DEF Inv, CoreInv, CallsInv, CoreTypes, CallTypes, FlowTypes, TypeOK

-----------------------------------------------------------------------------
(* Answers.                                                                 *)

LEMMA PlainTypes ==
    ASSUME NEW s \in Statuses
    PROVE  Plain(s) \in Answers /\ Plain(s).status = s
  BY TransferAssumption DEF Plain, Answers, Configs, Whole, Authors

\* What was honest stays so when more configurations have been in force.
LEMMA HonestStays ==
    ASSUME NEW q, NEW e, NEW a, NEW s, NEW t, s \subseteq t, Honest(q, e, a, s)
    PROVE  Honest(q, e, a, t)
  BY DEF Honest

LEMMA AnswerKeeps ==
    ASSUME CallsInv, NEW e \in Editors, inbox[e] # <<>>, NEW a \in Answers, Answer(e, a),
           installed \subseteq installed', boot \in Nat,
           Honest(Request(e), e, a, installed')
    PROVE  CallsInv'
<1> USE DEF CallsInv
<1>1. /\ inbox' = [inbox EXCEPT ![e] = Tail(inbox[e])]
      /\ UNCHANGED <<call, waiting, pc, why, expected, applied, download, outcome>>
  BY DEF Answer, flow
<1> DEFINE awaited == waiting[e] /\ Len(inbox[e]) = 1
<1>2. /\ served' = IF awaited THEN [served EXCEPT ![e] = [boot |-> boot, answer |-> a]] ELSE served
      /\ reply' = reply \/ (awaited /\ reply' = [reply EXCEPT ![e] = a])
  BY DEF Answer
<1>3. inbox[e] \in Seq(Requests) /\ Len(inbox[e]) # 0 /\ Tail(inbox[e]) \in Seq(Requests)
  BY DEF CallTypes
<1>4. awaited => Request(e) = call[e]
  BY <1>3 DEF EditorInv, CallInv, Request
<1>5. CallTypes'
  BY <1>1, <1>2, <1>3 DEF CallTypes
<1>6. FlowTypes'
  BY <1>1 DEF FlowTypes
<1>7. ASSUME NEW f \in Editors
      PROVE  EditorInv(f)'
  <2> USE DEF EditorInv
  <2>1. /\ Honest(call[f], f, reply[f], installed')
        /\ Honest(call[f], f, served[f].answer, installed')
    BY HonestStays DEF CallInv
  <2>2. DownloadInv(f)'
    BY <1>1 DEF DownloadInv
  <2>3. inbox[f] = <<>> => inbox'[f] = <<>>
    <3>1. f # e => inbox'[f] = inbox[f]
      BY <1>1 DEF CallTypes
    <3> QED
      BY <3>1
  <2>4. OutcomeInv(f)'
    BY <1>1, <2>3 DEF OutcomeInv
  <2>5. CASE f # e
    <3>1. inbox'[f] = inbox[f] /\ reply'[f] = reply[f] /\ served'[f] = served[f]
      BY <1>1, <1>2, <2>5 DEF CallTypes
    <3> QED
      BY <1>1, <2>1, <2>2, <2>4, <3>1 DEF CallInv
  <2>6. CASE f = e
    <3>1. inbox'[e] = Tail(inbox[e])
      BY <1>1 DEF CallTypes
    <3>2. waiting[e] => Tail(inbox[e]) = <<>> \/ Tail(inbox[e])[Len(Tail(inbox[e]))] = call[e]
      <4>1. waiting[e] => inbox[e][Len(inbox[e])] = call[e]
        BY DEF CallInv
      <4>2. CASE Len(inbox[e]) = 1
        BY <1>3, <4>2
      <4>3. CASE Len(inbox[e]) # 1
        BY <1>3, <4>1, <4>3
      <4> QED
        BY <4>2, <4>3
    <3>3. reply[e].status \in {"none", "lost"}
      BY DEF CallInv
    <3>4. Honest(call[e], e, served'[e].answer, installed')
      <4>1. CASE awaited
        <5>1. served'[e].answer = a
          BY <1>2, <4>1 DEF CallTypes
        <5> QED
          BY <1>4, <4>1, <5>1
      <4>2. CASE ~awaited
        BY <1>2, <2>1, <2>6, <4>2
      <4> QED
        BY <4>1, <4>2
    <3>5. /\ Honest(call[e], e, reply'[e], installed')
          /\ reply'[e].status \notin {"none", "lost"} => Tail(inbox[e]) = <<>>
      <4>1. CASE reply' = reply
        BY <2>1, <2>6, <3>3, <4>1
      <4>2. CASE awaited /\ reply' = [reply EXCEPT ![e] = a]
        <5>1. reply'[e] = a
          BY <4>2 DEF CallTypes
        <5>2. Tail(inbox[e]) = <<>>
          <6>1. Len(inbox[e]) = 1
            BY <4>2
          <6>2. Len(Tail(inbox[e])) = 0
            BY <1>3, <6>1, HeadTailProperties
          <6> QED
            BY <1>3, <6>2, EmptySeq
        <5>3. Honest(call[e], e, a, installed')
          BY <1>4, <4>2
        <5> QED
          BY <4>2, <5>1, <5>2, <5>3
      <4> QED
        BY <1>2, <4>1, <4>2
    <3>6. CallInv(e)'
      BY <1>1, <3>1, <3>2, <3>4, <3>5 DEF CallInv
    <3> QED
      BY <2>2, <2>4, <2>6, <3>6
  <2> QED
    BY <2>5, <2>6
<1> QED
  BY <1>5, <1>6, <1>7

-----------------------------------------------------------------------------
(* Steps of the Core.                                                       *)

LEMMA ConfigIsKept ==
    ASSUME CoreInv, UNCHANGED <<config, generation, boot, upload, installed>>
    PROVE  CoreInv'
  BY DEF CoreInv, CoreTypes, SlotInv, InForce

LEMMA RequestTypes ==
    ASSUME CallTypes, NEW e \in Editors, inbox[e] # <<>>
    PROVE  Request(e) \in Requests
  BY DEF CallTypes, Request

LEMMA ServeGetKeeps ==
    ASSUME Inv, NEW e \in Editors, ServeGet(e)
    PROVE  Inv'
<1> USE DEF Inv
<1> DEFINE a == [status |-> "snapshot", gen |-> generation, hash |-> config,
                 chunk |-> config[Request(e).chunk]]
<1>1. inbox[e] # <<>> /\ Answer(e, a) /\ UNCHANGED <<config, generation, boot, upload, installed>>
  BY DEF ServeGet, Asked, Answer
<1>2. Request(e).chunk \in 1..Chunks
  BY <1>1, RequestTypes DEF CallsInv, Requests
<1>3. a \in Answers
  BY <1>2 DEF CoreInv, CoreTypes, Answers, Statuses, Configs
<1>4. Honest(Request(e), e, a, installed)
  BY DEF Honest, CoreInv, InForce
<1>5. boot \in Nat
  BY TransferAssumption DEF CoreInv, CoreTypes
<1> HIDE DEF a
<1>6. CallsInv'
  BY <1>1, <1>3, <1>4, <1>5, AnswerKeeps
<1> QED
  BY <1>1, <1>6, ConfigIsKept

\* An answer that is neither a snapshot nor an acknowledgement nor a success.
LEMMA PlainKeeps ==
    ASSUME Inv, NEW e \in Editors, inbox[e] # <<>>,
           NEW s \in {"valid", "invalid", "conflict", "refused"}, Answer(e, Plain(s)),
           installed' = installed
    PROVE  CallsInv'
<1>1. Plain(s) \in Answers /\ Plain(s).status = s
  BY PlainTypes DEF Statuses
<1>2. Honest(Request(e), e, Plain(s), installed')
  BY <1>1 DEF Honest
<1>3. boot \in Nat
  BY TransferAssumption DEF Inv, CoreInv, CoreTypes
<1> QED
  BY <1>1, <1>2, <1>3, AnswerKeeps DEF Inv

LEMMA RefuseChunkKeeps ==
    ASSUME Inv, NEW e \in Editors, RefuseChunk(e)
    PROVE  Inv'
<1>1. /\ inbox[e] # <<>>
      /\ UNCHANGED <<config, generation, boot, upload, installed>>
      /\ \E s \in {"conflict", "refused"} : Answer(e, Plain(s))
  BY DEF RefuseChunk, Asked, Answer
<1> QED
  BY <1>1, PlainKeeps, ConfigIsKept DEF Inv

\* The transfer in the slot and the chunk that continues it.
LEMMA ContinuesIt ==
    ASSUME Inv, NEW e \in Editors, Continues(e)
    PROVE  /\ inbox[e] # <<>> /\ Request(e) \in Requests
           /\ upload.got \in Seq(Authors)
           /\ Request(e).chunk = Len(upload.got) + 1
           /\ \A i \in 1..Len(upload.got) : upload.got[i] = e
<1>1. inbox[e] # <<>> /\ Request(e) \in Requests
  BY RequestTypes DEF Continues, Asked, Inv, CallsInv
<1>2. upload.got \in Seq(Authors)
  BY DEF Inv, CoreInv, CoreTypes
<1>3. Request(e).chunk = Len(upload.got) + 1
  BY <1>2 DEF Continues, Received, Vacant
<1>4. \A i \in 1..Len(upload.got) : upload.got[i] = e
  BY <1>2 DEF Continues, Vacant, SameTransfer, Inv, CoreInv, SlotInv
<1> QED
  BY <1>1, <1>2, <1>3, <1>4

LEMMA StoreChunkKeeps ==
    ASSUME Inv, NEW e \in Editors, StoreChunk(e)
    PROVE  Inv'
<1>1. /\ inbox[e] # <<>> /\ Answer(e, Plain("ack"))
      /\ UNCHANGED <<config, generation, boot, installed>>
  BY DEF StoreChunk, Asked, Continues, Answer
<1>2. Request(e) \in Requests
  BY <1>1, RequestTypes DEF Inv, CallsInv
<1>3. Request(e).chunk < Chunks /\ CoreInv'
  <2>1. CASE UNCHANGED upload /\ ~Vacant /\ Request(e).chunk <= Received(e)
    <3>1. Request(e).chunk < Chunks
      BY <1>2, <2>1, TransferAssumption
         DEF Received, Inv, CoreInv, SlotInv, CoreTypes, Requests
    <3> QED
      BY <1>1, <2>1, <3>1, ConfigIsKept DEF Inv
  <2>2. CASE /\ Continues(e)
             /\ Request(e).chunk < Chunks
             /\ upload' = [editor |-> e, op |-> Request(e).op, gen |-> Request(e).gen,
                           got |-> Append(upload.got, e)]
    <3>1. /\ upload.got \in Seq(Authors)
          /\ Request(e).chunk = Len(upload.got) + 1
          /\ \A i \in 1..Len(upload.got) : upload.got[i] = e
      BY <2>2, ContinuesIt
    <3>2. /\ upload'.got = Append(upload.got, e)
          /\ upload'.editor = e
          /\ upload' \in [editor : Authors, op : Operations, gen : Nat, got : Seq(Authors)]
      BY <1>2, <2>2, <3>1 DEF Authors, Requests
    <3>3. SlotInv'
      BY <2>2, <3>1, <3>2 DEF SlotInv
    <3> QED
      BY <1>1, <2>2, <3>2, <3>3 DEF Inv, CoreInv, CoreTypes, InForce
  <2> QED
    BY <2>1, <2>2 DEF StoreChunk
<1>4. Plain("ack") \in Answers /\ Plain("ack").status = "ack"
  BY PlainTypes DEF Statuses
<1>5. Honest(Request(e), e, Plain("ack"), installed')
  BY <1>3, <1>4 DEF Honest
<1>6. boot \in Nat
  BY TransferAssumption DEF Inv, CoreInv, CoreTypes
<1>7. CallsInv'
  BY <1>1, <1>4, <1>5, <1>6, AnswerKeeps DEF Inv
<1> QED
  BY <1>3, <1>7 DEF Inv

LEMMA EmptySlotInv ==
    ASSUME upload' = EmptySlot
    PROVE  /\ SlotInv'
           /\ upload' \in [editor : Authors, op : Operations, gen : Nat, got : Seq(Authors)]
<1>1. /\ upload'.got = <<>>
      /\ upload' \in [editor : Authors, op : Operations, gen : Nat, got : Seq(Authors)]
  BY DEF EmptySlot, Authors, Operations
<1>2. Len(upload'.got) = 0 /\ 0 < Chunks
  BY <1>1, TransferAssumption
<1> QED
  BY <1>1, <1>2 DEF SlotInv

LEMMA EmptiedKeeps ==
    ASSUME CoreInv, upload' = EmptySlot, UNCHANGED <<config, installed>>,
           generation' \in Nat \ {0}, boot' \in 1..(MaxReboots + 1)
    PROVE  CoreInv'
  BY EmptySlotInv DEF CoreInv, CoreTypes, InForce

LEMMA ValidateKeeps ==
    ASSUME Inv, NEW e \in Editors, Validate(e) \/ RefuseApply(e)
    PROVE  Inv'
<1>1. /\ inbox[e] # <<>> /\ upload' = EmptySlot
      /\ UNCHANGED <<config, generation, boot, installed>>
      /\ \E s \in {"valid", "invalid", "conflict", "refused"} : Answer(e, Plain(s))
  BY DEF Validate, RefuseApply, Completes, Continues, Asked, Answer
<1>2. CoreInv'
  BY <1>1, EmptiedKeeps DEF Inv, CoreInv, CoreTypes
<1> QED
  BY <1>1, <1>2, PlainKeeps DEF Inv

LEMMA AcceptApplyKeeps ==
    ASSUME Inv, NEW e \in Editors, AcceptApply(e)
    PROVE  Inv' /\ config' = Whole(e) /\ inbox[e] # <<>>
<1> DEFINE a == [Plain(IF Append(upload.got, e) = config THEN "same" ELSE "applied")
                   EXCEPT !.gen = generation']
<1>1. /\ Continues(e) /\ Request(e).chunk = Chunks /\ upload' = EmptySlot
      /\ config' = Append(upload.got, e)
      /\ generation' \in {generation, generation + 1}
      /\ installed' = installed \union {e}
      /\ Answer(e, a)
      /\ boot' = boot
  BY DEF AcceptApply, Completes, Answer
<1>2. /\ inbox[e] # <<>>
      /\ upload.got \in Seq(Authors)
      /\ Len(upload.got) + 1 = Chunks
      /\ \A i \in 1..Len(upload.got) : upload.got[i] = e
  BY <1>1, ContinuesIt
<1>3. config' = Whole(e) /\ config' \in Configs
  <2>1. e \in Authors
    BY DEF Authors
  <2>2. /\ Append(upload.got, e) \in Seq(Authors)
        /\ Len(Append(upload.got, e)) = Chunks
        /\ \A i \in 1..Chunks : Append(upload.got, e)[i] = e
    BY <1>2, <2>1
  <2>3. Append(upload.got, e) = [i \in 1..Chunks |-> Append(upload.got, e)[i]]
    BY <2>2
  <2>4. Append(upload.got, e) = [i \in 1..Chunks |-> e]
    BY <2>2, <2>3
  <2> QED
    BY <1>1, <2>1, <2>4 DEF Whole, Configs
<1>4. generation' \in Nat \ {0} /\ installed' \in SUBSET Authors
  BY <1>1 DEF Inv, CoreInv, CoreTypes, Authors
<1>5. CoreInv'
  BY <1>1, <1>3, <1>4, EmptySlotInv DEF Inv, CoreInv, CoreTypes, InForce
<1>6. /\ a \in Answers
      /\ a.status \in {"same", "applied"}
  <2>1. \A s \in {"same", "applied"} : Plain(s) \in Answers /\ Plain(s).status = s
    BY PlainTypes DEF Statuses
  <2> QED
    BY <1>4, <2>1 DEF Answers
<1>7. Honest(Request(e), e, a, installed')
  BY <1>1, <1>6 DEF Honest
<1>8. boot \in Nat /\ installed \subseteq installed'
  BY <1>1, TransferAssumption DEF Inv, CoreInv, CoreTypes
<1> HIDE DEF a
<1>9. CallsInv'
  BY <1>1, <1>2, <1>6, <1>7, <1>8, AnswerKeeps DEF Inv
<1> QED
  BY <1>2, <1>3, <1>5, <1>9 DEF Inv

LEMMA CallsAreKept ==
    ASSUME CallsInv, UNCHANGED <<calls, flow, installed>>
    PROVE  CallsInv'
<1>1. UNCHANGED <<inbox, call, waiting, reply, served, pc, why, expected, applied,
                  download, outcome, installed>>
  BY DEF calls, flow
<1> QED
  BY <1>1 DEF CallsInv, CallTypes, FlowTypes, EditorInv, CallInv, DownloadInv, OutcomeInv

LEMMA ExpireKeeps ==
    ASSUME Inv, Expire \/ Reboot
    PROVE  Inv'
<1>1. UNCHANGED <<calls, flow, installed>> /\ upload' = EmptySlot /\ config' = config
  BY DEF Expire, Reboot
<1>2. generation' \in Nat \ {0} /\ boot' \in 1..(MaxReboots + 1)
  BY TransferAssumption DEF Expire, Reboot, Inv, CoreInv, CoreTypes
<1> QED
  BY <1>1, <1>2, CallsAreKept, EmptiedKeeps DEF Inv

-----------------------------------------------------------------------------
(* Steps of the calls and of the editors.                                   *)

\* A step of one editor leaves the others as they are.
LEMMA OneEditor ==
    ASSUME CallsInv, NEW e \in Editors, CallTypes', FlowTypes', EditorInv(e)',
           installed' = installed,
           \A f \in Editors \ {e} :
              /\ inbox'[f] = inbox[f] /\ call'[f] = call[f] /\ waiting'[f] = waiting[f]
              /\ reply'[f] = reply[f] /\ served'[f] = served[f] /\ pc'[f] = pc[f]
              /\ download'[f] = download[f] /\ outcome'[f] = outcome[f]
    PROVE  CallsInv'
<1>1. ASSUME NEW f \in Editors \ {e}
      PROVE  EditorInv(f)'
  <2>1. EditorInv(f)
    BY DEF CallsInv
  <2> QED
    BY <2>1 DEF EditorInv, CallInv, DownloadInv, OutcomeInv
<1> QED
  BY <1>1 DEF CallsInv

LEMMA LoseKeeps ==
    ASSUME Inv, NEW e \in Editors, Lose(e)
    PROVE  Inv'
<1> USE DEF Inv, CallsInv
<1>1. /\ inbox[e] # <<>>
      /\ inbox' = [inbox EXCEPT ![e] = Tail(inbox[e])]
      /\ UNCHANGED <<config, generation, boot, upload, installed, call, waiting, reply, served,
                     pc, why, expected, applied, download, outcome>>
  BY DEF Lose, core, flow
<1>2. inbox[e] \in Seq(Requests) /\ Tail(inbox[e]) \in Seq(Requests)
  BY <1>1 DEF CallTypes
<1>3. CallTypes' /\ FlowTypes'
  BY <1>1, <1>2 DEF CallTypes, FlowTypes
<1>4. inbox'[e] = Tail(inbox[e])
  BY <1>1 DEF CallTypes
<1>5. EditorInv(e)'
  <2>1. waiting[e] => Tail(inbox[e]) = <<>> \/ Tail(inbox[e])[Len(Tail(inbox[e]))] = call[e]
    <3>1. waiting[e] => inbox[e][Len(inbox[e])] = call[e]
      BY <1>1 DEF EditorInv, CallInv
    <3>2. CASE Len(inbox[e]) = 1
      <4>1. Len(Tail(inbox[e])) = 0
        BY <1>1, <1>2, <3>2, HeadTailProperties
      <4> QED
        BY <1>2, <4>1, EmptySeq
    <3>3. CASE Len(inbox[e]) # 1
      BY <1>1, <1>2, <3>1, <3>3
    <3> QED
      BY <3>2, <3>3
  <2>2. CallInv(e)'
    BY <1>1, <1>4, <2>1 DEF EditorInv, CallInv
  <2> QED
    BY <1>1, <1>4, <2>2 DEF EditorInv, DownloadInv, OutcomeInv
<1>6. CallsInv'
  BY <1>1, <1>3, <1>5, OneEditor DEF CallTypes
<1> QED
  BY <1>1, <1>6, ConfigIsKept

LEMMA ResendKeeps ==
    ASSUME Inv, NEW e \in Editors, Resend(e)
    PROVE  Inv'
<1> USE DEF Inv, CallsInv
<1>1. /\ waiting[e] /\ inbox[e] = <<>>
      /\ \/ reply' = [reply EXCEPT ![e] = served[e].answer] /\ UNCHANGED inbox
         \/ inbox' = [inbox EXCEPT ![e] = <<call[e]>>] /\ UNCHANGED reply
      /\ reply[e] = NoAnswer
      /\ UNCHANGED <<config, generation, boot, upload, installed, call, waiting, served,
                     pc, why, expected, applied, download, outcome>>
  BY DEF Resend, core, flow
<1>2. CallTypes' /\ FlowTypes'
  <2>1. <<call[e]>> \in Seq(Requests) /\ served[e].answer \in Answers
    BY DEF CallTypes
  <2>2. reply' \in [Editors -> Answers] /\ inbox' \in [Editors -> Seq(Requests)]
    <3>1. CASE reply' = [reply EXCEPT ![e] = served[e].answer] /\ UNCHANGED inbox
      BY <2>1, <3>1 DEF CallTypes
    <3>2. CASE inbox' = [inbox EXCEPT ![e] = <<call[e]>>] /\ UNCHANGED reply
      BY <2>1, <3>2 DEF CallTypes
    <3> QED
      BY <1>1, <3>1, <3>2
  <2>3. CallTypes'
    BY <1>1, <2>2 DEF CallTypes
  <2>4. FlowTypes'
    BY <1>1 DEF FlowTypes
  <2> QED
    BY <2>3, <2>4
<1>3. reply[e].status = "none"
  BY <1>1 DEF NoAnswer, Plain
<1>4. EditorInv(e)'
  <2>1. CASE reply' = [reply EXCEPT ![e] = served[e].answer] /\ UNCHANGED inbox
    <3>1. reply'[e] = served[e].answer
      BY <2>1 DEF CallTypes
    <3> QED
      BY <1>1, <2>1, <3>1 DEF EditorInv, CallInv, DownloadInv, OutcomeInv
  <2>2. CASE inbox' = [inbox EXCEPT ![e] = <<call[e]>>] /\ UNCHANGED reply
    <3>1. inbox'[e] = <<call[e]>>
      BY <2>2 DEF CallTypes
    <3>2. OutcomeInv(e)'
      BY <1>1 DEF EditorInv, OutcomeInv
    <3> QED
      BY <1>1, <1>3, <2>2, <3>1, <3>2 DEF EditorInv, CallInv, DownloadInv
  <2> QED
    BY <1>1, <2>1, <2>2
<1>5. CallsInv'
  BY <1>1, <1>2, <1>4, OneEditor DEF CallTypes
<1> QED
  BY <1>1, <1>5, ConfigIsKept

LEMMA GiveUpKeeps ==
    ASSUME Inv, NEW e \in Editors, GiveUp(e)
    PROVE  Inv'
<1> USE DEF Inv, CallsInv
<1>1. /\ waiting' = [waiting EXCEPT ![e] = FALSE]
      /\ reply' = [reply EXCEPT ![e] = Plain("lost")]
      /\ UNCHANGED <<config, generation, boot, upload, installed, inbox, call, served,
                     pc, why, expected, applied, download, outcome>>
  BY DEF GiveUp, core, flow
<1>2. Plain("lost") \in Answers /\ Plain("lost").status = "lost"
  BY PlainTypes DEF Statuses
<1>3. CallTypes' /\ FlowTypes'
  BY <1>1, <1>2 DEF CallTypes, FlowTypes
<1>4. ~waiting'[e] /\ reply'[e].status = "lost"
  BY <1>1, <1>2 DEF CallTypes
<1>5. EditorInv(e)'
  BY <1>1, <1>4 DEF EditorInv, CallInv, DownloadInv, OutcomeInv, Honest
<1>6. CallsInv'
  BY <1>1, <1>3, <1>5, OneEditor DEF CallTypes
<1> QED
  BY <1>1, <1>6, ConfigIsKept

\* A call that is sent: its request is the last, and nothing answers it yet.
LEMMA CallKeeps ==
    ASSUME Inv, NEW e \in Editors, NEW op \in Operations, NEW k \in 1..Chunks, NEW g \in Nat,
           Call(e, op, k, g), UNCHANGED core, UNCHANGED outcome, FlowTypes',
           pc[e] # "done",
           \A f \in Editors \ {e} : download'[f] = download[f],
           Len(download'[e].got) <= Chunks,
           \A i \in 1..Len(download'[e].got) : download'[e].got[i] = download'[e].hash[i],
           IF op = "get" THEN Len(download'[e].got) = k - 1 ELSE download'[e].got = <<>>
    PROVE  Inv'
<1> USE DEF Inv, CallsInv
<1> DEFINE q == [op |-> op, chunk |-> k, gen |-> g]
<1>1. /\ inbox' = [inbox EXCEPT ![e] = Append(inbox[e], q)]
      /\ call' = [call EXCEPT ![e] = q]
      /\ waiting' = [waiting EXCEPT ![e] = TRUE]
      /\ reply' = [reply EXCEPT ![e] = NoAnswer]
      /\ served' = [served EXCEPT ![e] = NotServed]
      /\ pc' = [pc EXCEPT ![e] = IF op = "get" THEN "read" ELSE op]
      /\ UNCHANGED <<config, generation, boot, upload, installed>>
  BY DEF Call, core
<1>2. q \in Requests
  BY DEF Requests
<1>3. NoAnswer \in Answers /\ NoAnswer.status = "none"
  BY PlainTypes DEF NoAnswer, Statuses
<1>4. NotServed \in [boot : Nat, answer : Answers] /\ NotServed.answer = NoAnswer
  BY <1>3 DEF NotServed
<1> HIDE DEF q
<1>5. inbox[e] \in Seq(Requests) /\ Append(inbox[e], q) \in Seq(Requests)
  BY <1>2 DEF CallTypes
<1>6. CallTypes'
  BY <1>1, <1>2, <1>3, <1>4, <1>5 DEF CallTypes
<1>7. /\ inbox'[e] = Append(inbox[e], q) /\ call'[e] = q /\ call'[e].chunk = k
      /\ reply'[e] = NoAnswer /\ served'[e] = NotServed
      /\ pc'[e] = IF op = "get" THEN "read" ELSE op
  BY <1>1 DEF CallTypes, FlowTypes, q
<1>8. CallInv(e)'
  <2>1. inbox'[e][Len(inbox'[e])] = call'[e]
    BY <1>2, <1>5, <1>7
  <2> QED
    BY <1>3, <1>4, <1>7, <2>1 DEF CallInv, Honest
<1>9. DownloadInv(e)'
  BY <1>7 DEF DownloadInv, Operations
<1>10. OutcomeInv(e)'
  <2>1. outcome[e] = "none"
    BY DEF EditorInv, OutcomeInv
  <2> QED
    BY <1>7, <2>1 DEF OutcomeInv, Operations, Recorded
<1>11. CallsInv'
  BY <1>1, <1>6, <1>8, <1>9, <1>10, OneEditor DEF EditorInv, CallTypes, FlowTypes
<1> QED
  BY <1>1, <1>11, ConfigIsKept

LEMMA StartKeeps ==
    ASSUME Inv, NEW e \in Editors, Start(e)
    PROVE  Inv'
<1> USE DEF Inv, CallsInv
<1>1. /\ pc[e] = "idle" /\ expected' = [expected EXCEPT ![e] = generation]
      /\ Call(e, "validate", 1, 0)
      /\ UNCHANGED core /\ UNCHANGED outcome /\ UNCHANGED download
      /\ UNCHANGED <<why, applied>>
  BY DEF Start
<1>2. FlowTypes'
  BY <1>1 DEF FlowTypes, Call, CoreInv, CoreTypes
<1>3. download[e].got = <<>> /\ DownloadInv(e)
  BY <1>1 DEF EditorInv, DownloadInv
<1>4. 1 \in 1..Chunks /\ 0 \in Nat /\ "validate" \in Operations
  BY TransferAssumption DEF Operations
<1> QED
  BY <1>1, <1>2, <1>3, <1>4, CallKeeps DEF DownloadInv

LEMMA NextChunkKeeps ==
    ASSUME Inv, NEW e \in Editors, NextChunk(e)
    PROVE  Inv'
<1> USE DEF Inv, CallsInv
<1>1. /\ pc[e] \in {"validate", "apply"} /\ reply[e].status = "ack"
      /\ Call(e, pc[e], call[e].chunk + 1, call[e].gen)
      /\ UNCHANGED core /\ UNCHANGED outcome /\ UNCHANGED download
      /\ UNCHANGED <<why, expected, applied>>
  BY DEF NextChunk
<1>2. FlowTypes'
  BY <1>1 DEF FlowTypes, Call
<1>3. download[e].got = <<>> /\ DownloadInv(e)
  BY <1>1 DEF EditorInv, DownloadInv
<1>4. call[e] \in Requests /\ call[e].chunk < Chunks
  BY <1>1 DEF EditorInv, CallInv, Honest, CallTypes
<1>5. call[e].chunk + 1 \in 1..Chunks /\ call[e].gen \in Nat /\ pc[e] \in Operations
  BY <1>1, <1>4, TransferAssumption DEF Requests, Operations
<1> QED
  BY <1>1, <1>2, <1>3, <1>5, CallKeeps DEF DownloadInv

LEMMA ValidatedKeeps ==
    ASSUME Inv, NEW e \in Editors, Validated(e)
    PROVE  Inv'
<1> USE DEF Inv, CallsInv
<1>1. /\ pc[e] = "validate"
      /\ Call(e, "apply", 1, expected[e])
      /\ UNCHANGED core /\ UNCHANGED outcome /\ UNCHANGED download
      /\ UNCHANGED <<why, expected, applied>>
  BY DEF Validated, Got
<1>2. FlowTypes'
  BY <1>1 DEF FlowTypes, Call
<1>3. download[e].got = <<>> /\ DownloadInv(e)
  BY <1>1 DEF EditorInv, DownloadInv
<1>4. 1 \in 1..Chunks /\ expected[e] \in Nat /\ "apply" \in Operations
  BY TransferAssumption DEF Operations, FlowTypes
<1> QED
  BY <1>1, <1>2, <1>3, <1>4, CallKeeps DEF DownloadInv

LEMMA ConsultKeeps ==
    ASSUME Inv, NEW e \in Editors, Consult(e)
    PROVE  Inv'
<1> USE DEF Inv, CallsInv
<1>1. /\ pc[e] = "apply"
      /\ why' = [why EXCEPT ![e] = CASE reply[e].status = "applied" -> "readback"
                                     [] reply[e].status = "conflict" -> "conflict"
                                     [] OTHER -> "ambiguous"]
      /\ applied' = [applied EXCEPT ![e] = reply[e].gen]
      /\ Call(e, "get", 1, 0)
      /\ UNCHANGED core /\ UNCHANGED outcome /\ UNCHANGED download
      /\ UNCHANGED expected
  BY DEF Consult, Got
<1>2. FlowTypes'
  BY <1>1 DEF FlowTypes, Call, CallTypes, Answers
<1>3. download[e].got = <<>> /\ DownloadInv(e)
  BY <1>1 DEF EditorInv, DownloadInv
<1>4. 1 \in 1..Chunks /\ 0 \in Nat /\ "get" \in Operations
  BY TransferAssumption DEF Operations
<1>5. Len(download[e].got) = 1 - 1
  BY <1>3
<1> QED
  BY <1>1, <1>2, <1>3, <1>4, <1>5, CallKeeps DEF DownloadInv

\* A deployment that ends with an outcome which is not a record, or with one
\* of an editor whose configuration was in force.
LEMMA EndKeeps ==
    ASSUME Inv, NEW e \in Editors, NEW o \in Outcomes, End(e, o),
           o # "REMOTE_ERROR" => inbox[e] = <<>>,
           o \in Recorded => e \in installed
    PROVE  Inv'
<1> USE DEF Inv, CallsInv
<1>1. /\ pc' = [pc EXCEPT ![e] = "done"]
      /\ outcome' = [outcome EXCEPT ![e] = o]
      /\ waiting' = [waiting EXCEPT ![e] = FALSE]
      /\ UNCHANGED <<config, generation, boot, upload, installed, inbox, call, reply, served,
                     why, expected, applied, download>>
  BY DEF End, core
<1>2. CallTypes' /\ FlowTypes'
  BY <1>1 DEF CallTypes, FlowTypes
<1>3. pc'[e] = "done" /\ outcome'[e] = o /\ ~waiting'[e]
  BY <1>1 DEF CallTypes, FlowTypes
<1>4. EditorInv(e)'
  BY <1>1, <1>3 DEF EditorInv, CallInv, DownloadInv, OutcomeInv
<1>5. CallsInv'
  BY <1>1, <1>2, <1>4, OneEditor DEF CallTypes, FlowTypes
<1> QED
  BY <1>1, <1>5, ConfigIsKept

LEMMA NotValidatedKeeps ==
    ASSUME Inv, NEW e \in Editors, NotValidated(e)
    PROVE  Inv'
<1>1. CASE Got(e, "validate", {"invalid"}) /\ End(e, "VALIDATION_FAILED")
  <2>1. inbox[e] = <<>>
    BY <1>1 DEF Got, Inv, CallsInv, EditorInv, CallInv
  <2> QED
    BY <1>1, <2>1, EndKeeps DEF Outcomes, Recorded
<1>2. CASE End(e, "REMOTE_ERROR")
  BY <1>2, EndKeeps DEF Outcomes, Recorded
<1> QED
  BY <1>1, <1>2 DEF NotValidated

LEMMA NoOpKeeps ==
    ASSUME Inv, NEW e \in Editors, NoOp(e)
    PROVE  Inv'
<1>1. inbox[e] = <<>> /\ e \in installed /\ End(e, "NO_OP")
  BY DEF NoOp, Got, Inv, CallsInv, EditorInv, CallInv, Honest
<1> QED
  BY <1>1, EndKeeps DEF Outcomes, Recorded

LEMMA DownloadFailsKeeps ==
    ASSUME Inv, NEW e \in Editors, DownloadFails(e)
    PROVE  Inv'
<1>1. End(e, "REMOTE_ERROR")
  BY DEF DownloadFails
<1> QED
  BY <1>1, EndKeeps DEF Outcomes, Recorded

\* A chunk that fits continues what is downloaded.
LEMMA ExtendedFits ==
    ASSUME Inv, NEW e \in Editors, Got(e, "read", {"snapshot"}), Fits(e)
    PROVE  /\ Extended(e) \in [gen : Nat, hash : Configs, got : Seq(Authors)]
           /\ Len(Extended(e).got) = call[e].chunk
           /\ call[e].chunk \in 1..Chunks
           /\ \A i \in 1..Len(Extended(e).got) : Extended(e).got[i] = Extended(e).hash[i]
           /\ \E b \in installed : Extended(e).hash = Whole(b)
           /\ inbox[e] = <<>>
<1> DEFINE got == download[e].got
           k == call[e].chunk
<1>1. /\ got \in Seq(Authors) /\ k \in 1..Chunks /\ reply[e] \in Answers
      /\ download[e].hash \in Configs
  BY DEF Inv, CallsInv, CallTypes, FlowTypes, Requests
<1>2. /\ Len(got) = k - 1
      /\ \A i \in 1..Len(got) : got[i] = download[e].hash[i]
      /\ reply[e].chunk = reply[e].hash[k]
      /\ \E b \in installed : reply[e].hash = Whole(b)
      /\ inbox[e] = <<>>
  BY DEF Got, Inv, CallsInv, EditorInv, DownloadInv, CallInv, Honest
<1>3. /\ Extended(e).gen = reply[e].gen /\ Extended(e).hash = reply[e].hash
      /\ Extended(e).got = Append(got, reply[e].chunk)
      /\ Extended(e) = [gen |-> reply[e].gen, hash |-> reply[e].hash,
                        got |-> Append(got, reply[e].chunk)]
  BY DEF Extended
<1>4. \A i \in 1..Len(got) : got[i] = reply[e].hash[i]
  <2>1. CASE k = 1
    BY <1>1, <1>2, <2>1
  <2>2. CASE reply[e].hash = download[e].hash
    BY <1>2, <2>2
  <2> QED
    BY <2>1, <2>2 DEF Fits
<1>5. reply[e].gen \in Nat /\ reply[e].hash \in Configs /\ reply[e].chunk \in Authors
  BY <1>1 DEF Answers
<1> HIDE DEF got, k
<1>6. /\ Append(got, reply[e].chunk) \in Seq(Authors)
      /\ Len(Append(got, reply[e].chunk)) = k
      /\ \A i \in 1..k : Append(got, reply[e].chunk)[i] = reply[e].hash[i]
  BY <1>1, <1>2, <1>4, <1>5
<1> QED
  BY <1>1, <1>2, <1>3, <1>5, <1>6 DEF k

LEMMA DownloadChunkKeeps ==
    ASSUME Inv, NEW e \in Editors, DownloadChunk(e)
    PROVE  Inv'
<1> USE DEF Inv, CallsInv
<1>1. /\ Got(e, "read", {"snapshot"}) /\ Fits(e) /\ call[e].chunk < Chunks
      /\ download' = [download EXCEPT ![e] = Extended(e)]
      /\ Call(e, "get", call[e].chunk + 1, 0)
      /\ UNCHANGED core /\ UNCHANGED outcome
      /\ UNCHANGED <<why, expected, applied>>
  BY DEF DownloadChunk
<1>2. /\ Extended(e) \in [gen : Nat, hash : Configs, got : Seq(Authors)]
      /\ Len(Extended(e).got) = call[e].chunk
      /\ call[e].chunk \in 1..Chunks
      /\ \A i \in 1..Len(Extended(e).got) : Extended(e).got[i] = Extended(e).hash[i]
  BY <1>1, ExtendedFits
<1>3. FlowTypes'
  BY <1>1, <1>2 DEF FlowTypes, Call
<1>4. download'[e] = Extended(e) /\ \A f \in Editors \ {e} : download'[f] = download[f]
  BY <1>1 DEF FlowTypes
<1>5. /\ call[e].chunk + 1 \in 1..Chunks /\ 0 \in Nat /\ "get" \in Operations
      /\ pc[e] # "done"
  BY <1>1, <1>2, TransferAssumption DEF Operations, Got
<1>6. /\ Len(download'[e].got) <= Chunks
      /\ Len(download'[e].got) = (call[e].chunk + 1) - 1
      /\ \A i \in 1..Len(download'[e].got) : download'[e].got[i] = download'[e].hash[i]
  BY <1>2, <1>4, TransferAssumption
<1> QED
  BY <1>1, <1>2, <1>3, <1>4, <1>5, <1>6, CallKeeps

LEMMA WholeTells ==
    ASSUME NEW a, NEW b, Whole(a) = Whole(b)
    PROVE  a = b
<1>1. Whole(a)[1] = a /\ Whole(b)[1] = b
  BY TransferAssumption DEF Whole
<1> QED
  BY <1>1

LEMMA JudgeKeeps ==
    ASSUME Inv, NEW e \in Editors, Judge(e)
    PROVE  Inv'
<1> USE DEF Inv, CallsInv
<1> DEFINE d == Extended(e)
           o == Verdict(e, d)
<1>1. /\ Got(e, "read", {"snapshot"}) /\ Fits(e) /\ call[e].chunk = Chunks
      /\ download' = [download EXCEPT ![e] = d]
      /\ outcome' = [outcome EXCEPT ![e] = o]
      /\ pc' = [pc EXCEPT ![e] = "done"]
      /\ waiting' = [waiting EXCEPT ![e] = FALSE]
      /\ UNCHANGED <<config, generation, boot, upload, installed, inbox, call, reply, served,
                     why, expected, applied>>
  BY DEF Judge, core
<1>2. /\ d \in [gen : Nat, hash : Configs, got : Seq(Authors)]
      /\ Len(d.got) = Chunks
      /\ \A i \in 1..Len(d.got) : d.got[i] = d.hash[i]
      /\ \E b \in installed : d.hash = Whole(b)
      /\ inbox[e] = <<>>
  BY <1>1, ExtendedFits
<1>3. o \in Outcomes /\ (o \in Recorded => e \in installed)
  <2>1. o \in Recorded => d.hash = Whole(e)
    BY DEF Verdict, Recorded
  <2>2. o \in Outcomes
    BY DEF Verdict, Outcomes
  <2> QED
    BY <1>2, <2>1, <2>2, WholeTells
<1> HIDE DEF d, o
<1>4. CallTypes' /\ FlowTypes'
  BY <1>1, <1>2, <1>3 DEF CallTypes, FlowTypes
<1>5. /\ pc'[e] = "done" /\ outcome'[e] = o /\ ~waiting'[e] /\ download'[e] = d
  BY <1>1 DEF CallTypes, FlowTypes
<1>6. EditorInv(e)'
  <2>1. DownloadInv(e)'
    BY <1>2, <1>5, TransferAssumption DEF DownloadInv
  <2>2. CallInv(e)'
    BY <1>1, <1>5 DEF EditorInv, CallInv
  <2> QED
    BY <1>1, <1>2, <1>3, <1>5, <2>1, <2>2 DEF EditorInv, OutcomeInv
<1>7. CallsInv'
  BY <1>1, <1>4, <1>6, OneEditor DEF CallTypes, FlowTypes
<1> QED
  BY <1>1, <1>7, ConfigIsKept

-----------------------------------------------------------------------------
(* The invariant.                                                           *)

LEMMA InitHolds == Init => Inv
<1> SUFFICES ASSUME Init PROVE Inv
  OBVIOUS
<1> USE DEF Init
<1>1. PICK a \in Authors : config = Whole(a) /\ installed = {a}
  OBVIOUS
<1>2. CoreInv
  <2>1. config \in Configs
    BY <1>1 DEF Whole, Configs
  <2>2. Len(upload.got) = 0 /\ upload.got = <<>>
        /\ upload \in [editor : Authors, op : Operations, gen : Nat, got : Seq(Authors)]
    BY DEF EmptySlot, Authors, Operations
  <2>3. SlotInv
    BY <2>2, TransferAssumption DEF SlotInv
  <2>4. boot \in 1..(MaxReboots + 1)
    BY TransferAssumption
  <2>5. InForce /\ installed \in SUBSET Authors
    BY <1>1 DEF InForce
  <2>6. CoreTypes
    BY <2>1, <2>2, <2>4, <2>5 DEF CoreTypes
  <2> QED
    BY <2>3, <2>5, <2>6 DEF CoreInv
<1>3. NoAnswer \in Answers /\ NoAnswer.status = "none"
  BY PlainTypes DEF NoAnswer, Statuses
<1>4. NotServed \in [boot : Nat, answer : Answers] /\ NotServed.answer = NoAnswer
  BY <1>3 DEF NotServed
<1>5. NoRequest \in Requests
  BY TransferAssumption DEF NoRequest, Requests, Operations
<1>6. CallTypes
  BY <1>3, <1>4, <1>5 DEF CallTypes
<1>7. NoDownload \in [gen : Nat, hash : Configs, got : Seq(Authors)] /\ NoDownload.got = <<>>
  BY DEF NoDownload, Configs, Whole, Authors
<1>8. FlowTypes
  BY <1>7 DEF FlowTypes, Outcomes
<1>9. ASSUME NEW e \in Editors
      PROVE  EditorInv(e)
  <2>1. CallInv(e)
    BY <1>3, <1>4 DEF CallInv, Honest
  <2>2. DownloadInv(e)
    BY <1>7, TransferAssumption DEF DownloadInv
  <2> QED
    BY <2>1, <2>2 DEF EditorInv, OutcomeInv, Recorded
<1> QED
  BY <1>2, <1>6, <1>8, <1>9 DEF Inv, CallsInv

LEMMA StepKeeps == Inv /\ [Next]_vars => Inv'
<1> SUFFICES ASSUME Inv, [Next]_vars PROVE Inv'
  OBVIOUS
<1>1. ASSUME NEW e \in Editors,
             \/ ServeGet(e) \/ RefuseChunk(e) \/ StoreChunk(e)
             \/ Validate(e) \/ RefuseApply(e) \/ AcceptApply(e)
      PROVE  Inv'
  BY <1>1, ServeGetKeeps, RefuseChunkKeeps, StoreChunkKeeps, ValidateKeeps, AcceptApplyKeeps
<1>2. ASSUME NEW e \in Editors, Lose(e) \/ Resend(e) \/ Start(e)
      PROVE  Inv'
  BY <1>2, LoseKeeps, ResendKeeps, StartKeeps
<1>3. ASSUME NEW e \in Editors, Flow(e)
      PROVE  Inv'
  BY <1>3, NextChunkKeeps, ValidatedKeeps, NotValidatedKeeps, NoOpKeeps, ConsultKeeps,
     DownloadChunkKeeps, DownloadFailsKeeps, JudgeKeeps, GiveUpKeeps DEF Flow
<1>4. CASE Expire \/ Reboot
  BY <1>4, ExpireKeeps
<1>5. CASE UNCHANGED vars
  <2>1. UNCHANGED <<config, generation, boot, upload, installed>> /\ UNCHANGED <<calls, flow, installed>>
    BY <1>5 DEF vars, core
  <2> QED
    BY <2>1, ConfigIsKept, CallsAreKept DEF Inv
<1> QED
  BY <1>1, <1>2, <1>3, <1>4, <1>5 DEF Next

\* The Core and the editors keep to the invariant, whatever is lost, given up
\* or restarted.
THEOREM DeploymentInvariant == Spec => []Inv
<1> QED
  BY InitHolds, StepKeeps, PTL DEF Spec

\* Types of the Core, of the calls and of the deployments; no request names a
\* chunk that does not exist.
THEOREM DeploymentTypes == Spec => []TypeOK
<1> QED
  BY InvTypes, DeploymentInvariant, PTL

\* What is in force is the whole configuration of one author, however chunks
\* of several transfers meet in the upload slot.
THEOREM ConfigIsWhole == Spec => []WholeConfig
<1>1. Inv => WholeConfig
  BY DEF Inv, CoreInv, CoreTypes, InForce, WholeConfig
<1> QED
  BY <1>1, DeploymentInvariant, PTL

\* A finished download is what its hash stands for.
THEOREM DownloadsAreOne == Spec => []DownloadIsOne
<1>1. Inv => DownloadIsOne
  <2> SUFFICES ASSUME Inv, NEW e \in Editors, Len(download[e].got) = Chunks
               PROVE  download[e].got = download[e].hash
    BY DEF DownloadIsOne
  <2>1. download[e].got \in Seq(Authors) /\ download[e].hash \in Configs
    BY DEF Inv, CallsInv, FlowTypes
  <2>2. \A i \in 1..Chunks : download[e].got[i] = download[e].hash[i]
    BY DEF Inv, CallsInv, EditorInv, DownloadInv
  <2>3. download[e].got = [i \in 1..Chunks |-> download[e].got[i]]
    BY <2>1
  <2>4. download[e].hash = [i \in 1..Chunks |-> download[e].hash[i]]
    BY <2>1 DEF Configs
  <2> QED
    BY <2>2, <2>3, <2>4
<1> QED
  BY <1>1, DeploymentInvariant, PTL

\* Whatever is recorded as deployed has been in force.
THEOREM RecordedWasInForce == Spec => []RecordWasInForce
<1>1. Inv => RecordWasInForce
  BY DEF Inv, CallsInv, EditorInv, OutcomeInv, RecordWasInForce
<1> QED
  BY <1>1, DeploymentInvariant, PTL

\* Only an accepted application changes what is in force.
LEMMA OnlyApplyInstalls ==
    ASSUME Next, config' # config
    PROVE  \E e \in Editors : AcceptApply(e)
<1>1. ASSUME NEW e \in Editors, Flow(e)
      PROVE  config' = config
  BY <1>1 DEF Flow, NextChunk, Validated, NotValidated, NoOp, Consult, DownloadChunk,
              DownloadFails, Judge, GiveUp, End, core
<1>2. ASSUME NEW e \in Editors, Lose(e) \/ Resend(e) \/ Start(e)
      PROVE  config' = config
  BY <1>2 DEF Lose, Resend, Start, core
<1>3. ASSUME NEW e \in Editors,
             ServeGet(e) \/ RefuseChunk(e) \/ StoreChunk(e) \/ Validate(e) \/ RefuseApply(e)
      PROVE  config' = config
  BY <1>3 DEF ServeGet, RefuseChunk, StoreChunk, Validate, RefuseApply
<1>4. ASSUME Expire \/ Reboot
      PROVE  config' = config
  BY <1>4 DEF Expire, Reboot
<1> QED
  BY <1>1, <1>2, <1>3, <1>4 DEF Next

\* An outcome that tells what became of a deployment is final: nothing of it
\* is under way any more.
THEOREM VerdictsAreFinal == Spec => VerdictIsFinal
<1>1. ASSUME Inv, [Next]_vars
      PROVE  [\A e \in Editors :
                outcome[e] \notin {"none", "REMOTE_ERROR"} /\ config' # config
                   => config' # Whole(e)]_vars
  <2> SUFFICES ASSUME Next, config' # config, NEW e \in Editors,
                      outcome[e] \notin {"none", "REMOTE_ERROR"}
               PROVE  config' # Whole(e)
    BY <1>1
  <2>1. PICK f \in Editors : AcceptApply(f)
    BY OnlyApplyInstalls
  <2>2. config' = Whole(f) /\ inbox[f] # <<>>
    BY <1>1, <2>1, AcceptApplyKeeps
  <2>3. inbox[e] = <<>>
    BY <1>1 DEF Inv, CallsInv, EditorInv, OutcomeInv
  <2> QED
    BY <2>2, <2>3, WholeTells
<1> QED
  BY <1>1, DeploymentInvariant, PTL DEF Spec, VerdictIsFinal
-----------------------------------------------------------------------------
(* Hardware tests write the configuration of a Core beside the deployments.   *)
(* Test is their specification: generation and boot are the Core's here too,  *)
(* and inbox, waiting, reply and expected those of the tests; what their user *)
(* sees and is promised is TestVerdicts.  What is proved is proved for every  *)
(* set of tests.                                                              *)

CONSTANT MaxForeign

VARIABLES pins, foreign, active, final, tried

Test == INSTANCE HardwareTest

\* What TestAssumption says of the author of no test
NobodyTests == Nobody \notin Recipes \cup Displays

\* A test that holds the lock
Busy(t) == stage[t] \notin {"idle", "ended"}

\* Nothing was written
Early == {"idle", "parking", "preparing", "refreshing", "asking"}

\* What test t took out is back, or was never taken.
Clean(t) ==
    \/ stage[t] \in Early
    \/ stage[t] = "ended" /\ result[t] # "left"
    \/ stage[t] = "restoring" /\ reply[t].status = "ok"

\* A configuration of a test has been given up by it.
GivenUp(c) == c.of # Nobody => result[c.of] = "left"

Alone ==
    /\ \A t \in Test!Tests : Busy(t) => active
    /\ \A t, u \in Test!Tests : Busy(t) /\ Busy(u) => t = u

Verdicts == \A t \in Test!Tests : stage[t] = "ended" <=> result[t] # "none"

Parking == \A t \in Test!Tests : stage[t] = "parking" => GivenUp(reply[t].config)

\* Neither the Core nor a request under way has a configuration of a clean test.
CleanStays ==
    \A t \in Test!Tests : Clean(t) =>
        live.of # t /\ \A i \in 1..Len(inbox) : inbox[i].config.of # t

OwnOrGivenUp ==
    \A i \in 1..Len(inbox) : inbox[i].config.of = inbox[i].by \/ GivenUp(inbox[i].config)

\* The answer that a restoring test awaits is that to its newest request.
RestoreIsLast ==
    \A t \in Test!Tests : stage[t] = "restoring" /\ waiting[t] =>
        \A i \in 1..Len(inbox) :
            inbox[i].by = t /\ (\A j \in (i + 1)..Len(inbox) : inbox[j].by # t)
                => inbox[i].op = "apply" /\ inbox[i].config = parked[t]

TestInv ==
    /\ Test!TypeOK
    /\ Alone
    /\ Verdicts
    /\ Test!ParksTheUsers
    /\ Parking
    /\ CleanStays
    /\ OwnOrGivenUp
    /\ RestoreIsLast

\* Test t goes to step p, with w and r in place of its call; pointwise
Moved(t, p, w, r) ==
    /\ stage' \in [Test!Tests -> Test!Steps]
    /\ waiting' \in [Test!Tests -> BOOLEAN]
    /\ reply' \in [Test!Tests -> Test!Replies]
    /\ stage'[t] = p /\ waiting'[t] = w /\ reply'[t] = r
    /\ \A u \in Test!Tests \ {t} : stage'[u] = stage[u] /\ waiting'[u] = waiting[u] /\ reply'[u] = reply[u]

Appended(q) ==
    /\ inbox' \in Seq(Test!Requests)
    /\ Len(inbox') = Len(inbox) + 1
    /\ inbox'[Len(inbox) + 1] = q
    /\ \A i \in 1..Len(inbox) : inbox'[i] = inbox[i]

TestBook ==
    /\ expected' \in [Test!Tests -> Nat]
    /\ final' \in [Test!Tests -> BOOLEAN]
    /\ tried' \in [Test!Tests -> BOOLEAN]

LEMMA TestConfigs ==
    /\ \A c \in Test!Configs : c.of \in Test!Tests \cup {Nobody}
    /\ Test!Users("user") \in Test!Configs /\ Test!Users("user").of = Nobody
    /\ Test!Users("empty") \in Test!Configs /\ Test!Users("empty").of = Nobody
    /\ Test!Users("foreign") \in Test!Configs /\ Test!Users("foreign").of = Nobody
    /\ \A t \in Test!Tests, k \in {"bare", "trial"} : Test!Of(t, k) \in Test!Configs /\ Test!Of(t, k).of = t
<1>1. \A c \in Test!Configs : c.of \in Test!Tests \cup {Nobody}
  BY DEF Test!Configs
<1>2. \A k \in {"user", "empty", "foreign"} : Test!Users(k) \in Test!Configs /\ Test!Users(k).of = Nobody
  BY DEF Test!Configs, Test!Users
<1>3. \A t \in Test!Tests, k \in {"bare", "trial"} : Test!Of(t, k) \in Test!Configs /\ Test!Of(t, k).of = t
  BY DEF Test!Configs, Test!Of
<1> QED
  BY <1>1, <1>2, <1>3

LEMMA TestReplies ==
    \A s \in {"none", "ok", "error"} :
        /\ Test!Reply(s) \in Test!Replies
        /\ Test!Reply(s).status = s
        /\ Test!Reply(s).config.of = Nobody
BY TestConfigs DEF Test!Reply, Test!Replies

LEMMA TestRequests ==
    /\ \A q \in Test!Requests :
           q.by \in Test!Tests /\ q.gen \in Nat /\ q.config \in Test!Configs
    /\ \A t \in Test!Tests, op \in {"get", "ask", "physical"} :
           /\ Test!Request(t, op) \in Test!Requests
           /\ Test!Request(t, op).by = t
           /\ Test!Request(t, op).config.of = Nobody
    /\ \A t \in Test!Tests, n \in Nat, c \in Test!Configs :
           /\ Test!Apply(t, n, c) \in Test!Requests
           /\ Test!Apply(t, n, c).by = t
           /\ Test!Apply(t, n, c).op = "apply"
           /\ Test!Apply(t, n, c).config = c
<1>1. \A q \in Test!Requests :
          q.by \in Test!Tests /\ q.gen \in Nat /\ q.config \in Test!Configs
  BY DEF Test!Requests
<1>2. ASSUME NEW t \in Test!Tests, NEW op \in {"get", "ask", "physical"}
      PROVE  /\ Test!Request(t, op) \in Test!Requests
             /\ Test!Request(t, op).by = t
             /\ Test!Request(t, op).config.of = Nobody
  BY TestConfigs DEF Test!Requests, Test!Request
<1>3. ASSUME NEW t \in Test!Tests, NEW n \in Nat, NEW c \in Test!Configs
      PROVE  /\ Test!Apply(t, n, c) \in Test!Requests
             /\ Test!Apply(t, n, c).by = t
             /\ Test!Apply(t, n, c).op = "apply"
             /\ Test!Apply(t, n, c).config = c
  BY <1>3 DEF Test!Requests, Test!Apply
<1> QED
  BY <1>1, <1>2, <1>3

LEMMA TestCalls ==
    ASSUME Test!TypeOK, NEW t \in Test!Tests, NEW q \in Test!Requests, NEW p \in Test!Steps,
           Test!Call(t, q, p)
    PROVE  /\ Moved(t, p, TRUE, Test!Reply("none"))
           /\ Appended(q)
           /\ UNCHANGED <<live, generation, pins, boot, foreign>>
<1>1. Moved(t, p, TRUE, Test!Reply("none"))
  BY TestReplies DEF Test!Call, Test!TypeOK, Moved
<1>2. inbox \in Seq(Test!Requests) /\ inbox' = Append(inbox, q)
  BY DEF Test!Call, Test!TypeOK
<1>3. Appended(q)
  BY <1>2, AppendProperties DEF Appended
<1> QED
  BY <1>1, <1>3 DEF Test!Call

LEMMA TestContinues ==
    ASSUME Test!TypeOK, NEW t \in Test!Tests, NEW p \in Test!Steps,
           Test!Continue(t, p)
    PROVE  /\ Moved(t, p, FALSE, Test!Reply("none"))
           /\ UNCHANGED <<live, generation, pins, boot, foreign, inbox>>
BY TestReplies DEF Test!Continue, Test!TypeOK, Moved, Test!core


LEMMA TestTypes ==
    ASSUME Test!TypeOK
    PROVE  /\ live.of \in Test!Tests \cup {Nobody}
           /\ \A i \in 1..Len(inbox) :
                  /\ inbox[i] \in Test!Requests
                  /\ inbox[i].by \in Test!Tests
                  /\ inbox[i].config \in Test!Configs
                  /\ inbox[i].config.of \in Test!Tests \cup {Nobody}
           /\ \A t \in Test!Tests :
                  /\ parked[t] \in Test!Configs /\ parked[t].of \in Test!Tests \cup {Nobody}
                  /\ reply[t] \in Test!Replies
                  /\ reply[t].config \in Test!Configs
                  /\ reply[t].config.of \in Test!Tests \cup {Nobody}
                  /\ reply[t].gen \in Nat
                  /\ expected[t] \in Nat
<1>1. live.of \in Test!Tests \cup {Nobody}
  BY TestConfigs DEF Test!TypeOK
<1>2. ASSUME NEW i \in 1..Len(inbox)
      PROVE  /\ inbox[i] \in Test!Requests
             /\ inbox[i].by \in Test!Tests
             /\ inbox[i].config \in Test!Configs
             /\ inbox[i].config.of \in Test!Tests \cup {Nobody}
  <2>1. inbox[i] \in Test!Requests
    BY <1>2 DEF Test!TypeOK
  <2> QED
    BY <2>1, TestRequests, TestConfigs
<1>3. ASSUME NEW t \in Test!Tests
      PROVE  /\ parked[t] \in Test!Configs /\ parked[t].of \in Test!Tests \cup {Nobody}
             /\ reply[t] \in Test!Replies
             /\ reply[t].config \in Test!Configs
             /\ reply[t].config.of \in Test!Tests \cup {Nobody}
             /\ reply[t].gen \in Nat
             /\ expected[t] \in Nat
  <2>1. parked[t] \in Test!Configs /\ reply[t] \in Test!Replies /\ expected[t] \in Nat
    BY <1>3 DEF Test!TypeOK
  <2>2. reply[t].config \in Test!Configs /\ reply[t].gen \in Nat
    BY <2>1 DEF Test!Replies
  <2> QED
    BY <2>1, <2>2, TestConfigs
<1> QED
  BY <1>1, <1>2, <1>3

\* A call of the test that holds the lock, or takes it
LEMMA Sending ==
    ASSUME TestInv, NobodyTests,
           NEW t \in Test!Tests, NEW q \in Test!Requests, NEW p \in Test!Steps \ {"idle", "ended"},
           Moved(t, p, TRUE, Test!Reply("none")), Appended(q), TestBook,
           UNCHANGED <<live, generation, pins, boot, foreign, result>>,
           active' \in BOOLEAN, active',
           Busy(t) \/ (stage[t] = "idle" /\ ~active),
           q.by = t,
           q.config.of = Nobody \/ (p \notin Early /\ (q.config.of = t \/ q.config = parked[t])),
           p \in Early => stage[t] \in Early,
           p = "restoring" => parked' = parked /\ q.op = "apply" /\ q.config = parked[t],
           parked' \in [Test!Tests -> Test!Configs],
           \A u \in Test!Tests :
               parked'[u] = parked[u] \/ (u = t /\ stage[t] = "parking" /\ parked'[t] = reply[t].config)
    PROVE  TestInv'
<1>t. Test!TypeOK /\ q.config \in Test!Configs /\ t # Nobody /\ stage[t] # "ended"
  BY TestRequests DEF TestInv, NobodyTests, Test!Tests, Busy
<1>1. Test!TypeOK'
  BY <1>t DEF Test!TypeOK, Moved, Appended, TestBook
<1>2. Alone'
  <2>1. \A u \in Test!Tests : Busy(u)' => u = t \/ Busy(u)
    BY DEF Moved, Busy
  <2>2. \A u \in Test!Tests : Busy(u) => u = t
    BY DEF TestInv, Alone
  <2> QED
    BY <2>1, <2>2 DEF Alone
<1>3. Verdicts'
  BY <1>t DEF TestInv, Verdicts, Moved
<1>4. Test!ParksTheUsers'
  <2> SUFFICES ASSUME NEW u \in Test!Tests, parked'[u].of # Nobody
               PROVE  parked'[u].of # u /\ result[parked'[u].of] = "left"
    BY DEF Test!ParksTheUsers
  <2>1. CASE parked'[u] = parked[u]
    BY <2>1 DEF TestInv, Test!ParksTheUsers
  <2>2. CASE u = t /\ stage[t] = "parking" /\ parked'[t] = reply[t].config
    <3>1. result[reply[t].config.of] = "left"
      BY <2>2 DEF TestInv, Parking, GivenUp
    <3>2. result[t] = "none"
      BY <1>t DEF TestInv, Verdicts
    <3> QED
      BY <2>2, <3>1, <3>2
  <2> QED
    BY <2>1, <2>2
<1>5. Parking'
  BY TestReplies DEF TestInv, Parking, GivenUp, Moved
<1>6. CleanStays'
  <2> SUFFICES ASSUME NEW u \in Test!Tests, Clean(u)'
               PROVE  live.of # u /\ \A i \in 1..(Len(inbox) + 1) : inbox'[i].config.of # u
    BY DEF CleanStays, Appended
  <2>1. Clean(u)
    BY TestReplies DEF Moved, Clean, Early
  <2>2. live.of # u /\ \A i \in 1..Len(inbox) : inbox[i].config.of # u
    BY <2>1 DEF TestInv, CleanStays
  <2>3. q.config.of # u
    <3>1. CASE q.config.of = Nobody
      BY <3>1 DEF NobodyTests, Test!Tests
    <3>2. CASE p \notin Early /\ q.config.of = t
      <4>1. u # t
        BY <3>2, TestReplies DEF Moved, Clean
      <4> QED
        BY <3>2, <4>1
    <3>3. CASE p \notin Early /\ q.config = parked[t] /\ parked[t].of # Nobody
      <4>1. parked[t].of # t /\ result[parked[t].of] = "left"
        BY <3>3 DEF TestInv, Test!ParksTheUsers
      <4>2. parked[t].of \in Test!Tests
        BY <1>t, <3>3, TestTypes
      <4>3. stage[parked[t].of] = "ended"
        BY <4>1, <4>2 DEF TestInv, Verdicts
      <4>4. u # parked[t].of
        BY <2>1, <4>1, <4>3 DEF Clean, Early
      <4> QED
        BY <3>3, <4>4
    <3> QED
      BY <3>1, <3>2, <3>3
  <2>l. Len(inbox) \in Nat
    BY <1>t DEF Test!TypeOK
  <2>4. ASSUME NEW i \in 1..(Len(inbox) + 1)
        PROVE  inbox'[i].config.of # u
    <3>1. CASE i \in 1..Len(inbox)
      BY <2>2, <3>1 DEF Appended
    <3>2. CASE i = Len(inbox) + 1
      BY <2>3, <3>2 DEF Appended
    <3> QED
      BY <2>l, <3>1, <3>2
  <2> QED
    BY <2>2, <2>4
<1>7. OwnOrGivenUp'
  <2> SUFFICES ASSUME NEW i \in 1..(Len(inbox) + 1)
               PROVE  inbox'[i].config.of = inbox'[i].by \/ GivenUp(inbox'[i].config)
    BY DEF OwnOrGivenUp, Appended, GivenUp
  <2>l. Len(inbox) \in Nat
    BY <1>t DEF Test!TypeOK
  <2>1. CASE i \in 1..Len(inbox)
    BY <2>1 DEF TestInv, OwnOrGivenUp, Appended
  <2>2. CASE i = Len(inbox) + 1
    <3>1. inbox'[i] = q
      BY <2>2 DEF Appended
    <3>2. GivenUp(parked[t])
      BY DEF TestInv, Test!ParksTheUsers, GivenUp
    <3>3. q.config.of = t \/ GivenUp(q.config)
      BY <3>2 DEF GivenUp
    <3> QED
      BY <3>1, <3>3
  <2> QED
    BY <2>l, <2>1, <2>2
<1>8. RestoreIsLast'
  <2> SUFFICES ASSUME NEW u \in Test!Tests, stage'[u] = "restoring", waiting'[u],
                      NEW i \in 1..(Len(inbox) + 1), inbox'[i].by = u,
                      \A j \in (i + 1)..(Len(inbox) + 1) : inbox'[j].by # u
               PROVE  inbox'[i].op = "apply" /\ inbox'[i].config = parked'[u]
    BY DEF RestoreIsLast, Appended
  <2>l. Len(inbox) \in Nat
    BY <1>t DEF Test!TypeOK
  <2>1. CASE u = t
    <3>1. p = "restoring"
      BY <2>1 DEF Moved
    <3>2. i = Len(inbox) + 1
      BY <2>l, <2>1 DEF Appended
    <3> QED
      BY <2>1, <3>1, <3>2 DEF Appended
  <2>2. CASE u # t
    <3>1. stage[u] = "restoring" /\ waiting[u] /\ parked'[u] = parked[u]
      BY <2>2 DEF Moved
    <3>2. i # Len(inbox) + 1
      BY <2>2 DEF Appended
    <3>3. i \in 1..Len(inbox) /\ inbox'[i] = inbox[i]
      BY <2>l, <3>2 DEF Appended
    <3>4. \A j \in (i + 1)..Len(inbox) : inbox[j].by # u
      BY <2>l, <3>3 DEF Appended
    <3> QED
      BY <3>1, <3>3, <3>4 DEF TestInv, RestoreIsLast
  <2> QED
    BY <2>1, <2>2
<1> QED
  BY <1>1, <1>2, <1>3, <1>4, <1>5, <1>6, <1>7, <1>8 DEF TestInv

\* A step without a call of a test that does not end, or a call given up
LEMMA Staying ==
    ASSUME TestInv, NobodyTests, NEW t \in Test!Tests, NEW p \in Test!Steps, NEW r \in Test!Replies,
           Moved(t, p, FALSE, r), TestBook,
           UNCHANGED <<live, generation, pins, boot, foreign, inbox, active, parked, result>>,
           r.status # "ok", r.config.of = Nobody,
           p = stage[t] \/ (Busy(t) /\ p \notin Early \cup {"ended", "restoring"})
    PROVE  TestInv'
<1>t. Test!TypeOK
  BY DEF TestInv
<1>1. Test!TypeOK'
  BY <1>t DEF Test!TypeOK, Moved, TestBook
<1>2. Alone'
  <2>1. \A u \in Test!Tests : Busy(u)' => Busy(u)
    BY DEF Moved, Busy
  <2> QED
    BY <2>1 DEF TestInv, Alone
<1>3. Verdicts'
  BY DEF TestInv, Verdicts, Moved, Busy
<1>4. Test!ParksTheUsers'
  BY DEF TestInv, Test!ParksTheUsers
<1>5. Parking'
  BY DEF TestInv, Parking, GivenUp, Moved, Early
<1>6. CleanStays'
  <2>1. \A u \in Test!Tests : Clean(u)' => Clean(u)
    BY DEF Moved, Clean, Early
  <2> QED
    BY <2>1 DEF TestInv, CleanStays
<1>7. OwnOrGivenUp'
  BY DEF TestInv, OwnOrGivenUp, GivenUp
<1>8. RestoreIsLast'
  BY DEF TestInv, RestoreIsLast, Moved
<1> QED
  BY <1>1, <1>2, <1>3, <1>4, <1>5, <1>6, <1>7, <1>8 DEF TestInv

\* A test ends with verdict v.
LEMMA Ending ==
    ASSUME TestInv, NobodyTests, NEW t \in Test!Tests, NEW v \in Test!Results \ {"none"},
           Moved(t, "ended", FALSE, Test!Reply("none")), TestBook,
           UNCHANGED <<live, generation, pins, boot, foreign, inbox, parked>>,
           result' = [result EXCEPT ![t] = v],
           active' \in BOOLEAN, Busy(t) \/ (stage[t] = "idle" /\ active' = active),
           v = "left" \/ Clean(t)
    PROVE  TestInv'
<1>t. Test!TypeOK /\ stage[t] # "ended"
  BY DEF TestInv, Busy
<1>r. result' \in [Test!Tests -> Test!Results] /\ result'[t] = v
      /\ \A u \in Test!Tests \ {t} : result'[u] = result[u]
  BY <1>t DEF Test!TypeOK
<1>l. \A u \in Test!Tests : result[u] = "left" => result'[u] = "left"
  BY <1>t, <1>r DEF TestInv, Verdicts
<1>g. \A c \in Test!Configs : GivenUp(c) => GivenUp(c)'
  BY <1>l, TestConfigs DEF GivenUp
<1>1. Test!TypeOK'
  BY <1>t, <1>r DEF Test!TypeOK, Moved, TestBook
<1>2. Alone'
  <2>1. \A u \in Test!Tests : Busy(u)' => Busy(u) /\ u # t
    BY DEF Moved, Busy
  <2>2. CASE Busy(t)
    <3>1. \A u \in Test!Tests : ~Busy(u)'
      BY <2>1, <2>2 DEF TestInv, Alone
    <3> QED
      BY <3>1 DEF Alone
  <2>3. CASE active' = active
    BY <2>1, <2>3 DEF TestInv, Alone
  <2> QED
    BY <2>2, <2>3
<1>3. Verdicts'
  BY <1>r DEF TestInv, Verdicts, Moved
<1>4. Test!ParksTheUsers'
  BY <1>t, <1>l, TestTypes DEF TestInv, Test!ParksTheUsers
<1>5. Parking'
  <2> SUFFICES ASSUME NEW u \in Test!Tests, stage'[u] = "parking"
               PROVE  GivenUp(reply[u].config)' /\ reply'[u] = reply[u]
    BY DEF Parking, GivenUp
  <2>1. u # t /\ stage[u] = "parking" /\ reply'[u] = reply[u]
    BY DEF Moved
  <2>2. GivenUp(reply[u].config) /\ reply[u].config \in Test!Configs
    BY <1>t, <2>1, TestTypes DEF TestInv, Parking
  <2>3. reply'[u].config.of # Nobody => result'[reply'[u].config.of] = "left"
    BY <1>t, <1>l, <2>1, <2>2, TestTypes DEF GivenUp
  <2> QED
    BY <2>1, <2>3 DEF GivenUp
<1>6. CleanStays'
  <2>1. \A u \in Test!Tests : Clean(u)' => Clean(u)
    BY <1>r DEF Moved, Clean, Early
  <2> QED
    BY <2>1 DEF TestInv, CleanStays
<1>7. OwnOrGivenUp'
  <2> SUFFICES ASSUME NEW i \in 1..Len(inbox)
               PROVE  inbox[i].config.of = inbox[i].by \/
                      (inbox[i].config.of # Nobody => result'[inbox[i].config.of] = "left")
    BY DEF OwnOrGivenUp, GivenUp
  <2> QED
    BY <1>t, <1>l, TestTypes DEF TestInv, OwnOrGivenUp, GivenUp
<1>8. RestoreIsLast'
  BY DEF TestInv, RestoreIsLast, Moved
<1> QED
  BY <1>1, <1>2, <1>3, <1>4, <1>5, <1>6, <1>7, <1>8 DEF TestInv


-----------------------------------------------------------------------------
(* What the Core does to the tests *)

\* The configuration of a test is in force only while the test has the lock,
\* or after it was given up.
LEMMA LiveIsOwned ==
    ASSUME TestInv, live.of # Nobody
    PROVE  Busy(live.of) \/ result[live.of] = "left"
<1>1. live.of \in Test!Tests
  BY TestTypes DEF TestInv
<1>2. ~Clean(live.of)
  BY <1>1 DEF TestInv, CleanStays
<1> QED
  BY <1>2 DEF Clean, Busy, Early

\* What an answer does to the page
LEMMA AnswersMove ==
    ASSUME Test!TypeOK, inbox # << >>, NEW r \in Test!Replies, Test!Answer(r)
    PROVE  /\ inbox' \in Seq(Test!Requests)
           /\ Len(inbox) \in Nat \ {0} /\ Len(inbox') = Len(inbox) - 1
           /\ \A i \in 1..Len(inbox') : inbox'[i] = inbox[i + 1]
           /\ UNCHANGED <<boot, foreign, active, stage, waiting, parked, expected, final, tried, result>>
           /\ reply' \in [Test!Tests -> Test!Replies]
           /\ \A t \in Test!Tests :
                  \/ reply'[t] = reply[t]
                  \/ /\ reply'[t] = r
                     /\ waiting[t]
                     /\ inbox[1].by = t
                     /\ \A i \in 2..Len(inbox) : inbox[i].by # t
<1>1. inbox \in Seq(Test!Requests) /\ inbox' = Tail(inbox)
  BY DEF Test!Answer, Test!TypeOK
<1>2. /\ inbox' \in Seq(Test!Requests)
      /\ Len(inbox) \in Nat \ {0} /\ Len(inbox') = Len(inbox) - 1
      /\ \A i \in 1..Len(inbox') : inbox'[i] = inbox[i + 1]
  <2>1. Len(inbox) \in Nat /\ Len(inbox) # 0
    BY <1>1
  <2> QED
    BY <1>1, <2>1, HeadTailProperties
<1>3. UNCHANGED <<boot, foreign, active, stage, waiting, parked, expected, final, tried, result>>
  BY DEF Test!Answer, Test!book
<1>4. PICK t \in Test!Tests : t = inbox[1].by
  <2>1. inbox[1] \in Test!Requests
    BY <1>1, <1>2
  <2> QED
    BY <2>1, TestRequests
<1>5. \/ reply' = reply
      \/ /\ reply' = [reply EXCEPT ![t] = r]
         /\ waiting[t]
         /\ \A i \in 2..Len(inbox) : inbox[i].by # t
  BY <1>1, <1>4 DEF Test!Answer
<1>6. reply \in [Test!Tests -> Test!Replies]
  BY DEF Test!TypeOK
<1>7. CASE reply' = reply
  BY <1>2, <1>3, <1>6, <1>7
<1>8. CASE reply' # reply
  <2>1. /\ reply' \in [Test!Tests -> Test!Replies]
        /\ reply'[t] = r
        /\ \A u \in Test!Tests \ {t} : reply'[u] = reply[u]
    BY <1>5, <1>6, <1>8
  <2> QED
    BY <1>2, <1>3, <1>4, <1>5, <1>8, <2>1
<1> QED
  BY <1>7, <1>8

\* An answer, lost or not; what the Core has after it has its author still at
\* work, and what it has done is what was asked.
LEMMA Answering ==
    ASSUME TestInv, NobodyTests, inbox # << >>, NEW r \in Test!Replies, Test!Answer(r),
           live' \in Test!Configs, generation' \in Nat \ {0}, pins' \in BOOLEAN,
           live' = live \/ live' = inbox[1].config,
           r.config.of = Nobody \/ r.config = live,
           r.status = "ok" /\ inbox[1].op = "apply" => live' = inbox[1].config
    PROVE  TestInv'
<1>t. Test!TypeOK
  BY DEF TestInv
<1>a. /\ inbox' \in Seq(Test!Requests)
      /\ Len(inbox) \in Nat \ {0} /\ Len(inbox') = Len(inbox) - 1
      /\ \A i \in 1..Len(inbox') : inbox'[i] = inbox[i + 1]
      /\ UNCHANGED <<boot, foreign, active, stage, waiting, parked, expected, final, tried, result>>
      /\ reply' \in [Test!Tests -> Test!Replies]
  BY <1>t, AnswersMove
<1>b. ASSUME NEW t \in Test!Tests, reply'[t] # reply[t]
      PROVE  /\ reply'[t] = r
             /\ waiting[t]
             /\ inbox[1].by = t
             /\ \A i \in 2..Len(inbox) : inbox[i].by # t
  BY <1>b, <1>t, AnswersMove
<1>1. Test!TypeOK'
  BY <1>t, <1>a DEF Test!TypeOK
<1>2. Alone'
  BY <1>a DEF TestInv, Alone, Busy
<1>3. Verdicts'
  BY <1>a DEF TestInv, Verdicts
<1>4. Test!ParksTheUsers'
  BY <1>a DEF TestInv, Test!ParksTheUsers
<1>5. Parking'
  <2> SUFFICES ASSUME NEW t \in Test!Tests, stage[t] = "parking", reply'[t].config.of # Nobody
               PROVE  result[reply'[t].config.of] = "left"
    BY <1>a DEF Parking, GivenUp
  <2>1. CASE reply'[t] = reply[t]
    BY <2>1 DEF TestInv, Parking, GivenUp
  <2>2. CASE reply'[t] # reply[t]
    <3>1. reply'[t].config = live
      BY <1>b, <2>2
    <3>2. Busy(live.of) \/ result[live.of] = "left"
      BY <3>1, LiveIsOwned
    <3>3. live.of \in Test!Tests
      BY <1>t, <3>1, TestTypes
    <3>4. live.of # t
      BY DEF TestInv, CleanStays, Clean, Early
    <3>5. ~Busy(live.of)
      BY <3>3, <3>4 DEF TestInv, Alone, Busy
    <3> QED
      BY <3>1, <3>2, <3>5
  <2> QED
    BY <2>1, <2>2
<1>6. CleanStays'
  <2> SUFFICES ASSUME NEW t \in Test!Tests, Clean(t)'
               PROVE  live'.of # t /\ \A i \in 1..Len(inbox') : inbox'[i].config.of # t
    BY DEF CleanStays
  <2>1. CASE Clean(t)
    <3>1. live.of # t /\ \A i \in 1..Len(inbox) : inbox[i].config.of # t
      BY <2>1 DEF TestInv, CleanStays
    <3>2. inbox[1].config.of # t
      BY <1>a, <3>1
    <3>3. \A i \in 1..Len(inbox') : i + 1 \in 1..Len(inbox)
      BY <1>a
    <3> QED
      BY <1>a, <3>1, <3>2, <3>3
  <2>2. CASE ~Clean(t)
    <3>1. stage[t] = "restoring" /\ reply'[t].status = "ok" /\ reply'[t] # reply[t]
      BY <1>a, <2>2 DEF Clean
    <3>2. r.status = "ok" /\ waiting[t] /\ inbox[1].by = t /\ \A i \in 2..Len(inbox) : inbox[i].by # t
      BY <1>b, <3>1
    <3>3. 1 \in 1..Len(inbox) /\ \A j \in (1 + 1)..Len(inbox) : inbox[j].by # t
      BY <1>a, <3>2
    <3>4. inbox[1].op = "apply" /\ inbox[1].config = parked[t]
      BY <3>1, <3>2, <3>3 DEF TestInv, RestoreIsLast
    <3>5. live' = parked[t]
      BY <3>2, <3>4
    <3>6. parked[t].of # t
      BY DEF TestInv, Test!ParksTheUsers, NobodyTests, Test!Tests
    <3>7. ASSUME NEW i \in 1..Len(inbox')
          PROVE  inbox'[i].config.of # t
      <4>1. i + 1 \in 2..Len(inbox) /\ i + 1 \in 1..Len(inbox) /\ inbox'[i] = inbox[i + 1]
        BY <1>a
      <4>2. inbox[i + 1].by # t
        BY <3>2, <4>1
      <4>3. inbox[i + 1].config.of = inbox[i + 1].by \/ GivenUp(inbox[i + 1].config)
        BY <4>1 DEF TestInv, OwnOrGivenUp
      <4>4. result[t] = "none" /\ t # Nobody
        BY <3>1 DEF TestInv, Verdicts, NobodyTests, Test!Tests
      <4> QED
        BY <4>1, <4>2, <4>3, <4>4 DEF GivenUp
    <3> QED
      BY <3>5, <3>6, <3>7
  <2> QED
    BY <2>1, <2>2
<1>7. OwnOrGivenUp'
  <2>1. \A i \in 1..Len(inbox') : i + 1 \in 1..Len(inbox)
    BY <1>a
  <2> QED
    BY <1>a, <2>1 DEF TestInv, OwnOrGivenUp, GivenUp
<1>8. RestoreIsLast'
  <2> SUFFICES ASSUME NEW t \in Test!Tests, stage[t] = "restoring", waiting[t],
                      NEW i \in 1..Len(inbox'), inbox'[i].by = t,
                      \A j \in (i + 1)..Len(inbox') : inbox'[j].by # t
               PROVE  inbox'[i].op = "apply" /\ inbox'[i].config = parked[t]
    BY <1>a DEF RestoreIsLast
  <2>1. i + 1 \in 1..Len(inbox) /\ inbox'[i] = inbox[i + 1]
    BY <1>a
  <2>2. ASSUME NEW j \in ((i + 1) + 1)..Len(inbox)
        PROVE  inbox[j].by # t
    <3>1. j - 1 \in (i + 1)..Len(inbox') /\ j - 1 \in 1..Len(inbox') /\ (j - 1) + 1 = j
      BY <1>a
    <3> QED
      BY <1>a, <3>1
  <2> QED
    BY <2>1, <2>2 DEF TestInv, RestoreIsLast
<1> QED
  BY <1>1, <1>2, <1>3, <1>4, <1>5, <1>6, <1>7, <1>8 DEF TestInv

\* Another writer, or a restart, which brings back the configuration in force
LEMMA Disturbing ==
    ASSUME TestInv, NobodyTests,
           generation' \in Nat \ {0}, boot' \in Nat, foreign' \in Nat,
           UNCHANGED <<pins, active, stage, waiting, reply, parked, expected, final, tried, result>>,
           live' = live \/ live' = Test!Users("foreign"),
           inbox' = inbox \/ inbox' = << >>
    PROVE  TestInv'
<1>1. Test!TypeOK'
  <2>1. << >> \in Seq(Test!Requests)
    OBVIOUS
  <2> QED
    BY <2>1, TestConfigs DEF TestInv, Test!TypeOK
<1>2. Alone'
  BY DEF TestInv, Alone, Busy
<1>3. Verdicts'
  BY DEF TestInv, Verdicts
<1>4. Test!ParksTheUsers'
  BY DEF TestInv, Test!ParksTheUsers
<1>5. Parking'
  BY DEF TestInv, Parking, GivenUp
<1>6. CleanStays'
  <2>1. \A t \in Test!Tests : t # Nobody /\ (Clean(t)' => Clean(t))
    BY DEF NobodyTests, Test!Tests, Clean
  <2> QED
    BY <2>1, TestConfigs DEF TestInv, CleanStays
<1>7. OwnOrGivenUp'
  BY DEF TestInv, OwnOrGivenUp, GivenUp
<1>8. RestoreIsLast'
  BY DEF TestInv, RestoreIsLast
<1> QED
  BY <1>1, <1>2, <1>3, <1>4, <1>5, <1>6, <1>7, <1>8 DEF TestInv

LEMMA CoreKeepsTests ==
    ASSUME TestInv, NobodyTests,
           \/ Test!ServeRead \/ Test!Accept \/ Test!ApplyPhysical
           \/ Test!Refuse \/ Test!ForeignWrite \/ Test!Reboot
    PROVE  TestInv'
<1>t. Test!TypeOK
  BY DEF TestInv
<1>c. live \in Test!Configs /\ generation \in Nat \ {0} /\ pins \in BOOLEAN /\ boot \in Nat /\ foreign \in Nat
  BY <1>t DEF Test!TypeOK
<1>r. \A s \in {"ok", "error"} :
          Test!Reply(s) \in Test!Replies /\ Test!Reply(s).status = s /\ Test!Reply(s).config.of = Nobody
  BY TestReplies
<1>h. inbox # << >> => inbox[1] = Head(inbox) /\ inbox[1].config \in Test!Configs
  <2>1. inbox # << >> => Len(inbox) \in Nat /\ 1 \in 1..Len(inbox)
    BY <1>t DEF Test!TypeOK
  <2> QED
    BY <1>t, <2>1, TestTypes
<1>1. CASE Test!ServeRead
  <2> DEFINE now == [status |-> "ok", gen |-> generation, config |-> live, pins |-> pins]
  <2>1. inbox # << >> /\ Head(inbox).op # "apply" /\ live' = live /\ generation' = generation /\ pins' = pins
    BY <1>1 DEF Test!ServeRead, Test!Oldest
  <2>2. now \in Test!Replies /\ now.config = live
    BY <1>c DEF Test!Replies
  <2>3. Test!Answer(now) \/ Test!Answer(Test!Reply("error"))
    BY <1>1 DEF Test!ServeRead
  <2>4. CASE Test!Answer(now)
    <3> HIDE DEF now
    <3> QED
      BY <1>c, <1>h, <2>1, <2>2, <2>4, Answering
  <2>5. CASE Test!Answer(Test!Reply("error"))
    BY <1>c, <1>r, <1>h, <2>1, <2>5, Answering
  <2> QED
    BY <2>3, <2>4, <2>5
<1>2. CASE Test!Accept
  <2>1. /\ inbox # << >> /\ live' = Head(inbox).config /\ pins' = pins
        /\ generation' = generation \/ generation' = generation + 1
        /\ Test!Answer(Test!Reply("ok"))
    BY <1>2 DEF Test!Accept, Test!Oldest, Test!Install
  <2>2. generation' \in Nat \ {0} /\ live' \in Test!Configs /\ live' = inbox[1].config
    BY <1>c, <1>h, <2>1
  <2> QED
    BY <1>c, <1>r, <1>h, <2>1, <2>2, Answering
<1>3. CASE Test!ApplyPhysical
  <2>1. /\ inbox # << >> /\ Head(inbox).op # "apply" /\ pins' = TRUE /\ live' = live /\ generation' = generation
        /\ Test!Answer(Test!Reply("ok")) \/ Test!Answer(Test!Reply("error"))
    BY <1>3 DEF Test!ApplyPhysical, Test!Oldest
  <2>2. CASE Test!Answer(Test!Reply("ok"))
    BY <1>c, <1>r, <1>h, <2>1, <2>2, Answering
  <2>3. CASE Test!Answer(Test!Reply("error"))
    BY <1>c, <1>r, <1>h, <2>1, <2>3, Answering
  <2> QED
    BY <2>1, <2>2, <2>3
<1>4. CASE Test!Refuse
  <2>1. inbox # << >> /\ pins' = pins /\ live' = live /\ generation' = generation /\ Test!Answer(Test!Reply("error"))
    BY <1>4 DEF Test!Refuse, Test!Oldest
  <2> QED
    BY <1>c, <1>r, <1>h, <2>1, Answering
<1>5. CASE Test!ForeignWrite
  <2>1. generation' = generation \/ generation' = generation + 1
    BY <1>5 DEF Test!ForeignWrite, Test!Install
  <2>2. /\ generation' \in Nat \ {0} /\ boot' \in Nat /\ foreign' \in Nat
        /\ live' = Test!Users("foreign") /\ inbox' = inbox
        /\ UNCHANGED <<pins, active, stage, waiting, reply, parked, expected, final, tried, result>>
    BY <1>5, <1>c, <2>1 DEF Test!ForeignWrite, Test!Install, Test!book
  <2> QED
    BY <2>2, Disturbing
<1>6. CASE Test!Reboot
  <2>1. /\ generation' \in Nat \ {0} /\ boot' \in Nat /\ foreign' \in Nat
        /\ live' = live /\ (inbox' = inbox \/ inbox' = << >>)
        /\ UNCHANGED <<pins, active, stage, waiting, reply, parked, expected, final, tried, result>>
    BY <1>6, <1>c DEF Test!Reboot, Test!book
  <2> QED
    BY <2>1, Disturbing
<1> QED
  BY <1>1, <1>2, <1>3, <1>4, <1>5, <1>6


-----------------------------------------------------------------------------
(* The steps of a test *)

LEMMA BeginKeepsTests ==
    ASSUME TestInv, NobodyTests, NEW t \in Test!Tests, Test!Begin(t) \/ Test!Overlaps(t)
    PROVE  TestInv'
<1>t. Test!TypeOK
  BY DEF TestInv
<1>1. CASE Test!Begin(t)
  <2> DEFINE q == Test!Request(t, "get")
  <2>1. q \in Test!Requests /\ q.by = t /\ q.config.of = Nobody
    BY TestRequests
  <2> HIDE DEF q
  <2>2. /\ stage[t] = "idle" /\ ~active /\ active' = TRUE /\ Test!Call(t, q, "parking")
        /\ UNCHANGED <<parked, expected, final, tried, result>>
    BY <1>1 DEF Test!Begin, Test!book, q
  <2>3. /\ Moved(t, "parking", TRUE, Test!Reply("none"))
        /\ Appended(q)
        /\ UNCHANGED <<live, generation, pins, boot, foreign>>
    BY <1>t, <2>1, <2>2, TestCalls DEF Test!Steps
  <2>4. TestBook /\ parked' \in [Test!Tests -> Test!Configs]
    BY <1>t, <2>2 DEF Test!TypeOK, TestBook
  <2> QED
    BY <2>1, <2>2, <2>3, <2>4, Sending DEF Test!Steps, Early
<1>2. CASE Test!Overlaps(t)
  <2>1. /\ stage[t] = "idle" /\ result' = [result EXCEPT ![t] = "refused"]
        /\ Test!Continue(t, "ended") /\ UNCHANGED <<active, parked, expected, final, tried>>
    BY <1>2 DEF Test!Overlaps
  <2>2. /\ Moved(t, "ended", FALSE, Test!Reply("none"))
        /\ UNCHANGED <<live, generation, pins, boot, foreign, inbox>>
    BY <1>t, <2>1, TestContinues DEF Test!Steps
  <2>3. TestBook /\ active' \in BOOLEAN /\ Clean(t)
    BY <1>t, <2>1 DEF Test!TypeOK, TestBook, Clean, Early
  <2> QED
    BY <2>1, <2>2, <2>3, Ending DEF Test!Results
<1> QED
  BY <1>1, <1>2

\* A busy test sends q and nothing else changes.
LEMMA SimpleCall ==
    ASSUME TestInv, NobodyTests, NEW t \in Test!Tests, Busy(t),
           NEW q \in Test!Requests, NEW p \in Test!Steps \ {"idle", "ended"},
           Test!Call(t, q, p), TestBook, UNCHANGED <<active, parked, result>>,
           q.by = t,
           q.config.of = Nobody \/ (p \notin Early /\ (q.config.of = t \/ q.config = parked[t])),
           p \in Early => stage[t] \in Early,
           p = "restoring" => q.op = "apply" /\ q.config = parked[t]
    PROVE  TestInv'
<1>1. Test!TypeOK /\ active /\ active \in BOOLEAN /\ parked \in [Test!Tests -> Test!Configs]
  BY DEF TestInv, Alone, Test!TypeOK
<1>2. /\ Moved(t, p, TRUE, Test!Reply("none"))
      /\ Appended(q)
      /\ UNCHANGED <<live, generation, pins, boot, foreign>>
  BY <1>1, TestCalls
<1> QED
  BY <1>1, <1>2, Sending

LEMMA SimpleBook ==
    ASSUME Test!TypeOK, NEW t \in Test!Tests,
           expected' = expected \/ \E n \in Nat : expected' = [expected EXCEPT ![t] = n],
           final' = final \/ final' = [final EXCEPT ![t] = TRUE],
           tried' = tried \/ tried' = [tried EXCEPT ![t] = TRUE]
    PROVE  TestBook
BY DEF Test!TypeOK, TestBook

LEMMA ReadsKeepTests ==
    ASSUME TestInv, NobodyTests, NEW t \in Test!Tests,
           Test!Refresh(t) \/ Test!Wire(t) \/ Test!Wired(t) \/ Test!Restore(t)
    PROVE  TestInv'
<1>t. Test!TypeOK
  BY DEF TestInv
<1>1. PICK op \in {"get", "ask", "physical"}, p \in {"refreshing", "released", "wiring", "wired", "rereading"} :
          /\ Test!Call(t, Test!Request(t, op), p)
          /\ Busy(t)
          /\ p \in Early => stage[t] \in Early
          /\ UNCHANGED <<active, parked, result, expected, final>>
          /\ tried' = tried \/ tried' = [tried EXCEPT ![t] = TRUE]
  <2>1. CASE Test!Refresh(t)
    <3>1. stage[t] = "preparing" /\ Test!Call(t, Test!Request(t, "get"), "refreshing")
          /\ UNCHANGED <<active, parked, expected, final, tried, result>>
      BY <2>1 DEF Test!Refresh, Test!At, Test!book
    <3>2. Busy(t) /\ stage[t] \in Early
      BY <3>1 DEF Busy, Early
    <3> QED
      BY <3>1, <3>2
  <2>2. CASE Test!Wire(t)
    <3>1. /\ stage[t] \in {"releasing", "released"}
          /\ \/ Test!Call(t, Test!Request(t, "get"), "released")
             \/ Test!Call(t, Test!Request(t, "physical"), "wiring")
          /\ UNCHANGED <<active, parked, expected, final, tried, result>>
      BY <2>2 DEF Test!Wire, Test!At, Test!book
    <3>2. Busy(t) /\ "released" \notin Early /\ "wiring" \notin Early
      BY <3>1 DEF Busy, Early
    <3> QED
      BY <3>1, <3>2
  <2>3. CASE Test!Wired(t)
    <3>1. stage[t] = "wiring" /\ Test!Call(t, Test!Request(t, "get"), "wired")
          /\ UNCHANGED <<active, parked, expected, final, tried, result>>
      BY <2>3 DEF Test!Wired, Test!At, Test!book
    <3>2. Busy(t) /\ "wired" \notin Early
      BY <3>1 DEF Busy, Early
    <3> QED
      BY <3>1, <3>2
  <2>4. CASE Test!Restore(t)
    <3>1. stage[t] \in {"backoff", "running"} /\ Test!Call(t, Test!Request(t, "get"), "rereading")
          /\ tried' = [tried EXCEPT ![t] = TRUE]
          /\ UNCHANGED <<active, parked, expected, final, result>>
      BY <2>4 DEF Test!Restore
    <3>2. Busy(t) /\ "rereading" \notin Early
      BY <3>1 DEF Busy, Early
    <3> QED
      BY <3>1, <3>2
  <2> QED
    BY <2>1, <2>2, <2>3, <2>4
<1>2. PICK q \in Test!Requests : q = Test!Request(t, op) /\ q.by = t /\ q.config.of = Nobody
  BY TestRequests
<1>3. TestBook
  BY <1>t, <1>1, SimpleBook
<1>4. p \in Test!Steps \ {"idle", "ended"} /\ p # "restoring"
  BY DEF Test!Steps
<1> QED
  BY <1>1, <1>2, <1>3, <1>4, SimpleCall

LEMMA ParkKeepsTests ==
    ASSUME TestInv, NobodyTests, NEW t \in Test!Tests, Test!Park(t)
    PROVE  TestInv'
<1>t. Test!TypeOK
  BY DEF TestInv
<1>1. PICK q \in Test!Requests : q = Test!Request(t, "ask") /\ q.by = t /\ q.config.of = Nobody
  BY TestRequests
<1>2. /\ stage[t] = "parking" /\ Test!Call(t, q, "preparing")
      /\ parked' = [parked EXCEPT ![t] = reply[t].config]
      /\ expected' = [expected EXCEPT ![t] = reply[t].gen]
      /\ UNCHANGED <<active, final, tried, result>>
  BY <1>1 DEF Test!Park, Test!At
<1>3. reply[t].config \in Test!Configs /\ reply[t].gen \in Nat
  BY <1>t, TestTypes
<1>4. /\ parked' \in [Test!Tests -> Test!Configs]
      /\ \A u \in Test!Tests :
             parked'[u] = parked[u] \/ (u = t /\ stage[t] = "parking" /\ parked'[t] = reply[t].config)
  BY <1>t, <1>2, <1>3 DEF Test!TypeOK
<1>5. TestBook
  BY <1>t, <1>2, <1>3, SimpleBook
<1>6. Busy(t) /\ active /\ active \in BOOLEAN
  BY <1>t, <1>2 DEF TestInv, Alone, Test!TypeOK, Busy
<1>7. /\ Moved(t, "preparing", TRUE, Test!Reply("none"))
      /\ Appended(q)
      /\ UNCHANGED <<live, generation, pins, boot, foreign>>
  BY <1>t, <1>2, TestCalls DEF Test!Steps
<1> QED
  BY <1>1, <1>2, <1>4, <1>5, <1>6, <1>7, Sending DEF Test!Steps, Early

\* A test writes its own configuration, or the one it parked.
LEMMA WriteKeepsTests ==
    ASSUME TestInv, NobodyTests, NEW t \in Test!Tests, Busy(t),
           NEW n \in Nat, NEW c \in Test!Configs, NEW p \in {"applying", "releasing", "restoring"},
           Test!Call(t, Test!Apply(t, n, c), p), TestBook, UNCHANGED <<active, parked, result>>,
           (c.of = t /\ p # "restoring") \/ c = parked[t]
    PROVE  TestInv'
<1>1. PICK q \in Test!Requests :
          q = Test!Apply(t, n, c) /\ q.by = t /\ q.op = "apply" /\ q.config = c
  BY TestRequests
<1>2. p \in Test!Steps \ {"idle", "ended"} /\ p \notin Early
  BY DEF Test!Steps, Early
<1> QED
  BY <1>1, <1>2, SimpleCall

LEMMA WritesKeepTests ==
    ASSUME TestInv, NobodyTests, NEW t \in Test!Tests,
           \/ Test!Refreshed(t) \/ Test!HasPins(t) \/ Test!Release(t)
           \/ Test!ApplyTrial(t) \/ Test!PutBack(t)
    PROVE  TestInv'
<1>t. Test!TypeOK /\ reply[t].gen \in Nat /\ expected[t] \in Nat /\ parked[t] \in Test!Configs
  BY TestTypes DEF TestInv
<1>c. /\ Test!Of(t, "trial") \in Test!Configs /\ Test!Of(t, "trial").of = t
      /\ Test!Of(t, "bare") \in Test!Configs /\ Test!Of(t, "bare").of = t
  BY TestConfigs
<1>q. \A op \in {"ask", "physical"} :
          Test!Request(t, op) \in Test!Requests /\ Test!Request(t, op).by = t /\ Test!Request(t, op).config.of = Nobody
  BY TestRequests
<1>1. CASE Test!Refreshed(t)
  <2>1. PICK n \in Nat :
            /\ stage[t] = "refreshing"
            /\ expected' = [expected EXCEPT ![t] = n]
            /\ \/ Test!Call(t, Test!Request(t, "ask"), "asking")
               \/ Test!Call(t, Test!Apply(t, n, Test!Of(t, "trial")), "applying")
            /\ UNCHANGED <<active, parked, final, tried, result>>
    BY <1>1, <1>t DEF Test!Refreshed, Test!At
  <2>2. TestBook /\ Busy(t)
    BY <1>t, <2>1, SimpleBook DEF Busy
  <2>3. CASE Test!Call(t, Test!Request(t, "ask"), "asking")
    BY <1>q, <2>1, <2>2, <2>3, SimpleCall DEF Test!Steps, Early
  <2>4. CASE Test!Call(t, Test!Apply(t, n, Test!Of(t, "trial")), "applying")
    BY <1>c, <2>1, <2>2, <2>4, WriteKeepsTests
  <2> QED
    BY <2>1, <2>3, <2>4
<1>2. CASE Test!HasPins(t)
  <2>1. /\ stage[t] = "asking"
        /\ Test!Call(t, Test!Apply(t, expected[t], Test!Of(t, "trial")), "applying")
        /\ UNCHANGED <<active, parked, expected, final, tried, result>>
    BY <1>2 DEF Test!HasPins, Test!At, Test!book
  <2>2. TestBook /\ Busy(t)
    BY <1>t, <2>1, SimpleBook DEF Busy
  <2> QED
    BY <1>t, <1>c, <2>1, <2>2, WriteKeepsTests
<1>3. CASE Test!Release(t)
  <2>1. /\ stage[t] = "asking"
        /\ \/ Test!Call(t, Test!Apply(t, expected[t], Test!Of(t, "bare")), "releasing")
           \/ Test!Call(t, Test!Request(t, "physical"), "wiring")
        /\ UNCHANGED <<active, parked, expected, final, tried, result>>
    BY <1>3 DEF Test!Release, Test!At, Test!book
  <2>2. TestBook /\ Busy(t)
    BY <1>t, <2>1, SimpleBook DEF Busy
  <2>3. CASE Test!Call(t, Test!Apply(t, expected[t], Test!Of(t, "bare")), "releasing")
    BY <1>t, <1>c, <2>1, <2>2, <2>3, WriteKeepsTests
  <2>4. CASE Test!Call(t, Test!Request(t, "physical"), "wiring")
    BY <1>q, <2>1, <2>2, <2>4, SimpleCall DEF Test!Steps, Early
  <2> QED
    BY <2>1, <2>3, <2>4
<1>4. CASE Test!ApplyTrial(t)
  <2>1. /\ stage[t] = "wired"
        /\ expected' = [expected EXCEPT ![t] = reply[t].gen]
        /\ Test!Call(t, Test!Apply(t, reply[t].gen, Test!Of(t, "trial")), "applying")
        /\ UNCHANGED <<active, parked, final, tried, result>>
    BY <1>4 DEF Test!ApplyTrial, Test!At
  <2>2. TestBook /\ Busy(t)
    BY <1>t, <2>1, SimpleBook DEF Busy
  <2> QED
    BY <1>t, <1>c, <2>1, <2>2, WriteKeepsTests
<1>5. CASE Test!PutBack(t)
  <2>1. /\ stage[t] = "rereading"
        /\ Test!Call(t, Test!Apply(t, reply[t].gen, parked[t]), "restoring")
        /\ UNCHANGED <<active, parked, expected, final, tried, result>>
    BY <1>5 DEF Test!PutBack, Test!At, Test!book
  <2>2. TestBook /\ Busy(t)
    BY <1>t, <2>1, SimpleBook DEF Busy
  <2> QED
    BY <1>t, <2>1, <2>2, WriteKeepsTests
<1> QED
  BY <1>1, <1>2, <1>3, <1>4, <1>5

LEMMA WaitsKeepTests ==
    ASSUME TestInv, NobodyTests, NEW t \in Test!Tests,
           Test!TimeOut(t) \/ Test!Run(t) \/ Test!Backoff(t)
    PROVE  TestInv'
<1>t. Test!TypeOK
  BY DEF TestInv
<1>r. \A s \in {"none", "error"} :
          Test!Reply(s) \in Test!Replies /\ Test!Reply(s).status # "ok" /\ Test!Reply(s).config.of = Nobody
  BY TestReplies
<1>1. CASE Test!TimeOut(t)
  <2>1. /\ waiting[t] /\ stage' = stage
        /\ reply' = [reply EXCEPT ![t] = Test!Reply("error")]
        /\ waiting' = [waiting EXCEPT ![t] = FALSE]
        /\ UNCHANGED <<live, generation, pins, boot, foreign, inbox, active, parked, expected, final, tried, result>>
    BY <1>1 DEF Test!TimeOut, Test!core, Test!book
  <2>2. Moved(t, stage[t], FALSE, Test!Reply("error")) /\ stage[t] \in Test!Steps
    BY <1>t, <1>r, <2>1 DEF Moved, Test!TypeOK
  <2>3. TestBook
    BY <1>t, <2>1, SimpleBook
  <2> QED
    BY <1>r, <2>1, <2>2, <2>3, Staying
<1>2. CASE Test!Run(t) \/ Test!Backoff(t)
  <2>1. PICK p \in {"running", "backoff"} :
            /\ Busy(t) /\ Test!Continue(t, p)
            /\ final' = final \/ final' = [final EXCEPT ![t] = TRUE]
            /\ UNCHANGED <<active, parked, expected, tried, result>>
    BY <1>2 DEF Test!Run, Test!Backoff, Test!At, Test!book, Busy
  <2>2. /\ Moved(t, p, FALSE, Test!Reply("none"))
        /\ UNCHANGED <<live, generation, pins, boot, foreign, inbox>>
    BY <1>t, <2>1, TestContinues DEF Test!Steps
  <2>3. TestBook
    BY <1>t, <2>1, SimpleBook
  <2>4. p \in Test!Steps /\ p \notin Early \cup {"ended", "restoring"}
    BY DEF Test!Steps, Early
  <2> QED
    BY <1>r, <2>1, <2>2, <2>3, <2>4, Staying
<1> QED
  BY <1>1, <1>2

LEMMA EndsKeepTests ==
    ASSUME TestInv, NobodyTests, NEW t \in Test!Tests,
           Test!FailsEarly(t) \/ Test!PinsFail(t) \/ Test!Restored(t) \/ Test!NotRestored(t)
    PROVE  TestInv'
<1>t. Test!TypeOK
  BY DEF TestInv
<1>1. PICK v \in Test!Results \ {"none"} :
          Test!End(t, v) /\ Busy(t) /\ (v = "left" \/ Clean(t))
  <2>1. CASE Test!FailsEarly(t)
    <3>1. Test!End(t, "untouched") /\ stage[t] \in Early \ {"idle"}
      BY <2>1 DEF Test!FailsEarly, Test!At, Early
    <3> QED
      BY <3>1 DEF Test!Results, Busy, Clean, Early
  <2>2. CASE Test!PinsFail(t)
    BY <2>2 DEF Test!PinsFail, Test!At, Test!Results, Busy
  <2>3. CASE Test!Restored(t)
    BY <2>3 DEF Test!Restored, Test!At, Test!Ok, Test!Results, Busy, Clean
  <2>4. CASE Test!NotRestored(t)
    BY <2>4 DEF Test!NotRestored, Test!At, Test!Results, Busy
  <2> QED
    BY <2>1, <2>2, <2>3, <2>4
<1>2. /\ result' = [result EXCEPT ![t] = v] /\ active' = FALSE /\ Test!Continue(t, "ended")
      /\ UNCHANGED <<parked, expected, final, tried>>
  BY <1>1 DEF Test!End
<1>3. /\ Moved(t, "ended", FALSE, Test!Reply("none"))
      /\ UNCHANGED <<live, generation, pins, boot, foreign, inbox>>
  BY <1>t, <1>2, TestContinues DEF Test!Steps
<1>4. TestBook
  BY <1>t, <1>2, SimpleBook
<1> QED
  BY <1>1, <1>2, <1>3, <1>4, Ending

-----------------------------------------------------------------------------

LEMMA TestsStart == ASSUME NobodyTests, Test!Init PROVE TestInv
<1>1. Test!TypeOK
  <2>1. inbox \in Seq(Test!Requests)
    BY DEF Test!Init
  <2>2. /\ live \in Test!Configs
        /\ parked \in [Test!Tests -> Test!Configs]
    BY TestConfigs DEF Test!Init
  <2>3. reply \in [Test!Tests -> Test!Replies]
    BY TestReplies DEF Test!Init
  <2>4. /\ generation \in Nat \ {0} /\ boot \in Nat /\ foreign \in Nat
        /\ expected \in [Test!Tests -> Nat]
    BY DEF Test!Init
  <2>5. pins \in BOOLEAN /\ active \in BOOLEAN
    BY Zenon DEF Test!Init
  <2>6. /\ waiting \in [Test!Tests -> BOOLEAN]
        /\ final \in [Test!Tests -> BOOLEAN]
        /\ tried \in [Test!Tests -> BOOLEAN]
    BY DEF Test!Init
  <2>7. "idle" \in Test!Steps /\ "none" \in Test!Results
    BY DEF Test!Steps, Test!Results
  <2>8. /\ stage \in [Test!Tests -> Test!Steps]
        /\ result \in [Test!Tests -> Test!Results]
    BY <2>7 DEF Test!Init
  <2> QED
    BY <2>1, <2>2, <2>3, <2>4, <2>5, <2>6, <2>8 DEF Test!TypeOK
<1>2. Alone /\ Verdicts /\ Parking /\ RestoreIsLast
  BY DEF Test!Init, Alone, Verdicts, Parking, RestoreIsLast, Busy
<1>3. Test!ParksTheUsers
  BY TestConfigs DEF Test!Init, Test!ParksTheUsers
<1>4. CleanStays /\ OwnOrGivenUp
  BY TestConfigs DEF Test!Init, CleanStays, OwnOrGivenUp, NobodyTests, Test!Tests
<1> QED
  BY <1>1, <1>2, <1>3, <1>4 DEF TestInv

LEMMA TestsKeep == ASSUME NobodyTests, TestInv, [Test!Next]_Test!vars PROVE TestInv'
<1>1. CASE \/ Test!ServeRead \/ Test!Accept \/ Test!ApplyPhysical
           \/ Test!Refuse \/ Test!ForeignWrite \/ Test!Reboot
  BY <1>1, CoreKeepsTests
<1>2. CASE \E t \in Test!Tests : Test!Begin(t) \/ Test!Overlaps(t)
  BY <1>2, BeginKeepsTests
<1>3. CASE \E t \in Test!Tests : Test!Flow(t)
  <2>1. PICK t \in Test!Tests : Test!Flow(t)
    BY <1>3
  <2> QED
    BY <2>1, ReadsKeepTests, ParkKeepsTests, WritesKeepTests, WaitsKeepTests, EndsKeepTests DEF Test!Flow
<1>4. CASE UNCHANGED Test!vars
  <2>1. UNCHANGED <<live, generation, pins, boot, foreign, inbox, active, stage, waiting, reply,
                    parked, expected, final, tried, result>>
    BY <1>4 DEF Test!vars, Test!core, Test!book
  <2>2. Test!TypeOK' /\ Alone' /\ Verdicts' /\ Test!ParksTheUsers'
    BY <2>1 DEF TestInv, Test!TypeOK, Alone, Verdicts, Test!ParksTheUsers, Busy
  <2>3. Parking' /\ CleanStays' /\ OwnOrGivenUp' /\ RestoreIsLast'
    BY <2>1 DEF TestInv, Parking, CleanStays, OwnOrGivenUp, RestoreIsLast, GivenUp, Clean
  <2> QED
    BY <2>2, <2>3 DEF TestInv
<1> QED
  BY <1>1, <1>2, <1>3, <1>4 DEF Test!Next

\* A test that has ended without saying so has left neither its configuration
\* nor the one without the user's modules, however late a request is carried
\* out, whatever is lost, given up, written by others or restarted.
THEOREM LeftIsTold ==
    ASSUME NobodyTests
    PROVE  Test!Spec => []LeftBehindIsTold
<1>1. Test!Init => TestInv
  BY TestsStart
<1>2. TestInv /\ [Test!Next]_Test!vars => TestInv'
  BY TestsKeep
<1>3. TestInv => LeftBehindIsTold
  <2>1. ASSUME TestInv, NEW t \in Tests, stage[t] = "ended", live \in Temporary(t)
        PROVE  result[t] = "left"
    <3>1. live.of = t
      BY <2>1 DEF Temporary, Of
    <3>2. ~Clean(t)
      BY <2>1, <3>1 DEF TestInv, CleanStays, Tests, Test!Tests
    <3> QED
      BY <2>1, <3>2 DEF Clean
  <2> QED
    BY <2>1 DEF LeftBehindIsTold
<1> QED
  BY <1>1, <1>2, <1>3, PTL DEF Test!Spec

\* No test puts back the temporary configuration of another, unless that one
\* was given up with its configuration in force: the lock of the Core covers
\* the whole transaction, for every number of tests.
THEOREM UsersAreParked ==
    ASSUME NobodyTests
    PROVE  Test!Spec => []ParksTheUsers
<1>1. Test!Init => TestInv
  BY TestsStart
<1>2. TestInv /\ [Test!Next]_Test!vars => TestInv'
  BY TestsKeep
<1>3. TestInv => ParksTheUsers
  BY DEF TestInv, Test!ParksTheUsers, ParksTheUsers, Test!Tests, Tests
<1> QED
  BY <1>1, <1>2, <1>3, PTL DEF Test!Spec

=============================================================================
