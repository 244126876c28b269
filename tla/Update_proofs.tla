---------------------------- MODULE Update_proofs ----------------------------
(***************************************************************************)
(* The safety of Update for images of any number of chunks.  Each call of   *)
(* Update keeps SessionInv, never starts or moves a receiving session        *)
(* unless it is Begin, and leaves the session of a trial boot alone; every   *)
(* handler of an adapter is one such call, so what remains to be shown of it *)
(* is its own transfer.                                                     *)
(***************************************************************************)
EXTENDS Update, SequenceTheorems, TLAPS

Timers == [scheduled : BOOLEAN, running : BOOLEAN]
Slots == [image : Uploads \cup {Previous, Broken}, test : BOOLEAN]

\* What the calls of Update keep among themselves
SessionInv ==
    /\ status \in [state : States, transport : Adapters \cup {None}]
    /\ expired \in BOOLEAN
    /\ timer \in Timers
    /\ slot \in Slots
    /\ DiscardedNeverBoots
    /\ status.state = "RECEIVING" => slot.image \in Uploads /\ status.transport \in Adapters

\* A call that takes no session for its adapter
Quiet ==
    /\ status.state = "TRIAL_BOOT" => UNCHANGED session
    /\ status'.state = "RECEIVING" => status' = status
    /\ slot'.test => slot.test \/ status.state = "RECEIVING"

\* No image is received or marked while the running one may still be taken back.
TrialBoot ==
    /\ core = "trial" => ~confirmed /\ status.state = "TRIAL_BOOT"
    /\ ~confirmed => ~slot.test /\ status.state # "RECEIVING"

Transfers == [active : BOOLEAN, sent : 0 .. Chunks]

AdapterTypes ==
    /\ at \in [Adapters -> Calls]
    /\ transfer \in [Adapters -> Transfers]
    /\ window \in {"closed", "armed", "error"}
    /\ handover \in {"idle", "begin", "rollback"}

ImageTypes ==
    /\ confirmed \in BOOLEAN
    /\ core \in {"trial", "running", "rebooting"}
    /\ mode \in {"normal", "maintenance"}

Inv == SessionInv /\ AdapterTypes /\ ImageTypes /\ ReceivingIsClaimed /\ TrialBoot

\* The step formula of TrialKeepsRollback
TrialStep == core = "trial" /\ slot.image = Previous => slot'.image = Previous \/ confirmed'

USE UpdateAssumption

-----------------------------------------------------------------------------
(* The slot *)

LEMMA EmptyUpload == << >> \in Uploads /\ Erased \in Slots
<1>1. << >> \in [1 .. 0 -> Adapters]
  OBVIOUS
<1>2. << >> \in Uploads
  BY <1>1 DEF Uploads
<1> QED
  BY <1>2 DEF Erased, Slots

LEMMA UploadLength ==
    ASSUME NEW s \in Uploads
    PROVE  Len(s) \in 0 .. Chunks /\ s \in Seq(Adapters)
<1>1. PICK n \in 0 .. Chunks : s \in [1 .. n -> Adapters]
  BY DEF Uploads
<1>2. n \in Nat /\ s \in Seq(Adapters)
  BY <1>1
<1>3. Len(s) = n
  BY <1>1, <1>2
<1> QED
  BY <1>1, <1>2, <1>3

LEMMA AppendUpload ==
    ASSUME NEW s \in Uploads, NEW a \in Adapters, Len(s) < Chunks
    PROVE  Append(s, a) \in Uploads
<1>1. Len(s) \in 0 .. Chunks /\ s \in Seq(Adapters)
  BY UploadLength
<1> DEFINE n == Len(s) + 1
<1>2. n \in 0 .. Chunks
  BY <1>1
<1>3. Append(s, a) \in Seq(Adapters) /\ Len(Append(s, a)) = n
  BY <1>1
<1>4. Append(s, a) \in [1 .. n -> Adapters]
  BY <1>3, LenProperties
<1> QED
  BY <1>2, <1>4 DEF Uploads

LEMMA EraseFailsType ==
    ASSUME slot \in Slots, NEW s \in EraseFails
    PROVE  s \in Slots /\ s.test = slot.test
  BY DEF EraseFails, Slots

LEMMA SlotMarked ==
    ASSUME slot \in Slots
    PROVE  [slot EXCEPT !.test = TRUE] \in Slots
  BY DEF Slots

-----------------------------------------------------------------------------
(* The calls *)

LEMMA FailType ==
    ASSUME SessionInv, Fail
    PROVE  /\ status' \in [state : States, transport : Adapters \cup {None}]
           /\ status'.state = "ERROR"
  BY DEF SessionInv, Fail, States

LEMMA DiscardInv ==
    ASSUME SessionInv, Discard, timer' \in Timers
    PROVE  SessionInv' /\ status'.state \in {"IDLE", "ERROR"} /\ (slot'.test => slot.test)
<1>1. CASE /\ slot' = Erased
           /\ status' = [state |-> "IDLE", transport |-> None]
           /\ expired' = FALSE
  BY <1>1, EmptyUpload DEF SessionInv, DiscardedNeverBoots, Erased, States
<1>2. CASE slot' \in EraseFails /\ Fail /\ UNCHANGED expired
  BY <1>2, EraseFailsType, FailType DEF SessionInv, DiscardedNeverBoots
<1> QED
  BY <1>1, <1>2 DEF Discard

LEMMA TimerTypes ==
    ASSUME timer \in Timers
    PROVE  /\ Unscheduled \in Timers
           /\ [timer EXCEPT !.scheduled = TRUE] \in Timers
           /\ [timer EXCEPT !.running = FALSE] \in Timers
  BY DEF Unscheduled, Timers

LEMMA LateInv ==
    ASSUME SessionInv, NEW answer, Late(answer)
    PROVE  /\ SessionInv' /\ status'.state \in {"IDLE", "ERROR"} /\ answer = "refused"
           /\ slot'.test => slot.test
<1>1. timer' \in Timers
  BY TimerTypes DEF Late, SessionInv
<1> QED
  BY <1>1, DiscardInv DEF Late

LEMMA StutterInv ==
    ASSUME SessionInv, UNCHANGED session
    PROVE  SessionInv' /\ Quiet
  BY DEF SessionInv, DiscardedNeverBoots, session, Quiet

LEMMA ArmInv ==
    ASSUME SessionInv, NEW answer, Arm(answer)
    PROVE  SessionInv' /\ Quiet
<1>1. CASE /\ status.state = "IDLE"
           /\ status' = [state |-> "ARMED", transport |-> None]
           /\ expired' = FALSE
           /\ timer' = [timer EXCEPT !.scheduled = TRUE]
           /\ UNCHANGED slot
  <2>1. timer' \in Timers
    BY <1>1, TimerTypes DEF SessionInv
  <2> QED
    BY <1>1, <2>1 DEF SessionInv, DiscardedNeverBoots, States, Quiet
<1>2. CASE UNCHANGED session
  BY <1>2, StutterInv
<1> QED
  BY <1>1, <1>2 DEF Arm

LEMMA BeginInv ==
    ASSUME SessionInv, NEW t \in Adapters, NEW answer, Begin(t, answer)
    PROVE  /\ SessionInv'
           /\ status.state = "TRIAL_BOOT" => UNCHANGED session
           /\ status'.state = "RECEIVING" => status' = status \/ (answer = "ok" /\ confirmed)
           /\ answer = "ok" => status' = [state |-> "RECEIVING", transport |-> t]
           /\ slot'.test => slot.test
<1>1. CASE answer = "refused" /\ status.state # "ARMED" /\ UNCHANGED session
  BY <1>1, StutterInv DEF Quiet, session
<1>2. CASE status.state = "ARMED" /\ Late(answer)
  BY <1>2, LateInv
<1>3. CASE /\ status.state = "ARMED" /\ answer = "ok" /\ ~SwapPending
           /\ slot' = Erased
           /\ status' = [state |-> "RECEIVING", transport |-> t]
           /\ UNCHANGED <<expired, timer>>
  BY <1>3, EmptyUpload DEF SessionInv, DiscardedNeverBoots, Erased, States, SwapPending
<1>4. CASE /\ status.state = "ARMED" /\ answer = "refused"
           /\ slot' \in IF SwapPending THEN {slot} ELSE EraseFails
           /\ Fail
           /\ UNCHANGED <<expired, timer>>
  <2>1. slot' \in Slots /\ slot'.test = slot.test
    BY <1>4, EraseFailsType DEF SessionInv
  <2> QED
    BY <1>4, <2>1, FailType DEF SessionInv, DiscardedNeverBoots
<1> QED
  BY <1>1, <1>2, <1>3, <1>4 DEF Begin

LEMMA WriteInv ==
    ASSUME SessionInv, NEW t \in Adapters, NEW offset \in 0 .. Chunks - 1, NEW answer,
           Write(t, offset, answer)
    PROVE  SessionInv' /\ Quiet
<1>1. CASE UNCHANGED session
  BY <1>1, StutterInv
<1>2. CASE status.state = "RECEIVING" /\ Late(answer)
  BY <1>2, LateInv DEF Quiet
<1>3. CASE /\ status.state = "RECEIVING" /\ offset = Len(slot.image)
           /\ slot' = [slot EXCEPT !.image = Append(slot.image, t)]
           /\ UNCHANGED <<status, expired, timer>>
  <2>1. slot.image \in Uploads /\ slot \in Slots
    BY <1>3 DEF SessionInv
  <2>2. Append(slot.image, t) \in Uploads
    BY <1>3, <2>1, AppendUpload
  <2>3. slot' \in Slots /\ slot'.image \in Uploads /\ slot'.test = slot.test
    BY <1>3, <2>1, <2>2 DEF Slots
  <2> QED
    BY <1>3, <2>3 DEF SessionInv, DiscardedNeverBoots, Quiet
<1>4. CASE /\ status.state = "RECEIVING"
           /\ slot' \in IF offset = Len(slot.image) THEN EraseFails ELSE {slot}
           /\ Fail
           /\ UNCHANGED <<expired, timer>>
  <2>1. slot' \in Slots /\ slot'.test = slot.test
    BY <1>4, EraseFailsType DEF SessionInv
  <2> QED
    BY <1>4, <2>1, FailType DEF SessionInv, DiscardedNeverBoots, Quiet
<1> QED
  BY <1>1, <1>2, <1>3, <1>4 DEF Write

LEMMA FinishInv ==
    ASSUME SessionInv, NEW answer, Finish(answer)
    PROVE  SessionInv' /\ Quiet /\ status'.state # "RECEIVING"
<1>1. CASE status.state # "RECEIVING" /\ UNCHANGED session
  BY <1>1, StutterInv DEF session
<1>2. CASE status.state = "RECEIVING" /\ Late(answer)
  BY <1>2, LateInv DEF Quiet
<1>3. CASE /\ status.state = "RECEIVING" /\ timer' = Unscheduled
           /\ slot' = [slot EXCEPT !.test = TRUE]
           /\ status' = [status EXCEPT !.state = "PENDING_REBOOT"]
           /\ expired' = FALSE
  <2>1. timer' \in Timers /\ slot' \in Slots
    BY <1>3, TimerTypes, SlotMarked DEF SessionInv
  <2>2. /\ status' \in [state : States, transport : Adapters \cup {None}]
        /\ status'.state = "PENDING_REBOOT"
    BY <1>3 DEF SessionInv, States
  <2> QED
    BY <1>3, <2>1, <2>2 DEF SessionInv, DiscardedNeverBoots, Quiet
<1>4. CASE /\ status.state = "RECEIVING" /\ timer' = Unscheduled
           /\ slot' \in {slot, [slot EXCEPT !.test = TRUE]}
           /\ Fail
           /\ UNCHANGED expired
  <2>1. timer' \in Timers /\ slot' \in Slots
    BY <1>4, TimerTypes, SlotMarked DEF SessionInv
  <2> QED
    BY <1>4, <2>1, FailType DEF SessionInv, DiscardedNeverBoots, Quiet
<1> QED
  BY <1>1, <1>2, <1>3, <1>4 DEF Finish

LEMMA CancelInv ==
    ASSUME SessionInv, NEW answer, Cancel(answer)
    PROVE  SessionInv' /\ Quiet /\ status'.state # "RECEIVING"
<1>1. CASE status.state \in {"IDLE", "TRIAL_BOOT"} /\ UNCHANGED session
  BY <1>1, StutterInv DEF session
<1>2. CASE /\ status.state \notin {"IDLE", "TRIAL_BOOT"}
           /\ timer' = Unscheduled
           /\ Discard
  <2>1. timer' \in Timers
    BY <1>2, TimerTypes DEF SessionInv
  <2> QED
    BY <1>2, <2>1, DiscardInv DEF Quiet
<1> QED
  BY <1>1, <1>2 DEF Cancel

-----------------------------------------------------------------------------
(* The handlers *)

LEMMA InvTypes == Inv => TypeOK
  BY DEF Inv, SessionInv, AdapterTypes, ImageTypes, TypeOK, Timers, Slots, Transfers

LEMMA NoTransferType == NoTransfer \in Transfers /\ ~NoTransfer.active
  BY DEF NoTransfer, Transfers

\* What a call that takes no session leaves of the other invariants
LEMMA QuietTrial ==
    ASSUME Inv, Quiet, UNCHANGED image
    PROVE  TrialBoot' /\ TrialStep /\ ImageTypes'
  BY DEF Inv, Quiet, image, session, TrialBoot, TrialStep, ImageTypes

LEMMA QuietClaim ==
    ASSUME Inv, Quiet,
           status'.state # "RECEIVING" \/ \A a \in Adapters : transfer[a].active => transfer'[a].active
    PROVE  ReceivingIsClaimed'
  BY DEF Inv, SessionInv, Quiet, ReceivingIsClaimed

LEMMA TransferEnds ==
    ASSUME AdapterTypes, NEW a \in Adapters
    PROVE  [transfer EXCEPT ![a] = NoTransfer] \in [Adapters -> Transfers]
  BY NoTransferType DEF AdapterTypes

LEMMA TransferGoesOn ==
    ASSUME AdapterTypes, NEW a \in Adapters, NEW n \in 0 .. Chunks,
           transfer' = [transfer EXCEPT ![a].sent = n]
    PROVE  /\ transfer' \in [Adapters -> Transfers]
           /\ \A b \in Adapters : transfer[b].active => transfer'[b].active
  BY DEF AdapterTypes, Transfers

LEMMA GotoType ==
    ASSUME AdapterTypes, NEW a \in Adapters, NEW call \in Calls, Goto(a, call)
    PROVE  at' \in [Adapters -> Calls]
  BY DEF AdapterTypes, Goto

LEMMA CancelCallInv ==
    ASSUME Inv, NEW a \in Adapters, CancelCall(a)
    PROVE  Inv' /\ TrialStep
<1>1. PICK answer \in Answers : Cancel(answer)
  BY DEF CancelCall
<1>2. SessionInv' /\ Quiet /\ status'.state # "RECEIVING"
  BY <1>1, CancelInv DEF Inv
<1>3. AdapterTypes'
  BY TransferEnds, GotoType DEF Inv, CancelCall, AdapterTypes, Calls
<1> QED
  BY <1>2, <1>3, QuietTrial, QuietClaim DEF Inv, CancelCall

LEMMA ArmCallInv ==
    ASSUME Inv, NEW a \in Adapters, ArmCall(a)
    PROVE  Inv' /\ TrialStep
<1>1. PICK answer \in Answers :
        /\ Arm(answer)
        /\ Goto(a, IF answer = "ok" \/ (a = Can /\ answer = "already") THEN "begin"
                   ELSE IF a = Uart THEN "cancel" ELSE "idle")
  BY DEF ArmCall
<1>2. SessionInv' /\ Quiet
  BY <1>1, ArmInv DEF Inv
<1>3. AdapterTypes'
  BY <1>1, GotoType DEF Inv, ArmCall, Keep, AdapterTypes, Calls
<1> QED
  BY <1>2, <1>3, QuietTrial, QuietClaim DEF Inv, ArmCall, Keep

\* The only call that takes the session: its adapter claims it.
LEMMA BeginCallInv ==
    ASSUME Inv, NEW a \in Adapters, BeginCall(a)
    PROVE  Inv' /\ TrialStep
<1>1. PICK answer \in Answers :
        /\ Begin(a, answer)
        /\ IF answer = "ok"
           THEN /\ transfer' = [transfer EXCEPT ![a] = [active |-> TRUE, sent |-> 0]]
                /\ Goto(a, IF a \in {Uart, Udp} THEN "write" ELSE "idle")
           ELSE Goto(a, "cancel") /\ UNCHANGED transfer
  BY DEF BeginCall
<1>2. /\ SessionInv'
      /\ status.state = "TRIAL_BOOT" => UNCHANGED session
      /\ status'.state = "RECEIVING" => status' = status \/ (answer = "ok" /\ confirmed)
      /\ answer = "ok" => status' = [state |-> "RECEIVING", transport |-> a]
      /\ slot'.test => slot.test
  BY <1>1, BeginInv DEF Inv
<1>3. CASE answer = "ok"
  <2> DEFINE begun == [active |-> TRUE, sent |-> 0]
  <2>1. begun \in Transfers /\ begun.active
    BY DEF Transfers
  <2>2. transfer' \in [Adapters -> Transfers] /\ transfer'[a].active
    <3>1. transfer' = [transfer EXCEPT ![a] = begun]
      BY <1>1, <1>3
    <3> HIDE DEF begun
    <3> QED
      BY <2>1, <3>1 DEF Inv, AdapterTypes
  <2>3. at' \in [Adapters -> Calls]
    BY <1>1, <1>3, GotoType DEF Inv, Calls
  <2>4. AdapterTypes' /\ ReceivingIsClaimed'
    BY <1>2, <1>3, <2>2, <2>3 DEF Inv, AdapterTypes, BeginCall, ReceivingIsClaimed
  <2> QED
    BY <1>2, <2>4 DEF Inv, BeginCall, image, session, TrialBoot, TrialStep, ImageTypes
<1>4. CASE answer # "ok"
  <2>1. Quiet
    BY <1>2, <1>4 DEF Quiet
  <2>2. AdapterTypes'
    BY <1>1, <1>4, GotoType DEF Inv, AdapterTypes, BeginCall, Calls
  <2> QED
    BY <1>1, <1>2, <1>4, <2>1, <2>2, QuietTrial, QuietClaim DEF Inv, BeginCall
<1> QED
  BY <1>3, <1>4

\* A transfer that is dropped is not the one that receives.
LEMMA ImageWriteInv ==
    ASSUME Inv, NEW a \in Adapters, ImageWrite(a)
    PROVE  Inv' /\ TrialStep
<1>1. SessionInv' /\ Quiet /\ UNCHANGED status
  BY StutterInv DEF Inv, ImageWrite, session
<1>2. AdapterTypes'
  <2>1. transfer' \in [Adapters -> Transfers]
    BY TransferEnds DEF Inv, ImageWrite, AdapterTypes
  <2>2. at' \in [Adapters -> Calls]
    BY GotoType DEF Inv, ImageWrite, Calls
  <2> QED
    BY <2>1, <2>2 DEF Inv, ImageWrite, AdapterTypes
<1>3. ReceivingIsClaimed'
  <2>1. CASE Synchronized(a)
    BY <1>1, <2>1 DEF Inv, ImageWrite, ReceivingIsClaimed
  <2>2. CASE ~Synchronized(a)
    <3>1. transfer' = [transfer EXCEPT ![a] = NoTransfer]
      BY <2>2 DEF ImageWrite
    <3>2. SUFFICES ASSUME status.state = "RECEIVING", status.transport # Udp
                   PROVE  transfer'[status.transport].active
      BY <1>1 DEF ReceivingIsClaimed
    <3>3. transfer[status.transport].active /\ status.transport \in Adapters
      BY <3>2 DEF Inv, SessionInv, ReceivingIsClaimed
    <3>4. status = [state |-> "RECEIVING", transport |-> status.transport]
      BY <3>2 DEF Inv, SessionInv
    <3>5. status.transport # a
      BY <2>2, <3>3, <3>4 DEF Synchronized, Active
    <3> QED
      BY <3>1, <3>3, <3>5 DEF Inv, AdapterTypes
  <2> QED
    BY <2>1, <2>2
<1> QED
  BY <1>1, <1>2, <1>3, QuietTrial DEF Inv, ImageWrite

LEMMA ImageWriteCallInv ==
    ASSUME Inv, NEW a \in Adapters, ImageWriteCall(a)
    PROVE  Inv' /\ TrialStep
<1> DEFINE n == transfer[a].sent + 1
<1>1. PICK answer \in Answers :
        /\ Write(a, transfer[a].sent, answer)
        /\ IF answer = "ok"
           THEN /\ transfer' = [transfer EXCEPT ![a].sent = n]
                /\ Goto(a, IF transfer'[a].sent = Chunks THEN "finish" ELSE "idle")
           ELSE Goto(a, "cancel") /\ UNCHANGED transfer
  BY DEF ImageWriteCall
<1>2. transfer[a].sent \in 0 .. Chunks - 1 /\ n \in 0 .. Chunks
  BY DEF ImageWriteCall, Inv, AdapterTypes, Transfers
<1> HIDE DEF n
<1>3. SessionInv' /\ Quiet
  BY <1>1, <1>2, WriteInv DEF Inv
<1>4. /\ transfer' \in [Adapters -> Transfers]
      /\ \A b \in Adapters : transfer[b].active => transfer'[b].active
  <2>1. CASE answer = "ok"
    BY <1>1, <1>2, <2>1, TransferGoesOn DEF Inv
  <2>2. CASE answer # "ok"
    BY <1>1, <2>2 DEF Inv, AdapterTypes
  <2> QED
    BY <2>1, <2>2
<1>5. at' \in [Adapters -> Calls]
  BY <1>1, GotoType DEF Inv, Calls
<1>6. AdapterTypes'
  BY <1>4, <1>5 DEF Inv, AdapterTypes, ImageWriteCall
<1> QED
  BY <1>3, <1>4, <1>6, QuietTrial, QuietClaim DEF Inv, ImageWriteCall

LEMMA ImageFinishCallInv ==
    ASSUME Inv, NEW a \in Adapters, ImageFinishCall(a)
    PROVE  Inv' /\ TrialStep
<1>1. PICK answer \in Answers :
        /\ Finish(answer)
        /\ IF answer = "ok"
           THEN Goto(a, "idle") /\ transfer' = [transfer EXCEPT ![a] = NoTransfer]
           ELSE Goto(a, "cancel") /\ UNCHANGED transfer
  BY DEF ImageFinishCall
<1>2. SessionInv' /\ Quiet /\ status'.state # "RECEIVING"
  BY <1>1, FinishInv DEF Inv
<1>3. AdapterTypes'
  BY <1>1, TransferEnds, GotoType DEF Inv, ImageFinishCall, AdapterTypes, Calls
<1> QED
  BY <1>2, <1>3, QuietTrial, QuietClaim DEF Inv, ImageFinishCall

LEMMA ImageCancelInv ==
    ASSUME Inv, NEW a \in Adapters, ImageCancel(a)
    PROVE  Inv' /\ TrialStep
<1>1. SessionInv' /\ Quiet
  BY StutterInv DEF Inv, ImageCancel
<1>2. AdapterTypes'
  BY GotoType DEF Inv, ImageCancel, Keep, AdapterTypes, Calls
<1> QED
  BY <1>1, <1>2, QuietTrial, QuietClaim DEF Inv, ImageCancel, Keep

LEMMA BleOpenInv ==
    ASSUME Inv, BleOpen
    PROVE  Inv' /\ TrialStep
<1>1. SessionInv' /\ Quiet
  BY StutterInv DEF Inv, BleOpen
<1>2. AdapterTypes'
  BY GotoType DEF Inv, BleOpen, Keep, AdapterTypes, Calls, Adapters
<1> QED
  BY <1>1, <1>2, QuietTrial, QuietClaim DEF Inv, BleOpen, Keep

LEMMA BleWriteInv ==
    ASSUME Inv, BleWrite
    PROVE  Inv' /\ TrialStep
<1> DEFINE n == transfer[Ble].sent + 1
<1>1. PICK answer \in Answers :
        /\ Write(Ble, transfer[Ble].sent, answer)
        /\ transfer' = IF answer = "ok" THEN [transfer EXCEPT ![Ble].sent = n] ELSE transfer
  BY DEF BleWrite
<1>2. Ble \in Adapters /\ transfer[Ble].sent \in 0 .. Chunks - 1 /\ n \in 0 .. Chunks
  BY DEF BleWrite, Inv, AdapterTypes, Transfers, Adapters
<1> HIDE DEF n
<1>3. SessionInv' /\ Quiet
  BY <1>1, <1>2, WriteInv DEF Inv
<1>4. /\ transfer' \in [Adapters -> Transfers]
      /\ \A b \in Adapters : transfer[b].active => transfer'[b].active
  <2>1. CASE answer = "ok"
    BY <1>1, <1>2, <2>1, TransferGoesOn DEF Inv
  <2>2. CASE answer # "ok"
    BY <1>1, <2>2 DEF Inv, AdapterTypes
  <2> QED
    BY <2>1, <2>2
<1> QED
  BY <1>3, <1>4, QuietTrial, QuietClaim DEF Inv, BleWrite, AdapterTypes

LEMMA BleFinishInv ==
    ASSUME Inv, BleFinish
    PROVE  Inv' /\ TrialStep
<1>1. PICK answer \in Answers :
        /\ Finish(answer)
        /\ transfer' = IF answer = "ok" THEN [transfer EXCEPT ![Ble] = NoTransfer] ELSE transfer
  BY DEF BleFinish
<1>2. SessionInv' /\ Quiet /\ status'.state # "RECEIVING"
  BY <1>1, FinishInv DEF Inv
<1>3. AdapterTypes'
  BY <1>1, TransferEnds DEF Inv, BleFinish, AdapterTypes, Adapters
<1> QED
  BY <1>2, <1>3, QuietTrial, QuietClaim DEF Inv, BleFinish

LEMMA BleCancelInv ==
    ASSUME Inv, BleCancel
    PROVE  Inv' /\ TrialStep
<1>1. PICK answer \in Answers : Cancel(answer)
  BY DEF BleCancel
<1>2. SessionInv' /\ Quiet /\ status'.state # "RECEIVING"
  BY <1>1, CancelInv DEF Inv
<1>3. AdapterTypes'
  BY TransferEnds DEF Inv, BleCancel, AdapterTypes, Adapters
<1> QED
  BY <1>2, <1>3, QuietTrial, QuietClaim DEF Inv, BleCancel

LEMMA CanBeginInv ==
    ASSUME Inv, CanBegin
    PROVE  Inv' /\ TrialStep
<1>1. Can \in Adapters /\ "arm" \in Calls
  BY DEF Adapters, Calls
<1>2. AdapterTypes'
  BY <1>1, TransferEnds, GotoType DEF Inv, CanBegin, AdapterTypes
<1>3. CASE Active(Can)
  <2>1. PICK answer \in Answers : Cancel(answer)
    BY <1>3 DEF CanBegin
  <2>2. SessionInv' /\ Quiet /\ status'.state # "RECEIVING"
    BY <2>1, CancelInv DEF Inv
  <2> QED
    BY <1>2, <2>2, QuietTrial, QuietClaim DEF Inv, CanBegin
<1>4. CASE ~Active(Can)
  <2>1. SessionInv' /\ Quiet /\ UNCHANGED transfer
    BY <1>4, StutterInv DEF Inv, CanBegin
  <2> QED
    BY <1>2, <2>1, QuietTrial, QuietClaim DEF Inv, CanBegin
<1> QED
  BY <1>3, <1>4

LEMMA CanDataInv ==
    ASSUME Inv, CanData
    PROVE  Inv' /\ TrialStep
<1> DEFINE n == transfer[Can].sent + 1
<1>1. PICK answer \in Answers :
        /\ Write(Can, transfer[Can].sent, answer)
        /\ IF answer = "ok"
           THEN transfer' = [transfer EXCEPT ![Can].sent = n] /\ UNCHANGED at
           ELSE Goto(Can, "cancel") /\ UNCHANGED transfer
  BY DEF CanData
<1>2. Can \in Adapters /\ transfer[Can].sent \in 0 .. Chunks - 1 /\ n \in 0 .. Chunks
  BY DEF CanData, Inv, AdapterTypes, Transfers, Adapters
<1> HIDE DEF n
<1>3. SessionInv' /\ Quiet
  BY <1>1, <1>2, WriteInv DEF Inv
<1>4. /\ transfer' \in [Adapters -> Transfers]
      /\ \A b \in Adapters : transfer[b].active => transfer'[b].active
  <2>1. CASE answer = "ok"
    BY <1>1, <1>2, <2>1, TransferGoesOn DEF Inv
  <2>2. CASE answer # "ok"
    BY <1>1, <2>2 DEF Inv, AdapterTypes
  <2> QED
    BY <2>1, <2>2
<1>5. at' \in [Adapters -> Calls]
  BY <1>1, <1>2, GotoType DEF Inv, Calls, AdapterTypes
<1> QED
  BY <1>3, <1>4, <1>5, QuietTrial, QuietClaim DEF Inv, CanData, AdapterTypes

LEMMA CanEndInv ==
    ASSUME Inv, CanEnd
    PROVE  Inv' /\ TrialStep
<1>1. PICK answer \in Answers : Finish(answer)
  BY DEF CanEnd
<1>2. SessionInv' /\ Quiet /\ status'.state # "RECEIVING"
  BY <1>1, FinishInv DEF Inv
<1>3. AdapterTypes'
  BY TransferEnds DEF Inv, CanEnd, AdapterTypes, Adapters
<1> QED
  BY <1>2, <1>3, QuietTrial, QuietClaim DEF Inv, CanEnd

LEMMA OpenWindowInv ==
    ASSUME Inv, NEW by \in {"idle", "begin"}, OpenWindow(by)
    PROVE  Inv' /\ TrialStep
<1>1. PICK answer \in Answers : Arm(answer)
  BY DEF OpenWindow
<1>2. SessionInv' /\ Quiet
  BY <1>1, ArmInv DEF Inv
<1>3. AdapterTypes'
  BY DEF Inv, OpenWindow, AdapterTypes
<1> QED
  BY <1>2, <1>3, QuietTrial, QuietClaim DEF Inv, OpenWindow

LEMMA CloseWindowInv ==
    ASSUME Inv, CloseWindow
    PROVE  Inv' /\ TrialStep
<1>1. PICK answer \in Answers : Cancel(answer)
  BY DEF CloseWindow, CloseLocked
<1>2. SessionInv' /\ Quiet /\ status'.state # "RECEIVING"
  BY <1>1, CancelInv DEF Inv
<1>3. AdapterTypes'
  BY DEF Inv, CloseWindow, CloseLocked, AdapterTypes
<1> QED
  BY <1>2, <1>3, QuietTrial, QuietClaim DEF Inv, CloseWindow

\* A session of UDP has no transfer to claim it: the window is its owner.
LEMMA HandoverBeginInv ==
    ASSUME Inv, HandoverBegin
    PROVE  Inv' /\ TrialStep
<1>1. PICK answer \in Answers : Begin(Udp, answer)
  BY DEF HandoverBegin
<1>2. Udp \in Adapters
  BY DEF Adapters
<1>3. /\ SessionInv'
      /\ status.state = "TRIAL_BOOT" => UNCHANGED session
      /\ status'.state = "RECEIVING" => status' = status \/ (answer = "ok" /\ confirmed)
      /\ answer = "ok" => status' = [state |-> "RECEIVING", transport |-> Udp]
      /\ slot'.test => slot.test
  BY <1>1, <1>2, BeginInv DEF Inv
<1>4. AdapterTypes'
  BY DEF Inv, HandoverBegin, AdapterTypes
<1>5. ReceivingIsClaimed'
  BY <1>3 DEF Inv, HandoverBegin, ReceivingIsClaimed
<1> QED
  BY <1>3, <1>4, <1>5 DEF Inv, HandoverBegin, image, session, TrialBoot, TrialStep, ImageTypes

LEMMA HandoverRollbackInv ==
    ASSUME Inv, HandoverRollback
    PROVE  Inv' /\ TrialStep
<1>1. AdapterTypes'
  BY DEF Inv, HandoverRollback, CloseLocked, AdapterTypes
<1>2. CASE window = "closed"
  <2>1. SessionInv' /\ Quiet
    BY <1>2, StutterInv DEF Inv, HandoverRollback
  <2> QED
    BY <1>1, <2>1, QuietTrial, QuietClaim DEF Inv, HandoverRollback
<1>3. CASE window # "closed"
  <2>1. PICK answer \in Answers : Cancel(answer)
    BY <1>3 DEF HandoverRollback, CloseLocked
  <2>2. SessionInv' /\ Quiet /\ status'.state # "RECEIVING"
    BY <2>1, CancelInv DEF Inv
  <2> QED
    BY <1>1, <2>2, QuietTrial, QuietClaim DEF Inv, HandoverRollback
<1> QED
  BY <1>2, <1>3

-----------------------------------------------------------------------------
(* The timer, Core and MCUboot *)

LEMMA AdaptersStay ==
    ASSUME Inv, UNCHANGED adapters
    PROVE  AdapterTypes' /\ UNCHANGED transfer
  BY DEF Inv, AdapterTypes, adapters

LEMMA ExpireInv ==
    ASSUME Inv, Expire
    PROVE  Inv' /\ TrialStep
<1>1. SessionInv'
  BY DEF Inv, SessionInv, DiscardedNeverBoots, Expire
<1>2. AdapterTypes' /\ UNCHANGED transfer
  BY AdaptersStay DEF Expire
<1> QED
  BY <1>1, <1>2 DEF Inv, Expire, image, ReceivingIsClaimed, TrialBoot, TrialStep, ImageTypes

LEMMA TimerFiresInv ==
    ASSUME Inv, TimerFires
    PROVE  Inv' /\ TrialStep
<1>1. SessionInv'
  BY DEF Inv, SessionInv, DiscardedNeverBoots, TimerFires, Timers
<1>2. AdapterTypes' /\ UNCHANGED transfer
  BY AdaptersStay DEF TimerFires
<1> QED
  BY <1>1, <1>2 DEF Inv, TimerFires, image, ReceivingIsClaimed, TrialBoot, TrialStep, ImageTypes

LEMMA TimeoutInv ==
    ASSUME Inv, Timeout
    PROVE  Inv' /\ TrialStep
<1>1. timer' \in Timers
  BY TimerTypes DEF Inv, SessionInv, Timeout
<1>2. AdapterTypes' /\ UNCHANGED transfer
  BY AdaptersStay DEF Timeout
<1>3. CASE InSession
  <2>1. SessionInv' /\ status'.state \in {"IDLE", "ERROR"} /\ (slot'.test => slot.test)
    BY <1>1, <1>3, DiscardInv DEF Inv, Timeout
  <2> QED
    BY <1>2, <1>3, <2>1
    DEF Inv, Timeout, InSession, image, ReceivingIsClaimed, TrialBoot, TrialStep, ImageTypes
<1>4. CASE ~InSession
  <2>1. SessionInv'
    BY <1>1, <1>4 DEF Inv, SessionInv, DiscardedNeverBoots, Timeout
  <2> QED
    BY <1>2, <1>4, <2>1
    DEF Inv, Timeout, image, ReceivingIsClaimed, TrialBoot, TrialStep, ImageTypes
<1> QED
  BY <1>3, <1>4

LEMMA ConfirmTrialInv ==
    ASSUME Inv, ConfirmTrial
    PROVE  Inv' /\ TrialStep
<1>1. /\ status' \in [state : States, transport : Adapters \cup {None}]
      /\ status'.state \in {"IDLE", "ERROR"}
  BY DEF Inv, SessionInv, TrialBoot, ConfirmTrial, States
<1>2. SessionInv'
  BY <1>1 DEF Inv, SessionInv, DiscardedNeverBoots, TrialBoot, ConfirmTrial
<1>3. AdapterTypes' /\ UNCHANGED transfer
  BY AdaptersStay DEF ConfirmTrial
<1> QED
  BY <1>1, <1>2, <1>3 DEF Inv, ConfirmTrial, ReceivingIsClaimed, TrialBoot, TrialStep, ImageTypes

\* MCUboot leaves no mark, and the image to go back to only for a trial that follows.
LEMMA SwapSlot ==
    ASSUME Inv, Swap
    PROVE  /\ slot' \in Slots /\ confirmed' \in BOOLEAN
           /\ ~slot'.test
           /\ ~confirmed /\ slot.image = Previous => confirmed'
<1>1. slot \in Slots /\ confirmed \in BOOLEAN /\ (~confirmed => ~slot.test)
  BY DEF Inv, SessionInv, ImageTypes, TrialBoot
<1>2. CASE /\ confirmed' \in BOOLEAN
           /\ slot' \in {[image |-> Previous, test |-> FALSE], [image |-> Broken, test |-> FALSE], Erased}
           /\ confirmed \/ confirmed'
  <2>1. \A i \in {Previous, Broken} :
          LET s == [image |-> i, test |-> FALSE] IN s \in Slots /\ ~s.test
    BY DEF Slots
  <2>2. Erased \in Slots /\ ~Erased.test
    BY EmptyUpload DEF Erased
  <2>3. slot' \in Slots /\ ~slot'.test
    BY <1>2, <2>1, <2>2
  <2> QED
    BY <1>2, <2>3
<1>3. CASE ~slot.test /\ UNCHANGED <<confirmed, slot>> /\ (confirmed \/ slot.image # Previous)
  BY <1>1, <1>3
<1> QED
  BY <1>1, <1>2, <1>3 DEF Swap

LEMMA RebootInv ==
    ASSUME Inv, Reboot
    PROVE  Inv' /\ TrialStep
<1>1. /\ slot' \in Slots /\ confirmed' \in BOOLEAN
      /\ ~slot'.test
      /\ ~confirmed /\ slot.image = Previous => confirmed'
  BY SwapSlot DEF Reboot
<1>2. /\ status' \in [state : States, transport : Adapters \cup {None}]
      /\ status'.state = IF confirmed' THEN "IDLE" ELSE "TRIAL_BOOT"
  BY DEF Reboot, States
<1>3. timer' \in Timers
  BY DEF Reboot, Timers
<1>4. SessionInv'
  BY <1>1, <1>2, <1>3 DEF Reboot, SessionInv, DiscardedNeverBoots
<1>5. AdapterTypes'
  BY NoTransferType DEF Reboot, AdapterTypes, Calls
<1>6. TrialBoot' /\ ImageTypes' /\ ReceivingIsClaimed' /\ TrialStep
  BY <1>1, <1>2 DEF Inv, Reboot, TrialBoot, ImageTypes, ReceivingIsClaimed, TrialStep
<1> QED
  BY <1>4, <1>5, <1>6 DEF Inv

-----------------------------------------------------------------------------
(* The specification *)

LEMMA InitInv == Init => Inv
<1> SUFFICES ASSUME Init PROVE Inv
  OBVIOUS
<1>1. SessionInv
  BY EmptyUpload DEF Init, SessionInv, DiscardedNeverBoots, States, Timers, Erased
<1>2. AdapterTypes
  BY NoTransferType DEF Init, AdapterTypes, Calls
<1> QED
  BY <1>1, <1>2 DEF Init, Inv, ImageTypes, ReceivingIsClaimed, TrialBoot

LEMMA NextInv == Inv /\ [Next]_vars => Inv' /\ [TrialStep]_vars
<1> SUFFICES ASSUME Inv, [Next]_vars PROVE Inv' /\ [TrialStep]_vars
  OBVIOUS
<1>1. CASE UNCHANGED vars
  <2>1. SessionInv' /\ Quiet
    BY <1>1, StutterInv DEF Inv, vars
  <2>2. AdapterTypes' /\ UNCHANGED transfer
    BY <1>1, AdaptersStay DEF vars, adapters
  <2> QED
    BY <1>1, <2>1, <2>2, QuietTrial, QuietClaim DEF Inv, vars
<1>2. CASE \E a \in Adapters : Handler(a)
  BY <1>2, CancelCallInv, ArmCallInv, BeginCallInv, ImageWriteInv, ImageWriteCallInv,
     ImageFinishCallInv, ImageCancelInv DEF Handler
<1>3. CASE BleOpen \/ BleWrite \/ BleFinish \/ BleCancel
  BY <1>3, BleOpenInv, BleWriteInv, BleFinishInv, BleCancelInv
<1>4. CASE CanBegin \/ CanData \/ CanEnd
  BY <1>4, CanBeginInv, CanDataInv, CanEndInv
<1>5. CASE \E by \in {"idle", "begin"} : OpenWindow(by)
  BY <1>5, OpenWindowInv
<1>6. CASE CloseWindow \/ HandoverBegin \/ HandoverRollback
  BY <1>6, CloseWindowInv, HandoverBeginInv, HandoverRollbackInv
<1>7. CASE Expire \/ TimerFires \/ Timeout
  BY <1>7, ExpireInv, TimerFiresInv, TimeoutInv
<1>8. CASE ConfirmTrial \/ Reboot
  BY <1>8, ConfirmTrialInv, RebootInv
<1> QED
  BY <1>1, <1>2, <1>3, <1>4, <1>5, <1>6, <1>7, <1>8 DEF Next

LEMMA Invariance == Spec => []Inv
  BY InitInv, NextInv, PTL DEF Spec

\* Every variable of the session, of the adapters and of the boot keeps its type, and a
\* slot never holds more than an image: Write (update.c:358) stops at its size.
THEOREM TypeCorrect == Spec => []TypeOK
  BY Invariance, InvTypes, PTL

\* update.c:78: whatever interrupts a transfer, the slot is not marked for a test while
\* Update has no pending image, so the next reboot does not try what was discarded.
THEOREM DiscardedStaysOut == Spec => []DiscardedNeverBoots
<1>1. Inv => DiscardedNeverBoots
  BY DEF Inv, SessionInv
<1> QED
  BY <1>1, Invariance, PTL

\* update.c:228 and the adapters: a session that receives belongs to a transfer its
\* adapter has not forgotten, in every interleaving of their calls.
THEOREM Claimed == Spec => []ReceivingIsClaimed
<1>1. Inv => ReceivingIsClaimed
  BY DEF Inv
<1> QED
  BY <1>1, Invariance, PTL

\* update.c:399: no adapter's cancel, late timer or new session erases the image MCUboot
\* would go back to while Core waits to confirm the trial (core.c:620).
THEOREM RollbackKept == Spec => TrialKeepsRollback
<1>1. TrialStep = (core = "trial" /\ slot.image = Previous => slot'.image = Previous \/ confirmed')
  BY DEF TrialStep
<1> QED
  BY <1>1, InitInv, NextInv, PTL DEF Spec, TrialKeepsRollback, TrialStep
=============================================================================
