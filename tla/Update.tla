------------------------------- MODULE Update -------------------------------
(***************************************************************************)
(* subsys/services/update: the one firmware-update session of a board, and  *)
(* the adapters that share it.  Every call of Update is atomic under        *)
(* update_lock; an adapter's handler makes several of them and holds only a *)
(* lock of its own, so the calls of two adapters interleave, and so do the  *)
(* session's timer, Core's confirmation of a trial image and a reboot.      *)
(* MCUboot decides at a reboot which image runs.                            *)
(***************************************************************************)
EXTENDS Integers, Sequences

CONSTANTS
    Uart, Udp, Ble, Can,  \* the transports
    None,                 \* SPAGHETTI_UPDATE_TRANSPORT_NONE
    Chunks,               \* chunks of an image
    Previous,             \* the image that ran before a swap
    Broken                \* a slot whose erase or write was cut short

Adapters == {Uart, Udp, Ble, Can}

\* A chunk in the slot is known by the adapter that wrote it.
Uploads == UNION {[1 .. n -> Adapters] : n \in 0 .. Chunks}

ASSUME UpdateAssumption ==
    /\ Chunks \in Nat \ {0}
    /\ None \notin Adapters
    /\ Uart \notin {Udp, Ble, Can} /\ Udp \notin {Ble, Can} /\ Ble # Can
    /\ Previous # Broken /\ {Previous, Broken} \cap Uploads = {}

VARIABLES
    status,     \* context.status: [state, transport]
    expired,    \* context.deadline_ms is set and has passed
    timer,      \* timeout_work: [scheduled, running]
    slot,       \* the secondary slot: [image, test], test when MCUboot is to try it
    confirmed,  \* the running image is confirmed
    core,       \* Core: "trial" while it waits to confirm, "running", "rebooting"
    mode,       \* the boot mode
    at,         \* the call each adapter's handler makes next, or "idle"
    transfer,   \* what each adapter believes of its transfer: [active, sent]
    window,     \* the state of the UDP window (ota.c)
    handover    \* OPEN_WIFI_UPDATE: its next call, or "idle"

session == <<status, expired, timer, slot>>
image == <<confirmed, core, mode>>
adapters == <<at, transfer, window, handover>>
vars == <<session, image, adapters>>

States == {"IDLE", "ARMED", "RECEIVING", "PENDING_REBOOT", "TRIAL_BOOT", "ERROR"}
Calls == {"idle", "arm", "begin", "write", "finish", "cancel"}
Answers == {"ok", "already", "refused"}

TypeOK ==
    /\ status \in [state : States, transport : Adapters \cup {None}]
    /\ expired \in BOOLEAN
    /\ timer \in [scheduled : BOOLEAN, running : BOOLEAN]
    /\ slot \in [image : Uploads \cup {Previous, Broken}, test : BOOLEAN]
    /\ confirmed \in BOOLEAN
    /\ core \in {"trial", "running", "rebooting"}
    /\ mode \in {"normal", "maintenance"}
    /\ at \in [Adapters -> Calls]
    /\ transfer \in [Adapters -> [active : BOOLEAN, sent : 0 .. Chunks]]
    /\ window \in {"closed", "armed", "error"}
    /\ handover \in {"idle", "begin", "rollback"}

NoTransfer == [active |-> FALSE, sent |-> 0]
Erased == [image |-> << >>, test |-> FALSE]

Init ==
    /\ status = [state |-> "IDLE", transport |-> None]
    /\ expired = FALSE
    /\ timer = [scheduled |-> FALSE, running |-> FALSE]
    /\ slot = Erased
    /\ confirmed = TRUE /\ core = "running"
    /\ mode \in {"normal", "maintenance"}
    /\ at = [a \in Adapters |-> "idle"]
    /\ transfer = [a \in Adapters |-> NoTransfer]
    /\ window = "closed" /\ handover = "idle"

\* UART talks to the maintenance link; the UDP window and BLE exist in a normal boot.
Present == IF mode = "normal" THEN {Udp, Ble, Can} ELSE {Uart, Can}

-----------------------------------------------------------------------------
(* The calls of Update: each has an answer and changes the session *)

\* Cut short, an erase leaves the trailer, which it reaches last.
EraseFails == {slot, [slot EXCEPT !.image = Broken]}

Fail == status' = [status EXCEPT !.state = "ERROR"]

\* A slot whose trailer is left as it was
DiscardImage ==
    /\ slot' = [slot EXCEPT !.image = << >>]
    /\ status' = [state |-> "IDLE", transport |-> None]
    /\ expired' = FALSE

\* discard_candidate_locked
Discard ==
    \/ /\ slot' = Erased
       /\ status' = [state |-> "IDLE", transport |-> None]
       /\ expired' = FALSE
    \/ slot' \in EraseFails /\ Fail /\ UNCHANGED expired

Unscheduled == [timer EXCEPT !.scheduled = FALSE]

\* The deadline passed before the timer's handler got the lock.
Late(answer) == answer = "refused" /\ timer' = Unscheduled /\ Discard

Arm(answer) ==
    \/ /\ answer = "ok" /\ status.state = "IDLE"
       /\ status' = [state |-> "ARMED", transport |-> None]
       /\ expired' = FALSE
       /\ timer' = [timer EXCEPT !.scheduled = TRUE]
       /\ UNCHANGED slot
    \/ /\ status.state # "IDLE"
       /\ answer = IF status.state = "ARMED" THEN "already" ELSE "refused"
       /\ UNCHANGED session

\* mcuboot_swap_type() # BOOT_SWAP_TYPE_NONE
SwapPending == slot.test \/ ~confirmed

\* The admission policy of this repository allows every transport.
Begin(t, answer) ==
    \/ answer = "refused" /\ status.state # "ARMED" /\ UNCHANGED session
    \/ status.state = "ARMED" /\ expired /\ Late(answer)
    \/ /\ status.state = "ARMED" /\ ~expired
       /\ \/ /\ answer = "ok" /\ ~SwapPending
             /\ slot' = Erased
             /\ status' = [state |-> "RECEIVING", transport |-> t]
          \/ /\ answer = "refused"
             /\ slot' \in IF SwapPending THEN {slot} ELSE EraseFails
             /\ Fail
       /\ UNCHANGED <<expired, timer>>

\* The caller is not an argument: t only labels the chunk.
Write(t, offset, answer) ==
    \/ answer = "refused" /\ status.state # "RECEIVING" /\ UNCHANGED session
    \/ status.state = "RECEIVING" /\ expired /\ Late(answer)
    \/ /\ status.state = "RECEIVING" /\ ~expired
       /\ \/ /\ answer = "ok" /\ offset = Len(slot.image)
             /\ slot' = [slot EXCEPT !.image = Append(slot.image, t)]
             /\ UNCHANGED status
          \/ /\ answer = "refused"
             /\ slot' \in IF offset = Len(slot.image) THEN EraseFails ELSE {slot}
             /\ Fail
       /\ UNCHANGED <<expired, timer>>

\* boot_request_upgrade(BOOT_UPGRADE_TEST), once the header of the slot can be read
Finish(answer) ==
    \/ answer = "refused" /\ status.state # "RECEIVING" /\ UNCHANGED session
    \/ status.state = "RECEIVING" /\ expired /\ Late(answer)
    \/ /\ status.state = "RECEIVING" /\ ~expired
       /\ timer' = Unscheduled
       /\ \/ /\ answer = "ok" /\ slot.image # << >>
             /\ slot' = [slot EXCEPT !.test = TRUE]
             /\ status' = [status EXCEPT !.state = "PENDING_REBOOT"]
             /\ expired' = FALSE
          \/ /\ answer = "refused"
             /\ slot' \in IF slot.image = << >> THEN {slot} ELSE {slot, [slot EXCEPT !.test = TRUE]}
             /\ Fail
             /\ UNCHANGED expired

\* A cancel that only looks at the states of a session
CancelAnything(answer) ==
    \/ answer = "already" /\ status.state = "IDLE" /\ UNCHANGED session
    \/ /\ status.state # "IDLE"
       /\ timer' = Unscheduled
       /\ Discard
       /\ answer = IF status'.state = "IDLE" THEN "ok" ELSE "refused"

Cancel(answer) ==
    \/ answer = "already" /\ status.state = "IDLE" /\ UNCHANGED session
    \/ answer = "refused" /\ status.state = "TRIAL_BOOT" /\ UNCHANGED session
    \/ /\ status.state \notin {"IDLE", "TRIAL_BOOT"}
       /\ timer' = Unscheduled
       /\ Discard
       /\ answer = IF status'.state = "IDLE" THEN "ok" ELSE "refused"

-----------------------------------------------------------------------------
(* The session's timer *)

InSession == status.state \in {"ARMED", "RECEIVING"}

Expire ==
    /\ InSession /\ ~expired
    /\ expired' = TRUE
    /\ UNCHANGED <<status, timer, slot, image, adapters>>

TimerFires ==
    /\ timer.scheduled
    /\ InSession => expired
    /\ timer' = [scheduled |-> FALSE, running |-> TRUE]
    /\ UNCHANGED <<status, expired, slot, image, adapters>>

\* Only a window that nobody took is closed
TimeoutArmed ==
    /\ timer.running
    /\ timer' = [timer EXCEPT !.running = FALSE]
    /\ IF status.state = "ARMED" THEN Discard ELSE UNCHANGED <<status, expired, slot>>
    /\ UNCHANGED <<image, adapters>>

\* update_timeout_handler does not look at the deadline.
Timeout ==
    /\ timer.running
    /\ timer' = [timer EXCEPT !.running = FALSE]
    /\ IF InSession THEN Discard ELSE UNCHANGED <<status, expired, slot>>
    /\ UNCHANGED <<image, adapters>>

-----------------------------------------------------------------------------
(* The adapters *)

Goto(a, call) == at' = [at EXCEPT ![a] = call]
Idle(a) == a \in Present /\ at[a] = "idle"
Active(a) == transfer[a].active

Keep == UNCHANGED <<transfer, window, handover, image>>

\* Retries cleanup: cancel of whatever session there is, and the transfer is over.
CancelCall(a) ==
    /\ at[a] = "cancel"
    /\ \E answer \in Answers : Cancel(answer)
    /\ transfer' = [transfer EXCEPT ![a] = NoTransfer]
    /\ Goto(a, "idle")
    /\ UNCHANGED <<window, handover, image>>

\* The maintenance UART gives up with a cancel; SLUP takes a window that is open.
ArmCall(a) ==
    /\ at[a] = "arm"
    /\ \E answer \in Answers :
         /\ Arm(answer)
         /\ Goto(a, IF answer = "ok" \/ (a = Can /\ answer = "already") THEN "begin"
                    ELSE IF a = Uart THEN "cancel" ELSE "idle")
    /\ Keep

BeginCall(a) ==
    /\ at[a] = "begin"
    /\ \E answer \in Answers :
         /\ Begin(a, answer)
         /\ IF answer = "ok"
            THEN /\ transfer' = [transfer EXCEPT ![a] = [active |-> TRUE, sent |-> 0]]
                 /\ Goto(a, IF a \in {Uart, Udp} THEN "write" ELSE "idle")
            ELSE Goto(a, "cancel") /\ UNCHANGED transfer
    /\ UNCHANGED <<window, handover, image>>

\* image_write_offset, UART and UDP: what it believes is checked against the session,
\* then the first chunk asks for the session and a later one is written.
Synchronized(a) == Active(a) /\ status = [state |-> "RECEIVING", transport |-> a]

ImageWrite(a) ==
    /\ Idle(a) /\ a \in {Uart, Udp}
    /\ a = Udp => window = "armed"
    /\ transfer' = IF Synchronized(a) THEN transfer ELSE [transfer EXCEPT ![a] = NoTransfer]
    /\ \/ /\ ~Synchronized(a) /\ status.transport # Ble
          /\ Goto(a, IF a = Uart THEN "arm" ELSE "begin")
       \/ Goto(a, IF Synchronized(a) THEN "write" ELSE "idle")
    /\ UNCHANGED <<session, window, handover, image>>

\* A chunk that is sent again comes at the wrong offset, refused as one that fails.
ImageWriteCall(a) ==
    /\ at[a] = "write" /\ transfer[a].sent < Chunks
    /\ \E answer \in Answers :
         /\ Write(a, transfer[a].sent, answer)
         /\ IF answer = "ok"
            THEN /\ transfer' = [transfer EXCEPT ![a].sent = transfer[a].sent + 1]
                 /\ Goto(a, IF transfer'[a].sent = Chunks THEN "finish" ELSE "idle")
            ELSE Goto(a, "cancel") /\ UNCHANGED transfer
    /\ UNCHANGED <<window, handover, image>>

ImageFinishCall(a) ==
    /\ at[a] = "finish"
    /\ \E answer \in Answers :
         /\ Finish(answer)
         /\ IF answer = "ok"
            THEN Goto(a, "idle") /\ transfer' = [transfer EXCEPT ![a] = NoTransfer]
            ELSE Goto(a, "cancel") /\ UNCHANGED transfer
    /\ UNCHANGED <<window, handover, image>>

\* image_cancel_write
ImageCancel(a) ==
    /\ Idle(a) /\ a \in {Uart, Udp}
    /\ a = Udp => window = "armed"
    /\ Goto(a, "cancel")
    /\ Keep /\ UNCHANGED session

BleOpen ==
    /\ Idle(Ble) /\ ~Active(Ble)
    /\ Goto(Ble, "arm")
    /\ Keep /\ UNCHANGED session

BleWrite ==
    /\ Idle(Ble) /\ Active(Ble) /\ transfer[Ble].sent < Chunks
    /\ \E answer \in Answers :
         /\ Write(Ble, transfer[Ble].sent, answer)
         /\ transfer' = IF answer = "ok" THEN [transfer EXCEPT ![Ble].sent = transfer[Ble].sent + 1] ELSE transfer
    /\ UNCHANGED <<at, window, handover, image>>

BleFinish ==
    /\ Idle(Ble) /\ Active(Ble) /\ transfer[Ble].sent = Chunks
    /\ \E answer \in Answers :
         /\ Finish(answer)
         /\ transfer' = IF answer = "ok" THEN [transfer EXCEPT ![Ble] = NoTransfer] ELSE transfer
    /\ UNCHANGED <<at, window, handover, image>>

\* A transfer given up without telling Update
BleForget ==
    /\ Idle(Ble) /\ Active(Ble)
    /\ transfer' = [transfer EXCEPT ![Ble] = NoTransfer]
    /\ UNCHANGED <<session, at, window, handover, image>>

\* The client cancels, its digest differs, or it did not come back in time.
BleCancel ==
    /\ Idle(Ble) /\ Active(Ble)
    /\ \E answer \in Answers : Cancel(answer)
    /\ transfer' = [transfer EXCEPT ![Ble] = NoTransfer]
    /\ UNCHANGED <<at, window, handover, image>>

\* ingest_begin: a transfer already under way is cancelled first.
CanBegin ==
    /\ Idle(Can)
    /\ IF Active(Can)
       THEN /\ \E answer \in Answers : Cancel(answer)
            /\ transfer' = [transfer EXCEPT ![Can] = NoTransfer]
       ELSE UNCHANGED <<session, transfer>>
    /\ Goto(Can, "arm")
    /\ UNCHANGED <<window, handover, image>>

\* ingest_data; it answers a chunk it has by itself.
CanData ==
    /\ Idle(Can) /\ Active(Can) /\ transfer[Can].sent < Chunks
    /\ \E answer \in Answers :
         /\ Write(Can, transfer[Can].sent, answer)
         /\ IF answer = "ok"
            THEN transfer' = [transfer EXCEPT ![Can].sent = transfer[Can].sent + 1] /\ UNCHANGED at
            ELSE Goto(Can, "cancel") /\ UNCHANGED transfer
    /\ UNCHANGED <<window, handover, image>>

CanEnd ==
    /\ Idle(Can) /\ Active(Can) /\ transfer[Can].sent = Chunks
    /\ \E answer \in Answers : Finish(answer)
    /\ transfer' = [transfer EXCEPT ![Can] = NoTransfer]
    /\ UNCHANGED <<at, window, handover, image>>

\* spaghetti_ota_arm, from a stored request or for OPEN_WIFI_UPDATE
OpenWindow(by) ==
    /\ mode = "normal" /\ window # "armed" /\ status.transport # Ble
    /\ handover = "idle"
    /\ \E answer \in Answers :
         /\ Arm(answer)
         /\ window' = IF answer = "ok" THEN "armed" ELSE window
         /\ handover' = IF answer = "ok" THEN by ELSE handover
    /\ UNCHANGED <<at, transfer, image>>

\* close_locked(true): the listener may not close
CloseLocked ==
    \E answer \in Answers :
        /\ Cancel(answer)
        /\ window' \in IF answer = "refused" THEN {"error"} ELSE {"closed", "error"}

\* The window's own timeout, a cancel, a lost network, a listener that did not open
CloseWindow ==
    /\ window # "closed"
    /\ CloseLocked
    /\ UNCHANGED <<at, transfer, handover, image>>

HandoverBegin ==
    /\ handover = "begin"
    /\ \E answer \in Answers :
         /\ Begin(Udp, answer)
         /\ handover' \in IF answer = "ok" THEN {"idle", "rollback"} ELSE {"rollback"}
    /\ UNCHANGED <<at, transfer, window, image>>

HandoverRollback ==
    /\ handover = "rollback"
    /\ handover' = "idle"
    /\ IF window = "closed"
       THEN UNCHANGED <<session, window>>
       ELSE CloseLocked
    /\ UNCHANGED <<at, transfer, image>>

-----------------------------------------------------------------------------
(* Core and MCUboot *)

\* Core waited CONFIG_SPAGHETTI_TRIAL_HEALTH_MS; when it cannot confirm it reboots.
ConfirmTrial ==
    /\ core = "trial"
    /\ \/ /\ status.state = "TRIAL_BOOT"
          /\ confirmed' = TRUE /\ core' = "running"
          /\ status' = [status EXCEPT !.state = "IDLE"]
       \/ /\ core' = "rebooting" /\ UNCHANGED confirmed
          /\ status' = IF status.state = "TRIAL_BOOT" THEN [status EXCEPT !.state = "ERROR"] ELSE status
    /\ UNCHANGED <<expired, timer, slot, mode, adapters>>

Whole(contents) == \E a \in Adapters : contents = [i \in 1 .. Chunks |-> a]

\* MCUboot tries a signed image that is marked for a test, erases one that is not
\* signed, and goes back to the previous one when the running image was not confirmed.
Swap ==
    \/ /\ confirmed /\ slot.test /\ Whole(slot.image)
       /\ confirmed' = FALSE /\ slot' = [image |-> Previous, test |-> FALSE]
    \/ /\ confirmed /\ slot.test
       /\ confirmed' = TRUE /\ slot' = Erased
    \/ /\ confirmed /\ ~slot.test
       /\ UNCHANGED <<confirmed, slot>>
    \/ /\ ~confirmed /\ slot.image = Previous
       /\ confirmed' = TRUE /\ slot' = [image |-> Broken, test |-> FALSE]
    \/ /\ ~confirmed /\ slot.image # Previous
       /\ UNCHANGED <<confirmed, slot>>

\* Power fails, the watchdog bites, or an adapter reboots after its answer.
Reboot ==
    /\ Swap
    /\ core' = IF confirmed' THEN "running" ELSE "trial"
    /\ mode' \in {"normal", "maintenance"}
    /\ status' = [state |-> IF confirmed' THEN "IDLE" ELSE "TRIAL_BOOT", transport |-> None]
    /\ expired' = FALSE
    /\ timer' = [scheduled |-> FALSE, running |-> FALSE]
    /\ at' = [a \in Adapters |-> "idle"]
    /\ transfer' = [a \in Adapters |-> NoTransfer]
    /\ window' = "closed" /\ handover' = "idle"

-----------------------------------------------------------------------------

Handler(a) ==
    \/ CancelCall(a) \/ ArmCall(a) \/ BeginCall(a)
    \/ ImageWrite(a) \/ ImageWriteCall(a) \/ ImageFinishCall(a) \/ ImageCancel(a)

Next ==
    \/ \E a \in Adapters : Handler(a)
    \/ BleOpen \/ BleWrite \/ BleFinish \/ BleCancel
    \/ CanBegin \/ CanData \/ CanEnd
    \/ \E by \in {"idle", "begin"} : OpenWindow(by)
    \/ CloseWindow \/ HandoverBegin \/ HandoverRollback
    \/ Expire \/ TimerFires \/ Timeout
    \/ ConfirmTrial \/ Reboot

Spec == Init /\ [][Next]_vars

\* Time passes and the update workqueue is served; no adapter has to go on.
FairSpec == Spec /\ WF_vars(Expire) /\ WF_vars(TimerFires) /\ WF_vars(Timeout)

-----------------------------------------------------------------------------
(* Properties *)

\* While a trial image waits to be confirmed MCUboot can go back to the one before: no
\* call, no timer and no left-over of a session erases it, until it runs again or the
\* trial is confirmed.
TrialKeepsRollback ==
    [][core = "trial" /\ slot.image = Previous
         => slot'.image = Previous \/ confirmed']_vars

\* A candidate that was cancelled, timed out or never finished is not tried at the
\* next reboot: Update reports no pending image only when MCUboot has none to try.
DiscardedNeverBoots ==
    status.state \in {"IDLE", "ARMED", "RECEIVING"} => ~slot.test

\* A session that receives is the transfer of an adapter that knows it: none is left
\* behind that nobody will finish or cancel.
ReceivingIsClaimed ==
    (status.state = "RECEIVING" /\ status.transport # Udp) => transfer[status.transport].active

\* README.md: the timer expires ARMED and RECEIVING sessions, whatever their adapter does.
SessionsEnd == InSession ~> ~InSession

\* README.md: adapters "may move bytes only after obtaining ownership through begin()".
WritersOwnTheSession ==
    [][(status.state = "RECEIVING" /\ status'.state = "RECEIVING" /\ slot' # slot)
         => slot'.image = Append(slot.image, status.transport)]_vars

\* TASK-367-01: after OPEN_WIFI_UPDATE the client continues over UDP.  A chunk that comes
\* to Update while UDP owns the session is not refused as one of another adapter.
HandoverUploads ==
    [][(at[Udp] = "begin" /\ at'[Udp] = "cancel" /\ status.transport = Udp)
         => status.state # "RECEIVING"]_vars
=============================================================================
