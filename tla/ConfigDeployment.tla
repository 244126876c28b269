--------------------------- MODULE ConfigDeployment ---------------------------
(***************************************************************************)
(* deployConfig of the editor against one Core: validate, apply with the    *)
(* generation the editor knows, read back, and the reconciliation of what   *)
(* stayed ambiguous.  A configuration travels in chunks: the client cuts    *)
(* uploads and puts downloads together, the Core has one upload slot.       *)
(* Several editors work on the same Core; requests and answers may be lost, *)
(* a call may be given up while its request is under way, the Core may      *)
(* restart at any time.                                                     *)
(*                                                                          *)
(* A configuration is the sequence of its chunks, each named after the      *)
(* editor it comes from; its hash is the sequence itself.  While the Core   *)
(* stays up a request that is sent again is answered from the replay cache  *)
(* (RemoteCall); after a restart it is carried out again.                   *)
(***************************************************************************)
EXTENDS Naturals, Sequences

CONSTANTS
    Editors,
    Initial,     \* the author of what the Core held before
    Chunks,      \* chunks of every configuration
    MaxReboots   \* bound: restarts of the Core

ASSUME TransferAssumption ==
    /\ Initial \notin Editors
    /\ Chunks \in Nat \ {0, 1}
    /\ MaxReboots \in Nat

Authors == Editors \union {Initial}
Configs == [1..Chunks -> Authors]
Whole(a) == [i \in 1..Chunks |-> a]

VARIABLES
    \* the Core
    config,      \* the configuration in force
    generation,
    boot,
    upload,      \* config_upload
    \* the calls, one at a time for each editor
    inbox,       \* requests under way
    call,        \* the request of the call that is awaited
    waiting,
    reply,       \* the answer that arrived for it
    served,      \* the boot in which the Core carried it out, and its answer
    \* deployConfig
    pc,
    why,         \* what the download is for
    expected,    \* context.expectedGeneration
    applied,     \* the generation applyConfig answered
    download,    \* the chunks getConfig has so far, with the header of the first
    outcome,
    installed    \* the editors whose configuration ever was in force

core == <<config, generation, boot, upload, installed>>
calls == <<inbox, call, waiting, reply, served>>
flow == <<pc, why, expected, applied, download, outcome>>
vars == <<core, calls, flow>>

\* A chunked request carries the token of its transfer: one for the
\* validation and one for the application of every deployment.
Operations == {"validate", "apply", "get"}
Requests == [op : Operations, chunk : 1..Chunks, gen : Nat]
NoRequest == [op |-> "get", chunk |-> 1, gen |-> 0]

Statuses == {"none", "ack", "valid", "invalid", "applied", "same", "snapshot",
             "conflict", "refused", "lost"}
Answers == [status : Statuses, gen : Nat, hash : Configs, chunk : Authors]
Plain(status) == [status |-> status, gen |-> 0, hash |-> Whole(Initial), chunk |-> Initial]
NoAnswer == Plain("none")

EmptySlot == [editor |-> Initial, op |-> "get", gen |-> 0, got |-> <<>>]
NotServed == [boot |-> 0, answer |-> NoAnswer]
NoDownload == [gen |-> 0, hash |-> Whole(Initial), got |-> <<>>]

Outcomes == {"none", "SUCCESS", "NO_OP", "VALIDATION_FAILED", "STALE_GENERATION",
             "AMBIGUOUS_RESOLVED_APPLIED", "AMBIGUOUS_RESOLVED_NOT_APPLIED",
             "READBACK_MISMATCH", "REMOTE_ERROR"}
Recorded == {"SUCCESS", "NO_OP", "AMBIGUOUS_RESOLVED_APPLIED"}

TypeOK ==
    /\ config \in Configs
    /\ generation \in Nat \ {0}
    /\ boot \in 1..(MaxReboots + 1)
    /\ upload \in [editor : Authors, op : Operations, gen : Nat, got : Seq(Authors)]
    /\ installed \in SUBSET Authors
    /\ inbox \in [Editors -> Seq(Requests)]
    /\ call \in [Editors -> Requests]
    /\ waiting \in [Editors -> BOOLEAN]
    /\ reply \in [Editors -> Answers]
    /\ served \in [Editors -> [boot : Nat, answer : Answers]]
    /\ pc \in [Editors -> {"idle", "validate", "apply", "read", "done"}]
    /\ why \in [Editors -> {"none", "readback", "conflict", "ambiguous"}]
    /\ expected \in [Editors -> Nat]
    /\ applied \in [Editors -> Nat]
    /\ download \in [Editors -> [gen : Nat, hash : Configs, got : Seq(Authors)]]
    /\ outcome \in [Editors -> Outcomes]

\* The Core may already hold what one of the editors is about to deploy.
Init ==
    /\ \E a \in Authors : config = Whole(a) /\ installed = {a}
    /\ generation = 1
    /\ boot = 1
    /\ upload = EmptySlot
    /\ inbox = [e \in Editors |-> <<>>]
    /\ call = [e \in Editors |-> NoRequest]
    /\ waiting = [e \in Editors |-> FALSE]
    /\ reply = [e \in Editors |-> NoAnswer]
    /\ served = [e \in Editors |-> NotServed]
    /\ pc = [e \in Editors |-> "idle"]
    /\ why = [e \in Editors |-> "none"]
    /\ expected = [e \in Editors |-> 0]
    /\ applied = [e \in Editors |-> 0]
    /\ download = [e \in Editors |-> NoDownload]
    /\ outcome = [e \in Editors |-> "none"]

-----------------------------------------------------------------------------
(* The Core: config_ops.c.                                                  *)

\* The answer a to the oldest request of e.  It reaches the call if this is
\* the request awaited, unless it is lost.
Answer(e, a) ==
    LET awaited == waiting[e] /\ Len(inbox[e]) = 1
    IN
    /\ inbox' = [inbox EXCEPT ![e] = Tail(inbox[e])]
    /\ served' = IF awaited THEN [served EXCEPT ![e] = [boot |-> boot, answer |-> a]] ELSE served
    /\ reply' \in IF awaited THEN {reply, [reply EXCEPT ![e] = a]} ELSE {reply}
    /\ UNCHANGED <<boot, call, waiting, flow>>

Request(e) == Head(inbox[e])
Asked(e, ops) == inbox[e] # <<>> /\ Request(e).op \in ops

ServeGet(e) ==
    /\ Asked(e, {"get"})
    /\ Answer(e, [status |-> "snapshot", gen |-> generation, hash |-> config,
                  chunk |-> config[Request(e).chunk]])
    /\ UNCHANGED <<config, generation, upload, installed>>

Vacant == upload.got = <<>>

\* The token of the transfer is not compared
SameTransferOfAnyone(e) == upload.op = Request(e).op /\ upload.gen = Request(e).gen

\* The slot holds the transfer that the request belongs to.
SameTransfer(e) ==
    upload.editor = e /\ upload.op = Request(e).op /\ upload.gen = Request(e).gen

Received(e) == IF Vacant THEN 0 ELSE Len(upload.got)

\* What is wrong with a chunk, before its bytes are looked at.
RefuseChunk(e) ==
    /\ Asked(e, {"validate", "apply"})
    /\ \/ Vacant /\ Request(e).chunk # 1 /\ Answer(e, Plain("conflict"))
       \/ ~Vacant /\ ~SameTransfer(e) /\ Answer(e, Plain("refused"))
       \/ ~Vacant /\ SameTransfer(e) /\ Request(e).chunk > Received(e) + 1
            /\ Answer(e, Plain("refused"))
    /\ UNCHANGED <<config, generation, upload, installed>>

\* The chunk continues the transfer, or begins one.
Continues(e) ==
    /\ Asked(e, {"validate", "apply"})
    /\ Vacant \/ SameTransfer(e)
    /\ Request(e).chunk = Received(e) + 1

\* A chunk that is already there, or not yet the last one.
StoreChunk(e) ==
    /\ \/ /\ Asked(e, {"validate", "apply"})
          /\ ~Vacant /\ SameTransfer(e)
          /\ Request(e).chunk <= Received(e)
          /\ UNCHANGED upload
       \/ /\ Continues(e)
          /\ Request(e).chunk < Chunks
          /\ upload' = [editor |-> e, op |-> Request(e).op, gen |-> Request(e).gen,
                        got |-> Append(upload.got, e)]
    /\ Answer(e, Plain("ack"))
    /\ UNCHANGED <<config, generation, installed>>

\* The last chunk leaves the slot empty, whatever becomes of the transfer.
Completes(e, op) ==
    /\ Continues(e)
    /\ Request(e).op = op
    /\ Request(e).chunk = Chunks
    /\ upload' = EmptySlot

Validate(e) ==
    /\ Completes(e, "validate")
    /\ \E status \in {"valid", "invalid"} : Answer(e, Plain(status))
    /\ UNCHANGED <<config, generation, installed>>

\* Another generation, or any phase of the application that failed: a Module
\* that answers -ESTALE or -EEXIST is a conflict as well.
RefuseApply(e) ==
    /\ Completes(e, "apply")
    /\ \/ Answer(e, Plain("conflict"))
       \/ Request(e).gen = generation /\ Answer(e, Plain("refused"))
    /\ UNCHANGED <<config, generation, installed>>

AcceptApply(e) ==
    LET candidate == Append(upload.got, e)
        same == candidate = config
    IN
    /\ Completes(e, "apply")
    /\ Request(e).gen = generation
    /\ config' = candidate
    /\ generation' = IF same THEN generation ELSE generation + 1
    /\ installed' = installed \union {e}
    /\ Answer(e, [Plain(IF same THEN "same" ELSE "applied") EXCEPT !.gen = generation'])

\* config_upload_expire: 15 s without a chunk.
Expire ==
    /\ ~Vacant
    /\ upload' = EmptySlot
    /\ UNCHANGED <<config, generation, boot, installed, calls, flow>>

\* config_init loads the stored configuration as generation 1.
Reboot ==
    /\ boot <= MaxReboots
    /\ boot' = boot + 1
    /\ generation' = 1
    /\ upload' = EmptySlot
    /\ UNCHANGED <<config, installed, calls, flow>>

-----------------------------------------------------------------------------
(* The calls.                                                               *)

Lose(e) ==
    /\ inbox[e] # <<>>
    /\ inbox' = [inbox EXCEPT ![e] = Tail(inbox[e])]
    /\ UNCHANGED <<core, call, waiting, reply, served, flow>>

\* The retry of SpaghettiClient: the replay cache answers it unless the Core
\* restarted.
Resend(e) ==
    /\ waiting[e]
    /\ reply[e] = NoAnswer
    /\ inbox[e] = <<>>
    /\ IF served[e].boot = boot
       THEN reply' = [reply EXCEPT ![e] = served[e].answer] /\ UNCHANGED inbox
       ELSE inbox' = [inbox EXCEPT ![e] = <<call[e]>>] /\ UNCHANGED reply
    /\ UNCHANGED <<core, call, waiting, served, flow>>

GiveUp(e) ==
    /\ waiting[e]
    /\ reply[e] = NoAnswer
    /\ waiting' = [waiting EXCEPT ![e] = FALSE]
    /\ reply' = [reply EXCEPT ![e] = Plain("lost")]
    /\ UNCHANGED <<core, inbox, call, served, flow>>

Call(e, op, chunk, gen) ==
    LET q == [op |-> op, chunk |-> chunk, gen |-> gen] IN
    /\ inbox' = [inbox EXCEPT ![e] = Append(inbox[e], q)]
    /\ call' = [call EXCEPT ![e] = q]
    /\ waiting' = [waiting EXCEPT ![e] = TRUE]
    /\ reply' = [reply EXCEPT ![e] = NoAnswer]
    /\ served' = [served EXCEPT ![e] = NotServed]
    /\ pc' = [pc EXCEPT ![e] = IF op = "get" THEN "read" ELSE op]

-----------------------------------------------------------------------------
(* deployConfig, transferConfig and getConfig.                              *)

Start(e) ==
    /\ pc[e] = "idle"
    /\ expected' = [expected EXCEPT ![e] = generation]
    /\ Call(e, "validate", 1, 0)
    /\ UNCHANGED <<core, why, applied, download, outcome>>

Got(e, step, statuses) == pc[e] = step /\ reply[e].status \in statuses

End(e, o) ==
    /\ pc' = [pc EXCEPT ![e] = "done"]
    /\ outcome' = [outcome EXCEPT ![e] = o]
    /\ waiting' = [waiting EXCEPT ![e] = FALSE]
    /\ UNCHANGED <<core, inbox, call, reply, served, why, expected, applied, download>>

NextChunk(e) ==
    /\ pc[e] \in {"validate", "apply"}
    /\ reply[e].status = "ack"
    /\ Call(e, pc[e], call[e].chunk + 1, call[e].gen)
    /\ UNCHANGED <<core, why, expected, applied, download, outcome>>

Validated(e) ==
    /\ Got(e, "validate", {"valid"})
    /\ Call(e, "apply", 1, expected[e])
    /\ UNCHANGED <<core, why, expected, applied, download, outcome>>

\* A conflict is nobody's case
NotValidatedButConflict(e) ==
    \/ Got(e, "validate", {"invalid"}) /\ End(e, "VALIDATION_FAILED")
    \/ Got(e, "validate", {"refused", "lost"}) /\ End(e, "REMOTE_ERROR")

NotValidated(e) ==
    \/ Got(e, "validate", {"invalid"}) /\ End(e, "VALIDATION_FAILED")
    \/ Got(e, "validate", {"conflict", "refused", "lost"}) /\ End(e, "REMOTE_ERROR")

\* Nothing changed: recorded without a read-back.
NoOp(e) ==
    /\ Got(e, "apply", {"same"})
    /\ End(e, "NO_OP")

\* No answer is taken for not applied
ConsultUnlessLost(e) ==
    \/ /\ Got(e, "apply", {"lost"})
       /\ End(e, "AMBIGUOUS_RESOLVED_NOT_APPLIED")
    \/ /\ Got(e, "apply", {"applied", "conflict", "refused"})
       /\ why' = [why EXCEPT ![e] = CASE reply[e].status = "applied" -> "readback"
                                      [] reply[e].status = "conflict" -> "conflict"
                                      [] OTHER -> "ambiguous"]
       /\ applied' = [applied EXCEPT ![e] = reply[e].gen]
       /\ Call(e, "get", 1, 0)
       /\ UNCHANGED <<core, expected, download, outcome>>

\* Everything else is settled by a download.
Consult(e) ==
    /\ Got(e, "apply", {"applied", "conflict", "refused", "lost"})
    /\ why' = [why EXCEPT ![e] = CASE reply[e].status = "applied" -> "readback"
                                   [] reply[e].status = "conflict" -> "conflict"
                                   [] OTHER -> "ambiguous"]
    /\ applied' = [applied EXCEPT ![e] = reply[e].gen]
    /\ Call(e, "get", 1, 0)
    /\ UNCHANGED <<core, expected, download, outcome>>

\* The generation alone is compared
FitsByGeneration(e) == call[e].chunk = 1 \/ reply[e].gen = download[e].gen

\* A chunk fits the ones before it: same generation, same hash.
Fits(e) ==
    \/ call[e].chunk = 1
    \/ reply[e].gen = download[e].gen /\ reply[e].hash = download[e].hash

Extended(e) == [gen |-> reply[e].gen, hash |-> reply[e].hash,
                got |-> Append(download[e].got, reply[e].chunk)]

DownloadChunk(e) ==
    /\ Got(e, "read", {"snapshot"})
    /\ Fits(e)
    /\ call[e].chunk < Chunks
    /\ download' = [download EXCEPT ![e] = Extended(e)]
    /\ Call(e, "get", call[e].chunk + 1, 0)
    /\ UNCHANGED <<core, why, expected, applied, outcome>>

DownloadFails(e) ==
    /\ Got(e, "read", {"snapshot", "lost"})
    /\ reply[e].status = "snapshot" => ~Fits(e)
    /\ End(e, "REMOTE_ERROR")

\* A generation that moved is taken for the editor's own
VerdictByGeneration(e, d) ==
    LET mine == d.hash = Whole(e) IN
    CASE why[e] = "readback" ->
           IF d.gen = applied[e] /\ mine THEN "SUCCESS" ELSE "READBACK_MISMATCH"
      [] why[e] = "conflict" ->
           IF d.gen = expected[e] THEN "REMOTE_ERROR" ELSE "STALE_GENERATION"
      [] OTHER ->
           IF d.gen # expected[e] THEN "AMBIGUOUS_RESOLVED_APPLIED"
           ELSE "AMBIGUOUS_RESOLVED_NOT_APPLIED"

\* resolveStaleGeneration, reconcileAmbiguousApply and the read-back.
Verdict(e, d) ==
    LET mine == d.hash = Whole(e) IN
    CASE why[e] = "readback" ->
           IF d.gen = applied[e] /\ mine THEN "SUCCESS" ELSE "READBACK_MISMATCH"
      [] why[e] = "conflict" ->
           IF d.gen = expected[e] THEN "REMOTE_ERROR" ELSE "STALE_GENERATION"
      [] OTHER ->
           IF mine THEN "AMBIGUOUS_RESOLVED_APPLIED" ELSE "AMBIGUOUS_RESOLVED_NOT_APPLIED"

Judge(e) ==
    /\ Got(e, "read", {"snapshot"})
    /\ Fits(e)
    /\ call[e].chunk = Chunks
    /\ download' = [download EXCEPT ![e] = Extended(e)]
    /\ outcome' = [outcome EXCEPT ![e] = Verdict(e, Extended(e))]
    /\ pc' = [pc EXCEPT ![e] = "done"]
    /\ waiting' = [waiting EXCEPT ![e] = FALSE]
    /\ UNCHANGED <<core, inbox, call, reply, served, why, expected, applied>>

Flow(e) ==
    \/ NextChunk(e) \/ Validated(e) \/ NotValidated(e) \/ NoOp(e) \/ Consult(e)
    \/ DownloadChunk(e) \/ DownloadFails(e) \/ Judge(e) \/ GiveUp(e)

Next ==
    \/ \E e \in Editors :
         \/ ServeGet(e) \/ RefuseChunk(e) \/ StoreChunk(e)
         \/ Validate(e) \/ RefuseApply(e) \/ AcceptApply(e)
         \/ Lose(e) \/ Resend(e) \/ Start(e) \/ Flow(e)
    \/ Expire \/ Reboot

\* Every call ends (SpaghettiClient, CallsEnd) and the page goes on running.
Spec == Init /\ [][Next]_vars /\ \A e \in Editors : WF_vars(Flow(e))

-----------------------------------------------------------------------------
(* What a deployment promises.                                              *)

\* The upload slot never puts chunks of two transfers together: what is in
\* force is the whole configuration of one author.
WholeConfig == \E a \in Authors : config = Whole(a)

\* getConfig: chunks read before and after a change, or before and after a
\* restart that brings the same generation back, are never one download.
DownloadIsOne ==
    \A e \in Editors :
        Len(download[e].got) = Chunks => download[e].got = download[e].hash

\* "only records a DeploymentRecordV1 once a read-back confirms": whatever is
\* recorded as deployed was in force.
RecordWasInForce == \A e \in Editors : outcome[e] \in Recorded => e \in installed

\* An outcome that says what became of the deployment is final: no request
\* still under way installs the configuration afterwards.
VerdictIsFinal ==
    [][\A e \in Editors :
         outcome[e] \notin {"none", "REMOTE_ERROR"} /\ config' # config
            => config' # Whole(e)]_vars

\* Every deployment started comes to an outcome.
DeployEnds == \A e \in Editors : (pc[e] # "idle") ~> (pc[e] = "done")

\* deployConfig: "reboot durante apply viene riconciliato da boot ID + Config
\* hash".  A deployment whose configuration is in force when it looks is not
\* reported as overtaken by a change of the Core's configuration.
RebootIsReconciled ==
    \A e \in Editors :
        outcome[e] = "STALE_GENERATION" => download[e].hash # Whole(e)
=============================================================================
