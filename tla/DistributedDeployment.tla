------------------------ MODULE DistributedDeployment ------------------------
(***************************************************************************)
(* One upload of a program that spans several Backbones: the transaction    *)
(* that prepareRemoteDeployment returns and the way the upload dialog runs  *)
(* it.  Every remote board is read and validated, then written one after    *)
(* the other with the generation that was read; the board on USB follows;   *)
(* commit keeps the result, and the finally of the dialog rolls back what   *)
(* was not committed.                                                       *)
(*                                                                          *)
(* Requests reach a board in the order they were sent, since every hop      *)
(* serves one at a time.  A call that was given up may still be carried out *)
(* later; RemoteCall is why it is not carried out twice.  Another editor    *)
(* may write to a board at any time, and a board may restart, after which   *)
(* its generations count from 1 again.                                      *)
(***************************************************************************)
EXTENDS Naturals, Sequences

CONSTANTS
    Targets,     \* how many remote boards take part
    MaxForeign,  \* bound: writes of the other editor
    MaxReboots   \* bound: restarts of boards

ASSUME DeploymentAssumption ==
    /\ Targets \in Nat \ {0}
    /\ MaxForeign \in Nat
    /\ MaxReboots \in Nat

Boards == 1..Targets

\* What a board may hold: what it had, the program of this upload, what
\* another editor wrote.
Configs == {"old", "new", "foreign"}

VARIABLES
    \* the boards
    live,        \* the configuration in force
    generation,
    boot,
    foreign,     \* writes of the other editor so far
    inbox,       \* requests under way to each board
    \* the transaction
    pc,
    at,          \* the target the loop is at
    waiting,     \* its call is not given up
    reply,       \* the answer that arrived for it
    retried,     \* applyConfig was sent again after BUSY
    original,    \* what each target held when it was read
    applied,     \* generation of the confirmed program, 0 for undefined
    uncertain,
    committed,
    failures     \* targets the rollback reports as not restored

boards == <<live, generation, boot, foreign, inbox>>
book == <<original, applied, uncertain, committed, failures>>
vars == <<boards, pc, at, waiting, reply, retried, book>>

\* A snapshot of GET_CONFIG.  The boot it was read in is not on the wire: it
\* is kept for the properties only.
Snapshots == [config : Configs, gen : Nat, boot : Nat]
Unread == [config |-> "old", gen |-> 0, boot |-> 0]

Get == [op |-> "get", read |-> Unread, config |-> "old"]
Apply(read, config) == [op |-> "apply", read |-> read, config |-> config]
Requests == [op : {"get", "apply"}, read : Snapshots, config : Configs]

\* The answers, and the errors of the client.
Reply(status) == [status |-> status, read |-> Unread]
NoReply == Reply("none")
Replies == [status : {"none", "snapshot", "applied", "busy", "error"}, read : Snapshots]

Steps == {"reading", "apply", "applying", "gap", "confirming", "rechecking", "host",
          "commit", "rollback", "checking", "restoring", "verifying", "done", "closed"}

TypeOK ==
    /\ live \in [Boards -> Configs]
    /\ generation \in [Boards -> Nat \ {0}]
    /\ boot \in [Boards -> Nat]
    /\ foreign \in Nat
    /\ inbox \in [Boards -> Seq(Requests)]
    /\ pc \in Steps
    /\ at \in 0..(Targets + 1)
    /\ waiting \in BOOLEAN
    /\ reply \in Replies
    /\ retried \in BOOLEAN
    /\ original \in [Boards -> Snapshots]
    /\ applied \in [Boards -> Nat]
    /\ uncertain \in [Boards -> BOOLEAN]
    /\ committed \in BOOLEAN
    /\ failures \in SUBSET Boards

\* A board may already run the program when the upload starts.
Init ==
    /\ live \in [Boards -> {"old", "new"}]
    /\ generation = [b \in Boards |-> 1]
    /\ boot = [b \in Boards |-> 0]
    /\ foreign = 0
    /\ inbox = [b \in Boards |-> IF b = 1 THEN <<Get>> ELSE <<>>]
    /\ pc = "reading"
    /\ at = 1
    /\ waiting = TRUE
    /\ reply = NoReply
    /\ retried = FALSE
    /\ original = [b \in Boards |-> Unread]
    /\ applied = [b \in Boards |-> 0]
    /\ uncertain = [b \in Boards |-> FALSE]
    /\ committed = FALSE
    /\ failures = {}

-----------------------------------------------------------------------------
(* The boards.                                                              *)

Snapshot(b) == [config |-> live[b], gen |-> generation[b], boot |-> boot[b]]

\* The answer r to the oldest request to b: it is lost, or reaches the caller
\* if the caller still waits for this very request.
Answer(b, r) ==
    /\ inbox' = [inbox EXCEPT ![b] = Tail(inbox[b])]
    /\ reply' \in IF waiting /\ b = at /\ Len(inbox[b]) = 1 THEN {r, NoReply} ELSE {reply}
    /\ UNCHANGED <<boot, foreign, pc, at, waiting, retried, book>>

ServeGet(b) ==
    /\ inbox[b] # <<>>
    /\ Head(inbox[b]).op = "get"
    /\ Answer(b, [status |-> "snapshot", read |-> Snapshot(b)])
    /\ UNCHANGED <<live, generation>>

\* The expected generation is not compared
AcceptAnyGeneration(b) ==
    /\ inbox[b] # <<>>
    /\ LET q == Head(inbox[b]) IN
       /\ q.op = "apply"
       /\ live' = [live EXCEPT ![b] = q.config]
       /\ generation' = [generation EXCEPT
                           ![b] = IF live[b] = q.config THEN generation[b] ELSE generation[b] + 1]
    /\ Answer(b, Reply("applied"))

\* apply_config_with_transaction for the generation that is in force.
Accept(b) ==
    /\ inbox[b] # <<>>
    /\ LET q == Head(inbox[b]) IN
       /\ q.op = "apply"
       /\ q.read.gen = generation[b]
       /\ live' = [live EXCEPT ![b] = q.config]
       /\ generation' = [generation EXCEPT
                           ![b] = IF live[b] = q.config THEN generation[b] ELSE generation[b] + 1]
    /\ Answer(b, Reply("applied"))

\* Any refusal: another generation, the write interval, a phase that failed
\* and was rolled back.
Refuse(b) ==
    /\ inbox[b] # <<>>
    /\ LET q == Head(inbox[b]) IN
       /\ q.op = "apply"
       /\ \E status \in {"error", "busy"} : Answer(b, Reply(status))
    /\ UNCHANGED <<live, generation>>

\* A request that never reaches its board.
Lose(b) ==
    /\ inbox[b] # <<>>
    /\ inbox' = [inbox EXCEPT ![b] = Tail(inbox[b])]
    /\ UNCHANGED <<live, generation, boot, foreign, pc, at, waiting, reply, retried, book>>

ForeignWrite(b) ==
    /\ foreign < MaxForeign
    /\ foreign' = foreign + 1
    /\ live' = [live EXCEPT ![b] = "foreign"]
    /\ generation' = [generation EXCEPT
                        ![b] = IF live[b] = "foreign" THEN generation[b] ELSE generation[b] + 1]
    /\ UNCHANGED <<boot, inbox, pc, at, waiting, reply, retried, book>>

\* config_init loads the stored configuration as generation 1.
Reboot(b) ==
    /\ boot[b] < MaxReboots
    /\ boot' = [boot EXCEPT ![b] = boot[b] + 1]
    /\ generation' = [generation EXCEPT ![b] = 1]
    /\ UNCHANGED <<live, foreign, inbox, pc, at, waiting, reply, retried, book>>

-----------------------------------------------------------------------------
(* The calls of the transaction.                                            *)

\* Sends q to b and awaits the answer at step p.
Call(b, q, p) ==
    /\ inbox' = [inbox EXCEPT ![b] = Append(inbox[b], q)]
    /\ pc' = p
    /\ at' = b
    /\ waiting' = TRUE
    /\ reply' = NoReply
    /\ UNCHANGED <<live, generation, boot, foreign>>

\* On to step p at target b, without a call.
Continue(b, p) ==
    /\ pc' = p
    /\ at' = b
    /\ waiting' = FALSE
    /\ reply' = NoReply
    /\ UNCHANGED boards

\* The awaited call timed out or was cancelled.
TimeOut ==
    /\ waiting
    /\ reply = NoReply
    /\ reply' = Reply("error")
    /\ waiting' = FALSE
    /\ UNCHANGED <<boards, pc, at, retried, book>>

At(p) == pc = p /\ reply # NoReply
Answered == reply.status = "snapshot"

-----------------------------------------------------------------------------
(* prepareRemoteDeployment.                                                 *)

Read ==
    /\ At("reading")
    /\ Answered
    /\ original' = [original EXCEPT ![at] = reply.read]
    /\ IF at < Targets THEN Call(at + 1, Get, "reading")
       ELSE Continue(1, "apply")
    /\ UNCHANGED <<retried, applied, uncertain, committed, failures>>

\* A board that cannot be read; also, after the last of them, a program that
\* does not compile, a driver that cannot be installed, a failed validation.
PrepareFails ==
    /\ \/ At("reading") /\ ~Answered
       \/ pc = "apply" /\ at = 1 /\ ~uncertain[1]
    /\ Continue(at, "done")
    /\ UNCHANGED <<retried, book>>

-----------------------------------------------------------------------------
(* apply().                                                                 *)

AlreadyThere(b) == original[b].config = "new"

Skip ==
    /\ pc = "apply"
    /\ at <= Targets
    /\ AlreadyThere(at)
    /\ Continue(at + 1, "apply")
    /\ UNCHANGED <<retried, book>>

Write ==
    /\ pc = "apply"
    /\ at <= Targets
    /\ ~AlreadyThere(at)
    /\ uncertain' = [uncertain EXCEPT ![at] = TRUE]
    /\ retried' = FALSE
    /\ Call(at, Apply(original[at], "new"), "applying")
    /\ UNCHANGED <<original, applied, committed, failures>>

\* isRetryableConfigApply, once.
Busy ==
    /\ At("applying")
    /\ reply.status = "busy"
    /\ ~retried
    /\ Continue(at, "gap")
    /\ UNCHANGED <<retried, book>>

WriteAgain ==
    /\ pc = "gap"
    /\ retried' = TRUE
    /\ Call(at, Apply(original[at], "new"), "applying")
    /\ UNCHANGED book

ReadBack ==
    /\ At("applying")
    /\ \/ reply.status = "applied" /\ Call(at, Get, "confirming")
       \/ reply.status \in {"busy", "error"} /\ (reply.status = "busy" => retried)
          /\ Call(at, Get, "rechecking")
    /\ UNCHANGED <<retried, book>>

\* Any read-back will do
ConfirmedByAnything ==
    /\ At("confirming") \/ At("rechecking")
    /\ Answered
    /\ applied' = [applied EXCEPT ![at] = reply.read.gen]
    /\ uncertain' = [uncertain EXCEPT ![at] = FALSE]
    /\ Continue(at + 1, "apply")
    /\ UNCHANGED <<retried, original, committed, failures>>

\* Only a read-back that shows the program makes the write certain.
Confirmed ==
    /\ At("confirming") \/ At("rechecking")
    /\ Answered
    /\ reply.read.config = "new"
    /\ applied' = [applied EXCEPT ![at] = reply.read.gen]
    /\ uncertain' = [uncertain EXCEPT ![at] = FALSE]
    /\ Continue(at + 1, "apply")
    /\ UNCHANGED <<retried, original, committed, failures>>

NotConfirmed ==
    /\ Answered => reply.read.config # "new"
    /\ \/ At("confirming") /\ Call(at, Get, "rechecking")
       \/ At("rechecking") /\ Continue(Targets, "rollback")
    /\ UNCHANGED <<retried, book>>

\* Every target is certain: deployConfig writes the board on USB.
Host ==
    /\ pc = "apply"
    /\ at > Targets
    /\ \E p \in {"commit", "rollback"} : Continue(Targets, p)
    /\ UNCHANGED <<retried, book>>

Commit ==
    /\ pc = "commit"
    /\ committed' = TRUE
    /\ Continue(Targets, "rollback")
    /\ UNCHANGED <<retried, original, applied, uncertain, failures>>

-----------------------------------------------------------------------------
(* rollback(), from the last target to the first.                           *)

\* A write without an answer is taken for one that did not happen
SettledUnlessApplied(b) == applied[b] = 0

Settled(b) == applied[b] = 0 /\ ~uncertain[b]

RollbackEnds ==
    /\ pc = "rollback"
    /\ at = 0 \/ committed
    /\ Continue(at, "done")
    /\ UNCHANGED <<retried, book>>

PassOver ==
    /\ pc = "rollback"
    /\ at > 0
    /\ ~committed
    /\ Settled(at)
    /\ Continue(at - 1, "rollback")
    /\ UNCHANGED <<retried, book>>

Check ==
    /\ pc = "rollback"
    /\ at > 0
    /\ ~committed
    /\ ~Settled(at)
    /\ Call(at, Get, "checking")
    /\ UNCHANGED <<retried, book>>

\* The write never arrived.
Untouched ==
    /\ At("checking")
    /\ Answered
    /\ uncertain[at]
    /\ reply.read.config = original[at].config
    /\ uncertain' = [uncertain EXCEPT ![at] = FALSE]
    /\ Continue(at - 1, "rollback")
    /\ UNCHANGED <<retried, original, applied, committed, failures>>

\* The board still holds what this transaction wrote.
Ours(s) == s.config = "new" /\ applied[at] \in {0, s.gen}

Restore ==
    /\ At("checking")
    /\ Answered
    /\ ~(uncertain[at] /\ reply.read.config = original[at].config)
    /\ Ours(reply.read)
    /\ Call(at, Apply(reply.read, original[at].config), "restoring")
    /\ UNCHANGED <<retried, book>>

Verify ==
    /\ At("restoring")
    /\ reply.status = "applied"
    /\ Call(at, Get, "verifying")
    /\ UNCHANGED <<retried, book>>

Restored ==
    /\ At("verifying")
    /\ Answered
    /\ reply.read.config = original[at].config
    /\ applied' = [applied EXCEPT ![at] = 0]
    /\ uncertain' = [uncertain EXCEPT ![at] = FALSE]
    /\ Continue(at - 1, "rollback")
    /\ UNCHANGED <<retried, original, committed, failures>>

NotRestored ==
    /\ \/ At("checking") /\ ~Answered
       \/ /\ At("checking")
          /\ ~(uncertain[at] /\ reply.read.config = original[at].config)
          /\ ~Ours(reply.read)
       \/ At("restoring") /\ reply.status # "applied"
       \/ At("verifying") /\ (Answered => reply.read.config # original[at].config)
    /\ failures' = failures \union {at}
    /\ Continue(at - 1, "rollback")
    /\ UNCHANGED <<retried, original, applied, uncertain, committed>>

\* The page is closed or reloaded: nothing of the transaction survives.
Close ==
    /\ pc \notin {"done", "closed"}
    /\ Continue(at, "closed")
    /\ UNCHANGED <<retried, book>>

-----------------------------------------------------------------------------
Transaction ==
    \/ TimeOut \/ Read \/ PrepareFails
    \/ Skip \/ Write \/ Busy \/ WriteAgain \/ ReadBack \/ Confirmed \/ NotConfirmed
    \/ Host \/ Commit
    \/ RollbackEnds \/ PassOver \/ Check \/ Untouched \/ Restore \/ Verify
    \/ Restored \/ NotRestored

Next ==
    \/ Transaction \/ Close
    \/ \E b \in Boards : \/ ServeGet(b) \/ Accept(b) \/ Refuse(b) \/ Lose(b)
                         \/ ForeignWrite(b) \/ Reboot(b)

\* The page goes on running, and every call ends (SpaghettiClient, CallsEnd).
Spec == Init /\ [][Next]_vars /\ WF_vars(Transaction)

-----------------------------------------------------------------------------
(* What the transaction promises.                                           *)

\* "Ripristino incompleto" or nothing: an upload that ends without a commit
\* leaves no board with the program it wrote, except boards it names.
RollbackOrReport ==
    pc = "done" /\ ~committed =>
        \A b \in Boards :
            live[b] = "new" /\ original[b].gen # 0 /\ ~AlreadyThere(b) => b \in failures

\* A commit is a commit of all: no board goes on with what it had before.
CommitMeansAll ==
    committed => \A b \in Boards : live[b] # "old"

\* The test "does not overwrite a configuration changed by another actor":
\* what a write of the transaction replaces is what was read with the
\* generation that allowed it, and a restore replaces the program only, as
\* long as the board has not restarted since.
ReplacesWhatWasRead ==
    [][\A b \in Boards :
         inbox'[b] # inbox[b] /\ live'[b] # live[b] =>
            LET q == Head(inbox[b])
            IN q.read.boot = boot[b] =>
                  /\ q.read.config = live[b]
                  /\ q.config # "new" => live[b] = "new"]_vars

\* The same without the proviso.
NeverReplacesForeign ==
    [][\A b \in Boards :
         inbox'[b] # inbox[b] /\ live'[b] # live[b] =>
            Head(inbox[b]).read.config = live[b]]_vars

=============================================================================
