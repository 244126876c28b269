--------------------- MODULE DistributedDeployment_proofs ---------------------
(***************************************************************************)
(* Proofs about DistributedDeployment, for every number of boards, of       *)
(* writes of other editors and of restarts, whatever is lost or late.       *)
(***************************************************************************)
EXTENDS DistributedDeployment, TLAPS, SequenceTheorems

Calling == {"reading", "applying", "gap", "confirming", "rechecking",
            "checking", "restoring", "verifying"}
Writing == {"applying", "gap", "confirming", "rechecking"}
Undone == {"rollback", "checking", "restoring", "verifying", "done", "closed"}

\* The transaction has given up: it restores, or it is over.
Undoing == ~committed /\ pc \in Undone

\* s is a snapshot of b: what it tells of its generation holds for as long as
\* b does not restart.
PastOf(s, config, gen, start) ==
    /\ s.boot <= start
    /\ s.boot = start => s.gen <= gen
    /\ s.boot = start /\ s.gen = gen => s.config = config

Past(s, b) == PastOf(s, live[b], generation[b], boot[b])

\* A write carries what was read, and nothing but the program of the upload
\* replaces another program.
RequestOK(q, b) ==
    q.op = "apply" =>
        /\ Past(q.read, b)
        /\ q.config = "new" \/ (q.read.config = "new" /\ Undoing)

RequestsInv(b) == \A i \in 1..Len(inbox[b]) : RequestOK(inbox[b][i], b)

\* Nothing of the upload is on b or on its way there.
Clean(b) ==
    /\ original[b].config # "new" /\ original[b].gen # 0 => live[b] # "new"
    /\ \A i \in 1..Len(inbox[b]) : inbox[b][i].op = "apply" => inbox[b][i].config # "new"

\* The boards that a write that goes forward is done with.
Passed(b) == (pc \in {"apply"} \union Writing /\ b < at) \/ pc = "commit" \/ committed

BoardInv(b) ==
    /\ Past(original[b], b)
    /\ RequestsInv(b)
    /\ Settled(b) /\ b \notin failures => Clean(b)
    /\ ~Settled(b) => original[b].config # "new"
    /\ ~Undoing /\ (Passed(b) \/ original[b].config = "new") => live[b] # "old"
    /\ uncertain[b] => applied[b] = 0

AtInv ==
    /\ pc = "apply" => at # 0
    /\ pc = "rollback" => at <= Targets
    /\ pc \in Calling => at \in Boards
    /\ waiting => pc \in Calling
    /\ committed => pc \in {"rollback", "done", "closed"}

\* A snapshot that arrived: nothing is under way to its board any more.
ReplyInv ==
    reply.status = "snapshot" =>
        /\ at \in Boards
        /\ inbox[at] = <<>>
        /\ Past(reply.read, at)
        /\ reply.read.gen # 0
        /\ reply.read.config # "new" => live[at] # "new"
        /\ reply.read.config = "new" /\ ~Undoing => live[at] # "old"

StageInv ==
    /\ pc = "reading" => \A b \in Boards : Settled(b)
    /\ pc = "apply" => \A b \in Boards : b >= at => Settled(b)
    /\ pc \in Writing => uncertain[at] /\ \A b \in Boards : b > at => Settled(b)
    /\ pc \in {"rollback", "checking", "restoring", "verifying"} /\ ~committed =>
          \A b \in Boards : b > at => Settled(b) \/ b \in failures
    /\ pc \in {"checking", "restoring", "verifying"} => ~Settled(at)
    /\ pc = "done" /\ ~committed => \A b \in Boards : Settled(b) \/ b \in failures

Inv ==
    /\ TypeOK
    /\ AtInv
    /\ ReplyInv
    /\ StageInv
    /\ \A b \in Boards : BoardInv(b)

-----------------------------------------------------------------------------
(* Steps of the boards.                                                     *)

LEMMA ReplyTypes ==
    /\ Unread \in Snapshots
    /\ \A s \in {"none", "applied", "busy", "error"} : Reply(s) \in Replies /\ Reply(s).status = s
    /\ NoReply \in Replies /\ NoReply.status = "none"
<1>1. Unread \in Snapshots
  BY DEF Unread, Snapshots, Configs
<1> QED
  BY <1>1 DEF Reply, Replies, NoReply

\* Every element of what is left of a queue was in it.
LEMMA TailHas ==
    ASSUME NEW S, NEW s \in Seq(S), s # <<>>
    PROVE  /\ Tail(s) \in Seq(S)
           /\ \A i \in 1..Len(Tail(s)) : \E j \in 1..Len(s) : Tail(s)[i] = s[j]
           /\ Head(s) = s[1] /\ 1 \in 1..Len(s)
           /\ Len(s) = 1 => Tail(s) = <<>>
<1>1. /\ Tail(s) \in Seq(S) /\ Len(Tail(s)) = Len(s) - 1 /\ Len(s) \in Nat \ {0}
      /\ \A i \in 1..Len(Tail(s)) : Tail(s)[i] = s[i + 1]
  BY HeadTailProperties, EmptySeq
<1>2. ASSUME Len(s) = 1
      PROVE  Tail(s) = <<>>
  <2>1. Len(Tail(s)) = 0
    BY <1>1, <1>2
  <2> QED
    BY <1>1, <2>1, EmptySeq
<1>3. \A i \in 1..Len(Tail(s)) : \E j \in 1..Len(s) : Tail(s)[i] = s[j]
  <2> TAKE i \in 1..Len(Tail(s))
  <2>1. i + 1 \in 1..Len(s) /\ Tail(s)[i] = s[i + 1]
    BY <1>1
  <2> QED
    BY <2>1
<1> QED
  BY <1>1, <1>2, <1>3

\* A change of a program takes a new generation, or a restart.
Moved(b) ==
    \/ UNCHANGED <<live[b], generation[b], boot[b]>>
    \/ generation'[b] = generation[b] + 1 /\ boot'[b] = boot[b]
    \/ boot'[b] = boot[b] + 1

LEMMA PastStays ==
    ASSUME NEW s \in Snapshots, NEW c, NEW g \in Nat, NEW n \in Nat,
           NEW c2, NEW g2 \in Nat, NEW n2 \in Nat,
           PastOf(s, c, g, n),
           (c2 = c /\ g2 = g /\ n2 = n) \/ (g2 = g + 1 /\ n2 = n) \/ n2 = n + 1
    PROVE  PastOf(s, c2, g2, n2)
  BY DEF PastOf, Snapshots

LEMMA PastMoves ==
    ASSUME TypeOK, TypeOK', NEW b \in Boards, Moved(b)
    PROVE  \A s \in Snapshots :
              PastOf(s, live[b], generation[b], boot[b])
                 => PastOf(s, live'[b], generation'[b], boot'[b])
<1>1. /\ generation[b] \in Nat /\ boot[b] \in Nat
      /\ generation'[b] \in Nat /\ boot'[b] \in Nat
  BY DEF TypeOK
<1> QED
  BY <1>1, PastStays DEF Moved

\* A step of board b, which takes at most the oldest request to it.
BoardStep(b) ==
    /\ Moved(b)
    /\ inbox'[b] = inbox[b] \/ (inbox[b] # <<>> /\ inbox'[b] = Tail(inbox[b]))
    /\ \/ live'[b] \in {live[b], "foreign"}
       \/ inbox[b] # <<>> /\ Head(inbox[b]).op = "apply" /\ live'[b] = Head(inbox[b]).config
    /\ \A c \in Boards \ {b} : /\ live'[c] = live[c] /\ generation'[c] = generation[c]
                               /\ boot'[c] = boot[c] /\ inbox'[c] = inbox[c]
    /\ UNCHANGED <<pc, at, waiting, retried, book>>

\* The answer to the request that is awaited, if it is a snapshot.
Snapped(b) ==
    reply'.status = "snapshot" =>
        \/ reply' = reply
        \/ /\ waiting /\ b = at /\ Len(inbox[b]) = 1 /\ inbox'[b] = Tail(inbox[b])
           /\ reply'.read = Snapshot(b)
           /\ UNCHANGED <<live[b], generation[b], boot[b]>>

LEMMA BoardKeeps ==
    ASSUME Inv, NEW b \in Boards, BoardStep(b), Snapped(b), TypeOK'
    PROVE  Inv'
<1> USE DEF Inv
<1>1. UNCHANGED <<pc, at, waiting, original, applied, uncertain, committed, failures>>
  BY DEF BoardStep, book
<1>2. /\ \A c \in Boards : inbox[c] \in Seq(Requests) /\ boot[c] \in Nat /\ live[c] \in Configs
                           /\ generation[c] \in Nat \ {0} /\ original[c] \in Snapshots
      /\ reply \in Replies
  BY DEF TypeOK
<1>3. AtInv' /\ StageInv'
  BY <1>1 DEF AtInv, StageInv, Settled
<1>4. inbox[b] # <<>> =>
        /\ \A i \in 1..Len(Tail(inbox[b])) :
              \E j \in 1..Len(inbox[b]) : Tail(inbox[b])[i] = inbox[b][j]
        /\ Head(inbox[b]) = inbox[b][1] /\ 1 \in 1..Len(inbox[b])
        /\ Len(inbox[b]) = 1 => Tail(inbox[b]) = <<>>
  BY <1>2, TailHas
<1>5. \A i \in 1..Len(inbox'[b]) : \E j \in 1..Len(inbox[b]) : inbox'[b][i] = inbox[b][j]
  <2>1. CASE inbox'[b] = inbox[b]
    BY <2>1
  <2>2. CASE inbox[b] # <<>> /\ inbox'[b] = Tail(inbox[b])
    BY <1>4, <2>2
  <2> QED
    BY <2>1, <2>2 DEF BoardStep
<1>6. BoardInv(b)'
  <2> USE DEF BoardInv
  <2>1. Past(original[b], b)'
    BY <1>1, <1>2, PastMoves DEF BoardStep, Past
  <2>2. RequestsInv(b)'
    <3> SUFFICES ASSUME NEW i \in 1..Len(inbox'[b]), inbox'[b][i].op = "apply"
                 PROVE  /\ PastOf(inbox'[b][i].read, live'[b], generation'[b], boot'[b])
                        /\ inbox'[b][i].config = "new"
                             \/ (inbox'[b][i].read.config = "new" /\ Undoing')
      BY DEF RequestsInv, RequestOK, Past
    <3>1. PICK j \in 1..Len(inbox[b]) : inbox'[b][i] = inbox[b][j]
      BY <1>5
    <3>2. RequestOK(inbox[b][j], b)
      BY DEF RequestsInv
    <3>3. inbox[b][j] \in Requests
      BY <1>2
    <3>4. PastOf(inbox[b][j].read, live'[b], generation'[b], boot'[b])
      <4>1. inbox[b][j].read \in Snapshots
        BY <3>3 DEF Requests
      <4>2. PastOf(inbox[b][j].read, live[b], generation[b], boot[b])
        BY <3>1, <3>2 DEF RequestOK, Past
      <4> QED
        BY <4>1, <4>2, PastMoves DEF BoardStep
    <3> QED
      BY <1>1, <3>1, <3>2, <3>4 DEF RequestOK, Undoing
  <2>3. Clean(b) => Clean(b)'
    <3> SUFFICES ASSUME Clean(b) PROVE Clean(b)'
      OBVIOUS
    <3>1. live'[b] = "new" => live[b] = "new"
      BY <1>4 DEF Clean, BoardStep
    <3> QED
      BY <1>1, <1>5, <3>1 DEF Clean
  <2>4. ~Undoing /\ live'[b] = "old" => live[b] = "old"
    BY <1>4 DEF RequestsInv, RequestOK, BoardStep
  <2> QED
    BY <1>1, <2>1, <2>2, <2>3, <2>4 DEF Settled, Undoing, Passed
<1>7. ASSUME NEW c \in Boards \ {b}
      PROVE  BoardInv(c)'
  <2>1. /\ live'[c] = live[c] /\ generation'[c] = generation[c]
        /\ boot'[c] = boot[c] /\ inbox'[c] = inbox[c] /\ BoardInv(c)
    BY DEF BoardStep
  <2> QED
    BY <1>1, <2>1 DEF BoardInv, Past, RequestsInv, RequestOK, Clean, Settled, Undoing, Passed
<1>8. ReplyInv'
  <2> SUFFICES ASSUME reply'.status = "snapshot"
               PROVE  /\ at \in Boards
                      /\ inbox'[at] = <<>>
                      /\ PastOf(reply'.read, live'[at], generation'[at], boot'[at])
                      /\ reply'.read.gen # 0
                      /\ reply'.read.config # "new" => live'[at] # "new"
                      /\ reply'.read.config = "new" /\ ~Undoing => live'[at] # "old"
    BY <1>1 DEF ReplyInv, Undoing, Past
  <2>1. CASE reply' = reply
    <3>1. /\ at \in Boards /\ inbox[at] = <<>> /\ Past(reply.read, at) /\ reply.read.gen # 0
          /\ reply.read.config # "new" => live[at] # "new"
          /\ reply.read.config = "new" /\ ~Undoing => live[at] # "old"
      BY <2>1 DEF ReplyInv
    <3>2. CASE at # b
      <4>1. /\ live'[at] = live[at] /\ generation'[at] = generation[at]
            /\ boot'[at] = boot[at] /\ inbox'[at] = inbox[at]
        BY <3>1, <3>2 DEF BoardStep
      <4> QED
        BY <2>1, <3>1, <4>1 DEF Past
    <3>3. CASE at = b
      <4>1. inbox'[b] = <<>> /\ live'[b] \in {live[b], "foreign"}
        BY <3>1, <3>3 DEF BoardStep
      <4>2. PastOf(reply.read, live'[b], generation'[b], boot'[b])
        BY <1>2, <3>1, <3>3, PastMoves DEF BoardStep, Replies, Past
      <4> QED
        BY <2>1, <3>1, <3>3, <4>1, <4>2
    <3> QED
      BY <3>2, <3>3
  <2>2. CASE /\ waiting /\ b = at /\ Len(inbox[b]) = 1 /\ inbox'[b] = Tail(inbox[b])
             /\ reply'.read = Snapshot(b)
             /\ UNCHANGED <<live[b], generation[b], boot[b]>>
    <3>1. inbox'[b] = <<>>
      <4>1. inbox[b] # <<>>
        <5>1. Len(inbox[b]) = 1
          BY <2>2
        <5> QED
          BY <5>1
      <4> QED
        BY <1>4, <2>2, <4>1
    <3>2. reply'.read.config = live[b] /\ reply'.read.gen = generation[b]
          /\ reply'.read.boot = boot[b]
      BY <2>2 DEF Snapshot
    <3> QED
      <4>1. at \in Boards /\ generation[b] # 0 /\ boot[b] \in Nat /\ generation[b] \in Nat
        BY <1>2, <2>2
      <4>2. PastOf(reply'.read, live'[at], generation'[at], boot'[at])
        BY <2>2, <3>2, <4>1 DEF PastOf
      <4> QED
        BY <2>2, <3>1, <3>2, <4>1, <4>2
  <2> QED
    BY <2>1, <2>2 DEF Snapped
<1> QED
  BY <1>3, <1>6, <1>7, <1>8

LEMMA ServeGetKeeps ==
    ASSUME Inv, NEW b \in Boards, ServeGet(b)
    PROVE  Inv'
<1> USE DEF Inv
<1>1. /\ inbox[b] # <<>>
      /\ Answer(b, [status |-> "snapshot", read |-> Snapshot(b)])
      /\ UNCHANGED <<live, generation>>
  BY DEF ServeGet
<1>2. /\ Snapshot(b) \in Snapshots
      /\ [status |-> "snapshot", read |-> Snapshot(b)] \in Replies
  BY DEF TypeOK, Snapshot, Snapshots, Replies
<1>3. reply' \in Replies
  BY <1>1, <1>2, ReplyTypes DEF Answer, TypeOK
<1>4. Tail(inbox[b]) \in Seq(Requests)
  BY <1>1 DEF TypeOK
<1>5. TypeOK'
  BY <1>1, <1>3, <1>4 DEF Answer, TypeOK, book
<1>6. inbox'[b] = Tail(inbox[b]) /\ \A c \in Boards \ {b} : inbox'[c] = inbox[c]
  BY <1>1 DEF Answer, TypeOK
<1>7. BoardStep(b)
  BY <1>1, <1>6 DEF Answer, BoardStep, Moved
<1>8. Snapped(b)
  BY <1>1, <1>6, ReplyTypes DEF Answer, Snapped
<1> QED
  BY <1>5, <1>7, <1>8, BoardKeeps

\* The answer to a write.
LEMMA PlainKeeps ==
    ASSUME Inv, NEW b \in Boards, inbox[b] # <<>>,
           NEW s \in {"applied", "busy", "error"}, Answer(b, Reply(s)),
           live' \in [Boards -> Configs], generation' \in [Boards -> Nat \ {0}],
           Moved(b),
           live'[b] = live[b] \/ (Head(inbox[b]).op = "apply" /\ live'[b] = Head(inbox[b]).config),
           \A c \in Boards \ {b} : live'[c] = live[c] /\ generation'[c] = generation[c]
    PROVE  Inv'
<1> USE DEF Inv
<1>1. reply' \in Replies /\ (reply' = reply \/ reply'.status # "snapshot")
  BY ReplyTypes DEF Answer, TypeOK
<1>2. Tail(inbox[b]) \in Seq(Requests)
  BY DEF TypeOK
<1>3. TypeOK'
  BY <1>1, <1>2 DEF Answer, TypeOK, book
<1>4. inbox'[b] = Tail(inbox[b]) /\ \A c \in Boards \ {b} : inbox'[c] = inbox[c]
  BY DEF Answer, TypeOK
<1>5. BoardStep(b)
  BY <1>4 DEF Answer, BoardStep
<1>6. Snapped(b)
  BY <1>1 DEF Snapped
<1> QED
  BY <1>3, <1>5, <1>6, BoardKeeps

LEMMA AcceptKeeps ==
    ASSUME Inv, NEW b \in Boards, Accept(b)
    PROVE  Inv'
<1> USE DEF Inv
<1> DEFINE q == Head(inbox[b])
<1>1. /\ inbox[b] # <<>> /\ q.op = "apply"
      /\ live' = [live EXCEPT ![b] = q.config]
      /\ generation' = [generation EXCEPT
                          ![b] = IF live[b] = q.config THEN generation[b] ELSE generation[b] + 1]
      /\ Answer(b, Reply("applied"))
  BY DEF Accept
<1>2. q \in Requests
  BY <1>1 DEF TypeOK
<1>3. live' \in [Boards -> Configs] /\ generation' \in [Boards -> Nat \ {0}]
  BY <1>1, <1>2 DEF TypeOK, Requests
<1> HIDE DEF q
<1>4. /\ live'[b] = q.config
      /\ generation'[b] = IF live[b] = q.config THEN generation[b] ELSE generation[b] + 1
      /\ \A c \in Boards \ {b} : live'[c] = live[c] /\ generation'[c] = generation[c]
      /\ boot'[b] = boot[b]
  BY <1>1 DEF TypeOK, Answer
<1>5. Moved(b)
  BY <1>4 DEF Moved
<1> QED
  BY <1>1, <1>3, <1>4, <1>5, PlainKeeps DEF q

LEMMA RefuseKeeps ==
    ASSUME Inv, NEW b \in Boards, Refuse(b)
    PROVE  Inv'
<1>1. /\ inbox[b] # <<>> /\ \E s \in {"error", "busy"} : Answer(b, Reply(s))
      /\ UNCHANGED <<live, generation, boot>>
  BY DEF Refuse, Answer
<1> QED
  BY <1>1, PlainKeeps DEF Moved, Inv, TypeOK

LEMMA LoseKeeps ==
    ASSUME Inv, NEW b \in Boards, Lose(b)
    PROVE  Inv'
<1> USE DEF Inv
<1>1. /\ inbox[b] # <<>>
      /\ inbox' = [inbox EXCEPT ![b] = Tail(inbox[b])]
      /\ UNCHANGED <<live, generation, boot, foreign, pc, at, waiting, reply, retried, book>>
  BY DEF Lose
<1>2. Tail(inbox[b]) \in Seq(Requests)
  BY <1>1 DEF TypeOK
<1>3. TypeOK'
  BY <1>1, <1>2 DEF TypeOK, book
<1>4. inbox'[b] = Tail(inbox[b]) /\ \A c \in Boards \ {b} : inbox'[c] = inbox[c]
  BY <1>1 DEF TypeOK
<1>5. BoardStep(b) /\ Snapped(b)
  BY <1>1, <1>4 DEF BoardStep, Moved, Snapped
<1> QED
  BY <1>3, <1>5, BoardKeeps

LEMMA ForeignWriteKeeps ==
    ASSUME Inv, NEW b \in Boards, ForeignWrite(b)
    PROVE  Inv'
<1> USE DEF Inv
<1>1. /\ foreign' = foreign + 1
      /\ live' = [live EXCEPT ![b] = "foreign"]
      /\ generation' = [generation EXCEPT
                          ![b] = IF live[b] = "foreign" THEN generation[b] ELSE generation[b] + 1]
      /\ UNCHANGED <<boot, inbox, pc, at, waiting, reply, retried, book>>
  BY DEF ForeignWrite
<1>2. TypeOK'
  BY <1>1 DEF TypeOK, book, Configs
<1>3. /\ live'[b] = "foreign"
      /\ generation'[b] = IF live[b] = "foreign" THEN generation[b] ELSE generation[b] + 1
      /\ \A c \in Boards \ {b} : live'[c] = live[c] /\ generation'[c] = generation[c]
  BY <1>1 DEF TypeOK
<1>4. BoardStep(b) /\ Snapped(b)
  BY <1>1, <1>3 DEF BoardStep, Moved, Snapped
<1> QED
  BY <1>2, <1>4, BoardKeeps

LEMMA RebootKeeps ==
    ASSUME Inv, NEW b \in Boards, Reboot(b)
    PROVE  Inv'
<1> USE DEF Inv
<1>1. /\ boot' = [boot EXCEPT ![b] = boot[b] + 1]
      /\ generation' = [generation EXCEPT ![b] = 1]
      /\ UNCHANGED <<live, foreign, inbox, pc, at, waiting, reply, retried, book>>
  BY DEF Reboot
<1>2. TypeOK'
  BY <1>1 DEF TypeOK, book
<1>3. /\ boot'[b] = boot[b] + 1
      /\ \A c \in Boards \ {b} : boot'[c] = boot[c] /\ generation'[c] = generation[c]
  BY <1>1 DEF TypeOK
<1>4. BoardStep(b) /\ Snapped(b)
  BY <1>1, <1>3 DEF BoardStep, Moved, Snapped
<1> QED
  BY <1>2, <1>4, BoardKeeps

-----------------------------------------------------------------------------
(* Steps of the transaction.                                                *)

\* At most one request is sent: a write is based on what was read, and one of
\* the program of the upload makes its board one that is not settled.
Sends ==
    \/ inbox' = inbox
    \/ \E b \in Boards, q \in Requests :
         /\ inbox' = [inbox EXCEPT ![b] = Append(inbox[b], q)]
         /\ q.op = "apply" =>
              /\ Past(q.read, b)
              /\ \/ q.config = "new" /\ ~Settled(b)'
                 \/ q.config # "new" /\ q.read.config = "new" /\ Undoing'

\* What a step that reads no program has to say of board c.
BookStep(c) ==
    /\ Settled(c)' /\ c \notin failures' => (Settled(c) /\ c \notin failures) \/ Clean(c)
    /\ ~Settled(c)' => original[c].config # "new"
    /\ ~Undoing' /\ Passed(c)' => live[c] # "old"
    /\ uncertain'[c] => applied'[c] = 0

LEMMA TransactionKeeps ==
    ASSUME Inv, TypeOK', AtInv', StageInv', Sends, UNCHANGED <<live, generation, boot, original>>,
           reply'.status # "snapshot", Undoing => Undoing',
           \A c \in Boards : BookStep(c)
    PROVE  Inv'
<1> USE DEF Inv
<1>1. ReplyInv'
  BY DEF ReplyInv
<1>2. ASSUME NEW c \in Boards
      PROVE  BoardInv(c)'
  <2>1. /\ inbox[c] \in Seq(Requests)
        /\ \/ inbox'[c] = inbox[c]
           \/ \E q \in Requests :
                /\ inbox'[c] = Append(inbox[c], q)
                /\ q.op = "apply" =>
                     /\ Past(q.read, c)
                     /\ \/ q.config = "new" /\ ~Settled(c)'
                        \/ q.config # "new" /\ q.read.config = "new" /\ Undoing'
    <3>1. inbox \in [Boards -> Seq(Requests)]
      BY DEF TypeOK
    <3>2. CASE inbox' = inbox
      BY <3>1, <3>2
    <3>3. ASSUME NEW b \in Boards, NEW q \in Requests,
                 inbox' = [inbox EXCEPT ![b] = Append(inbox[b], q)],
                 q.op = "apply" =>
                   /\ Past(q.read, b)
                   /\ \/ q.config = "new" /\ ~Settled(b)'
                      \/ q.config # "new" /\ q.read.config = "new" /\ Undoing'
          PROVE  \/ inbox'[c] = inbox[c]
                 \/ \E p \in Requests :
                      /\ inbox'[c] = Append(inbox[c], p)
                      /\ p.op = "apply" =>
                           /\ Past(p.read, c)
                           /\ \/ p.config = "new" /\ ~Settled(c)'
                              \/ p.config # "new" /\ p.read.config = "new" /\ Undoing'
      <4>1. CASE b = c
        BY <3>1, <3>3, <4>1
      <4>2. CASE b # c
        BY <3>1, <3>3, <4>2
      <4> QED
        BY <4>1, <4>2
    <3> QED
      BY <3>1, <3>2, <3>3 DEF Sends
  <2>2. BoardInv(c) /\ BookStep(c)
    OBVIOUS
  <2>3. \A i \in 1..Len(inbox'[c]) :
           \/ \E j \in 1..Len(inbox[c]) : inbox'[c][i] = inbox[c][j]
           \/ inbox'[c][i].op = "apply" =>
                /\ Past(inbox'[c][i].read, c)
                /\ \/ inbox'[c][i].config = "new" /\ ~Settled(c)'
                   \/ /\ inbox'[c][i].config # "new"
                      /\ inbox'[c][i].read.config = "new" /\ Undoing'
    <3>1. CASE inbox'[c] = inbox[c]
      BY <3>1
    <3>2. ASSUME NEW q \in Requests, inbox'[c] = Append(inbox[c], q),
                 q.op = "apply" =>
                   /\ Past(q.read, c)
                   /\ \/ q.config = "new" /\ ~Settled(c)'
                      \/ q.config # "new" /\ q.read.config = "new" /\ Undoing'
          PROVE  \A i \in 1..Len(inbox'[c]) :
                    \/ \E j \in 1..Len(inbox[c]) : inbox'[c][i] = inbox[c][j]
                    \/ inbox'[c][i].op = "apply" =>
                         /\ Past(inbox'[c][i].read, c)
                         /\ \/ inbox'[c][i].config = "new" /\ ~Settled(c)'
                            \/ /\ inbox'[c][i].config # "new"
                               /\ inbox'[c][i].read.config = "new" /\ Undoing'
      <4> TAKE i \in 1..Len(inbox'[c])
      <4>1. \/ i \in 1..Len(inbox[c]) /\ inbox'[c][i] = inbox[c][i]
            \/ inbox'[c][i] = q
        BY <2>1, <3>2
      <4> QED
        BY <3>2, <4>1
    <3> QED
      BY <2>1, <3>1, <3>2
  <2>4. Past(original[c], c)'
    BY <2>2 DEF BoardInv, Past
  <2>5. RequestsInv(c)'
    <3> SUFFICES ASSUME NEW i \in 1..Len(inbox'[c]), inbox'[c][i].op = "apply"
                 PROVE  /\ PastOf(inbox'[c][i].read, live[c], generation[c], boot[c])
                        /\ inbox'[c][i].config = "new"
                             \/ (inbox'[c][i].read.config = "new" /\ Undoing')
      BY DEF RequestsInv, RequestOK, Past
    <3>1. CASE \E j \in 1..Len(inbox[c]) : inbox'[c][i] = inbox[c][j]
      BY <2>2, <3>1 DEF BoardInv, RequestsInv, RequestOK, Past
    <3>2. CASE ~ \E j \in 1..Len(inbox[c]) : inbox'[c][i] = inbox[c][j]
      BY <2>3, <3>2 DEF Past
    <3> QED
      BY <3>1, <3>2
  <2>6. Settled(c)' /\ c \notin failures' => Clean(c)'
    <3> SUFFICES ASSUME Settled(c)', c \notin failures' PROVE Clean(c)'
      OBVIOUS
    <3>1. Clean(c)
      BY <2>2 DEF BoardInv, BookStep
    <3>2. \A i \in 1..Len(inbox'[c]) : inbox'[c][i].op = "apply" => inbox'[c][i].config # "new"
      BY <2>3, <3>1 DEF Clean
    <3> QED
      BY <3>1, <3>2 DEF Clean
  <2>7. /\ ~Settled(c)' => original'[c].config # "new"
        /\ uncertain'[c] => applied'[c] = 0
        /\ ~Undoing' /\ (Passed(c)' \/ original'[c].config = "new") => live'[c] # "old"
    BY <2>2 DEF BookStep, BoardInv
  <2> QED
    BY <2>4, <2>5, <2>6, <2>7 DEF BoardInv
<1> QED
  BY <1>1, <1>2

LEMMA ContinueTypes ==
    ASSUME TypeOK, NEW b \in 0..(Targets + 1), NEW p \in Steps, Continue(b, p),
           retried' \in BOOLEAN, original' \in [Boards -> Snapshots],
           applied' \in [Boards -> Nat], uncertain' \in [Boards -> BOOLEAN],
           committed' \in BOOLEAN, failures' \in SUBSET Boards
    PROVE  /\ TypeOK' /\ Sends /\ reply'.status # "snapshot"
           /\ pc' = p /\ at' = b /\ ~waiting'
           /\ UNCHANGED <<live, generation, boot>>
  BY ReplyTypes DEF TypeOK, Continue, boards, Sends

LEMMA CallTypes ==
    ASSUME TypeOK, NEW b \in Boards, NEW q \in Requests, NEW p \in Steps, Call(b, q, p),
           retried' \in BOOLEAN, original' \in [Boards -> Snapshots],
           applied' \in [Boards -> Nat], uncertain' \in [Boards -> BOOLEAN],
           committed' \in BOOLEAN, failures' \in SUBSET Boards
    PROVE  /\ TypeOK' /\ reply'.status # "snapshot"
           /\ pc' = p /\ at' = b
           /\ inbox' = [inbox EXCEPT ![b] = Append(inbox[b], q)]
           /\ UNCHANGED <<live, generation, boot>>
<1>1. b \in 0..(Targets + 1)
  BY DeploymentAssumption DEF Boards
<1>2. Append(inbox[b], q) \in Seq(Requests)
  BY DEF TypeOK
<1> QED
  BY <1>1, <1>2, ReplyTypes DEF TypeOK, Call

\* A step that goes on and leaves the book as it is, except the commit.
LEMMA ContinueKeeps ==
    ASSUME Inv, NEW b \in 0..(Targets + 1), NEW p \in Steps, Continue(b, p),
           UNCHANGED <<retried, original, applied, uncertain, failures>>,
           committed' \in BOOLEAN, AtInv', StageInv', Undoing => Undoing',
           \A c \in Boards : ~Undoing' /\ Passed(c)' => live[c] # "old"
    PROVE  Inv'
<1> USE DEF Inv
<1>1. /\ TypeOK' /\ Sends /\ reply'.status # "snapshot"
      /\ UNCHANGED <<live, generation, boot>>
  BY ContinueTypes DEF TypeOK
<1>2. ASSUME NEW c \in Boards
      PROVE  BookStep(c)
  BY DEF BookStep, BoardInv, Settled
<1> QED
  BY <1>1, <1>2, TransactionKeeps

\* A step that sends a request and leaves the book as it is.
LEMMA CallKeeps ==
    ASSUME Inv, NEW b \in Boards, NEW q \in Requests, NEW p \in Steps, Call(b, q, p),
           UNCHANGED book, retried' \in BOOLEAN, AtInv', StageInv', Undoing => Undoing',
           q.op = "apply" =>
              /\ Past(q.read, b)
              /\ \/ q.config = "new" /\ ~Settled(b)
                 \/ q.config # "new" /\ q.read.config = "new" /\ Undoing',
           \A c \in Boards : ~Undoing' /\ Passed(c)' => live[c] # "old"
    PROVE  Inv'
<1> USE DEF Inv
<1>1. /\ TypeOK' /\ reply'.status # "snapshot"
      /\ inbox' = [inbox EXCEPT ![b] = Append(inbox[b], q)]
      /\ UNCHANGED <<live, generation, boot>>
  BY CallTypes DEF TypeOK, book
<1>2. Settled(b)' = Settled(b)
  BY DEF Settled, book
<1>3. Sends
  BY <1>1, <1>2 DEF Sends
<1>4. ASSUME NEW c \in Boards
      PROVE  BookStep(c)
  BY DEF BookStep, BoardInv, Settled, book
<1> QED
  BY <1>1, <1>3, <1>4, TransactionKeeps DEF book

LEMMA PrepareFailsKeeps ==
    ASSUME Inv, PrepareFails
    PROVE  Inv'
<1> USE DEF Inv
<1>1. /\ Continue(at, "done") /\ UNCHANGED <<retried, book>> /\ pc \in {"reading", "apply"}
      /\ pc' = "done" /\ ~waiting'
  BY DEF PrepareFails, At, Continue
<1>2. ~committed /\ Undoing' /\ ~Undoing
  BY <1>1 DEF AtInv, Undoing, Undone, book
<1>3. \A b \in Boards : Settled(b)
  <2>1. pc = "reading" \/ (pc = "apply" /\ at = 1)
    BY DEF PrepareFails, At
  <2> QED
    BY <2>1 DEF StageInv, Boards
<1>4. StageInv'
  BY <1>1, <1>3 DEF StageInv, Settled, Writing, book
<1>5. AtInv'
  BY <1>1 DEF AtInv, Calling
<1> QED
  BY <1>1, <1>2, <1>4, <1>5, ContinueKeeps DEF TypeOK, Steps, book

LEMMA SkipKeeps ==
    ASSUME Inv, Skip
    PROVE  Inv'
<1> USE DEF Inv
<1>1. /\ pc = "apply" /\ at \in Boards /\ original[at].config = "new"
      /\ Continue(at + 1, "apply") /\ UNCHANGED <<retried, book>>
      /\ pc' = "apply" /\ at' = at + 1 /\ ~waiting'
  BY DEF Skip, AlreadyThere, Continue, AtInv, TypeOK, Boards
<1>2. ~committed /\ ~Undoing' /\ ~Undoing /\ at + 1 \in 0..(Targets + 1)
  BY <1>1, DeploymentAssumption DEF AtInv, Undoing, Undone, book, Boards
<1>3. StageInv'
  BY <1>1 DEF StageInv, Settled, Writing, book, Boards
<1>4. AtInv'
  BY <1>1, <1>2 DEF AtInv, Calling, book, Boards
<1>5. ASSUME NEW c \in Boards, Passed(c)'
      PROVE  live[c] # "old"
  <2>1. c < at \/ c = at
    BY <1>1, <1>2, <1>5 DEF Passed, book, Boards
  <2> QED
    BY <1>1, <1>2, <2>1 DEF BoardInv, Passed
<1> QED
  BY <1>1, <1>2, <1>3, <1>4, <1>5, ContinueKeeps DEF TypeOK, Steps, book

LEMMA BusyKeeps ==
    ASSUME Inv, Busy
    PROVE  Inv'
<1> USE DEF Inv
<1>1. /\ pc = "applying" /\ Continue(at, "gap") /\ UNCHANGED <<retried, book>>
      /\ pc' = "gap" /\ at' = at /\ ~waiting'
  BY DEF Busy, At, Continue
<1>2. ~committed /\ ~Undoing' /\ ~Undoing
  BY <1>1 DEF AtInv, Undoing, Undone, book
<1>3. StageInv'
  BY <1>1 DEF StageInv, Settled, Writing, book
<1>4. AtInv'
  BY <1>1, <1>2 DEF AtInv, Calling, book
<1>5. \A c \in Boards : Passed(c)' => live[c] # "old"
  BY <1>1, <1>2 DEF BoardInv, Passed, Writing, book
<1> QED
  BY <1>1, <1>2, <1>3, <1>4, <1>5, ContinueKeeps DEF TypeOK, Steps, book

LEMMA HostKeeps ==
    ASSUME Inv, Host
    PROVE  Inv'
<1> USE DEF Inv
<1>1. PICK p \in {"commit", "rollback"} : Continue(Targets, p)
  BY DEF Host
<1>2. /\ pc = "apply" /\ at > Targets /\ UNCHANGED <<retried, book>>
      /\ pc' = p /\ at' = Targets /\ ~waiting' /\ Targets \in 0..(Targets + 1)
  BY <1>1, DeploymentAssumption DEF Host, Continue
<1>3. ~committed /\ ~Undoing
  BY <1>2 DEF AtInv, Undoing, Undone
<1>4. StageInv'
  BY <1>2 DEF StageInv, Settled, Writing, book, Boards
<1>5. AtInv'
  BY <1>2, <1>3 DEF AtInv, Calling, book
<1>6. \A c \in Boards : live[c] # "old"
  BY <1>2, <1>3, DeploymentAssumption DEF BoardInv, Passed, Writing, Boards, TypeOK
<1> QED
  BY <1>1, <1>2, <1>3, <1>4, <1>5, <1>6, ContinueKeeps DEF TypeOK, Steps, book

LEMMA CommitKeeps ==
    ASSUME Inv, Commit
    PROVE  Inv'
<1> USE DEF Inv
<1>1. /\ pc = "commit" /\ committed' = TRUE /\ Continue(Targets, "rollback")
      /\ UNCHANGED <<retried, original, applied, uncertain, failures>>
      /\ pc' = "rollback" /\ at' = Targets /\ ~waiting' /\ Targets \in 0..(Targets + 1)
  BY DeploymentAssumption DEF Commit, Continue
<1>2. ~committed /\ ~Undoing
  BY <1>1 DEF AtInv, Undoing, Undone
<1>3. StageInv'
  BY <1>1 DEF StageInv, Writing
<1>4. AtInv'
  BY <1>1, <1>2 DEF AtInv, Calling
<1>5. \A c \in Boards : live[c] # "old"
  BY <1>1, <1>2 DEF BoardInv, Passed
<1> QED
  BY <1>1, <1>2, <1>3, <1>4, <1>5, ContinueKeeps DEF Steps

LEMMA RollbackEndsKeeps ==
    ASSUME Inv, RollbackEnds
    PROVE  Inv'
<1> USE DEF Inv
<1>1. /\ pc = "rollback" /\ (at = 0 \/ committed) /\ Continue(at, "done")
      /\ UNCHANGED <<retried, book>> /\ pc' = "done" /\ at' = at /\ ~waiting'
  BY DEF RollbackEnds, Continue
<1>2. StageInv'
  BY <1>1 DEF StageInv, Settled, Writing, book, Boards
<1>3. AtInv'
  BY <1>1 DEF AtInv, Calling, book
<1>4. Undoing' = Undoing /\ \A c \in Boards : ~Undoing => live[c] # "old"
  BY <1>1 DEF Undoing, Undone, BoardInv, Passed, book
<1> QED
  BY <1>1, <1>2, <1>3, <1>4, ContinueKeeps DEF TypeOK, Steps, book

LEMMA PassOverKeeps ==
    ASSUME Inv, PassOver
    PROVE  Inv'
<1> USE DEF Inv
<1>1. /\ pc = "rollback" /\ at > 0 /\ ~committed /\ Settled(at)
      /\ Continue(at - 1, "rollback") /\ UNCHANGED <<retried, book>>
      /\ pc' = "rollback" /\ at' = at - 1 /\ ~waiting'
      /\ at - 1 \in 0..(Targets + 1) /\ at - 1 <= Targets
  BY DeploymentAssumption DEF PassOver, Continue, TypeOK, AtInv
<1>2. StageInv'
  BY <1>1 DEF StageInv, Settled, Writing, book, Boards, TypeOK
<1>3. AtInv'
  BY <1>1 DEF AtInv, Calling, book
<1>4. Undoing'
  BY <1>1 DEF Undoing, Undone, book
<1> QED
  BY <1>1, <1>2, <1>3, <1>4, ContinueKeeps DEF TypeOK, Steps, book

LEMMA CloseKeeps ==
    ASSUME Inv, Close
    PROVE  Inv'
<1> USE DEF Inv
<1>1. /\ Continue(at, "closed") /\ UNCHANGED <<retried, book>>
      /\ pc' = "closed" /\ at' = at /\ ~waiting'
  BY DEF Close, Continue
<1>2. StageInv' /\ AtInv'
  BY <1>1 DEF StageInv, AtInv, Writing, Calling, book
<1>3. Undoing => Undoing'
  BY <1>1 DEF Undoing, Undone, book
<1>4. \A c \in Boards : ~Undoing' => Passed(c) /\ ~Undoing
  BY <1>1 DEF Undoing, Undone, Passed, book
<1> QED
  BY <1>1, <1>2, <1>3, <1>4, ContinueKeeps DEF TypeOK, Steps, book, BoardInv

LEMMA TimeOutKeeps ==
    ASSUME Inv, TimeOut
    PROVE  Inv'
<1> USE DEF Inv
<1>1. /\ reply' = Reply("error") /\ waiting' = FALSE
      /\ UNCHANGED <<boards, pc, at, retried, book>>
  BY DEF TimeOut
<1>2. TypeOK' /\ reply'.status # "snapshot"
  BY <1>1, ReplyTypes DEF TypeOK, boards, book
<1>3. AtInv' /\ StageInv'
  BY <1>1 DEF AtInv, StageInv, Settled, book
<1>4. Undoing' = Undoing /\ \A c \in Boards : BookStep(c)
  BY <1>1 DEF Undoing, BookStep, BoardInv, Passed, Settled, book
<1> QED
  BY <1>1, <1>2, <1>3, <1>4, TransactionKeeps DEF Sends, boards, book

LEMMA RequestTypes ==
    /\ Get \in Requests /\ Get.op # "apply"
    /\ \A r \in Snapshots, c \in Configs :
          /\ Apply(r, c) \in Requests
          /\ Apply(r, c).read = r /\ Apply(r, c).config = c
  BY ReplyTypes DEF Get, Apply, Requests, Configs

LEMMA WriteKeeps ==
    ASSUME Inv, Write
    PROVE  Inv'
<1> USE DEF Inv
<1> DEFINE q == Apply(original[at], "new")
<1>1. /\ pc = "apply" /\ at \in Boards /\ original[at].config # "new"
      /\ uncertain' = [uncertain EXCEPT ![at] = TRUE] /\ retried' = FALSE
      /\ Call(at, q, "applying") /\ UNCHANGED <<original, applied, committed, failures>>
  BY DEF Write, AlreadyThere, AtInv, TypeOK, Boards
<1>2. /\ q \in Requests /\ q.read = original[at] /\ q.config = "new"
  BY <1>1, RequestTypes DEF TypeOK, Configs
<1> HIDE DEF q
<1>3. /\ uncertain'[at] /\ \A c \in Boards \ {at} : uncertain'[c] = uncertain[c]
      /\ uncertain' \in [Boards -> BOOLEAN]
  BY <1>1 DEF TypeOK
<1>4. /\ TypeOK' /\ reply'.status # "snapshot" /\ pc' = "applying" /\ at' = at
      /\ inbox' = [inbox EXCEPT ![at] = Append(inbox[at], q)]
      /\ UNCHANGED <<live, generation, boot>>
  <2>1. /\ "applying" \in Steps /\ retried' \in BOOLEAN /\ original' \in [Boards -> Snapshots]
        /\ applied' \in [Boards -> Nat] /\ committed' \in BOOLEAN /\ failures' \in SUBSET Boards
    BY <1>1 DEF TypeOK, Steps
  <2>2. TypeOK
    OBVIOUS
  <2> QED
    BY <1>1, <1>2, <1>3, <2>1, <2>2, CallTypes
<1>5. ~committed /\ ~Undoing /\ ~Settled(at)'
  BY <1>1, <1>3, <1>4 DEF AtInv, Undoing, Undone, Settled
<1>6. Sends
  <2>1. Past(q.read, at)
    BY <1>1, <1>2 DEF BoardInv
  <2> QED
    BY <1>1, <1>2, <1>4, <1>5, <2>1 DEF Sends
<1>7. AtInv'
  BY <1>1, <1>4, <1>5 DEF AtInv, Calling
<1>8. StageInv'
  BY <1>1, <1>3, <1>4 DEF StageInv, Writing, Settled, Boards
<1>9. ASSUME NEW c \in Boards
      PROVE  BookStep(c)
  <2>1. Passed(c)' => Passed(c)
    BY <1>1, <1>4, <1>5 DEF Passed, Writing
  <2>2. CASE c = at
    <3>1. applied'[c] = 0
      BY <1>1, <2>2 DEF StageInv, Settled, Boards
    <3> QED
      BY <1>1, <1>3, <1>4, <1>5, <2>1, <2>2, <3>1 DEF BookStep, BoardInv, Settled
  <2>3. CASE c # at
    BY <1>1, <1>3, <1>5, <2>1, <2>3 DEF BookStep, BoardInv, Settled
  <2> QED
    BY <2>2, <2>3
<1> QED
  BY <1>1, <1>4, <1>5, <1>6, <1>7, <1>8, <1>9, TransactionKeeps

LEMMA WriteAgainKeeps ==
    ASSUME Inv, WriteAgain
    PROVE  Inv'
<1> USE DEF Inv
<1> DEFINE q == Apply(original[at], "new")
<1>1. /\ pc = "gap" /\ at \in Boards /\ uncertain[at] /\ retried' \in BOOLEAN
      /\ Call(at, q, "applying") /\ UNCHANGED book /\ pc' = "applying" /\ at' = at
  BY DEF WriteAgain, Call, AtInv, StageInv, Calling, Writing
<1>2. /\ q \in Requests /\ q.read = original[at] /\ q.config = "new"
  BY <1>1, RequestTypes DEF TypeOK, Configs
<1> HIDE DEF q
<1>3. ~committed /\ ~Undoing /\ ~Settled(at) /\ Past(q.read, at)
  BY <1>1, <1>2 DEF AtInv, Undoing, Undone, Settled, BoardInv
<1>4. AtInv'
  BY <1>1, <1>3 DEF AtInv, Calling, book
<1>5. StageInv'
  BY <1>1 DEF StageInv, Writing, Settled, book
<1>6. \A c \in Boards : Passed(c)' => live[c] # "old"
  BY <1>1, <1>3 DEF BoardInv, Passed, Writing, book
<1> QED
  BY <1>1, <1>2, <1>3, <1>4, <1>5, <1>6, CallKeeps DEF Steps

\* Steps that read back the board that was written.
LEMMA ReadBackKeeps ==
    ASSUME Inv, NEW p \in {"confirming", "rechecking"}, pc \in Writing,
           Call(at, Get, p), UNCHANGED <<retried, book>>
    PROVE  Inv'
<1> USE DEF Inv
<1>1. /\ pc' = p /\ at' = at /\ at \in Boards /\ retried' \in BOOLEAN
      /\ Get \in Requests /\ Get.op # "apply"
  BY RequestTypes DEF Call, AtInv, Calling, Writing, TypeOK
<1>2. ~committed /\ ~Undoing
  BY DEF AtInv, Undoing, Undone, Writing
<1>3. AtInv'
  BY <1>1, <1>2 DEF AtInv, Calling, book
<1>4. StageInv'
  BY <1>1 DEF StageInv, Writing, Settled, book
<1>5. \A c \in Boards : Passed(c)' => live[c] # "old"
  BY <1>1, <1>2 DEF BoardInv, Passed, Writing, book
<1> QED
  BY <1>1, <1>2, <1>3, <1>4, <1>5, CallKeeps DEF Steps

LEMMA NotConfirmedKeeps ==
    ASSUME Inv, NotConfirmed
    PROVE  Inv'
<1> USE DEF Inv
<1>1. CASE At("confirming") /\ Call(at, Get, "rechecking")
  BY <1>1, ReadBackKeeps DEF NotConfirmed, At, Writing
<1>2. CASE At("rechecking") /\ Continue(Targets, "rollback")
  <2>1. /\ pc = "rechecking" /\ UNCHANGED <<retried, book>>
        /\ pc' = "rollback" /\ at' = Targets /\ ~waiting' /\ Targets \in 0..(Targets + 1)
    BY <1>2, DeploymentAssumption DEF NotConfirmed, At, Continue
  <2>2. ~committed /\ ~Undoing /\ Undoing'
    BY <2>1 DEF AtInv, Undoing, Undone, book
  <2>3. AtInv' /\ StageInv'
    BY <2>1, <2>2 DEF AtInv, StageInv, Calling, Writing, Boards, book
  <2> QED
    BY <1>2, <2>1, <2>2, <2>3, ContinueKeeps DEF TypeOK, Steps, book
<1> QED
  BY <1>1, <1>2 DEF NotConfirmed

LEMMA CheckKeeps ==
    ASSUME Inv, Check
    PROVE  Inv'
<1> USE DEF Inv
<1>1. /\ pc = "rollback" /\ at \in Boards /\ ~committed /\ ~Settled(at)
      /\ Call(at, Get, "checking") /\ UNCHANGED <<retried, book>>
      /\ pc' = "checking" /\ at' = at /\ Get \in Requests /\ Get.op # "apply"
  BY RequestTypes DEF Check, Call, AtInv, TypeOK, Boards
<1>2. Undoing'
  BY <1>1 DEF Undoing, Undone, book
<1>3. AtInv'
  BY <1>1 DEF AtInv, Calling, book
<1>4. StageInv'
  BY <1>1 DEF StageInv, Writing, Settled, book
<1> QED
  BY <1>1, <1>2, <1>3, <1>4, CallKeeps DEF Steps, TypeOK

LEMMA RestoreKeeps ==
    ASSUME Inv, Restore
    PROVE  Inv'
<1> USE DEF Inv
<1> DEFINE q == Apply(reply.read, original[at].config)
<1>1. /\ pc = "checking" /\ reply.status = "snapshot" /\ reply.read.config = "new"
      /\ Call(at, q, "restoring") /\ UNCHANGED <<retried, book>>
      /\ pc' = "restoring" /\ at' = at
  BY DEF Restore, At, Answered, Ours, Call
<1>2. at \in Boards /\ ~Settled(at) /\ original[at].config # "new" /\ Past(reply.read, at)
  BY <1>1 DEF AtInv, Calling, StageInv, BoardInv, ReplyInv
<1>3. /\ q \in Requests /\ q.read = reply.read /\ q.config = original[at].config
  BY <1>2, RequestTypes DEF TypeOK, Replies, Snapshots
<1> HIDE DEF q
<1>4. Undoing'
  BY <1>1 DEF Undoing, Undone, book, AtInv
<1>5. AtInv'
  BY <1>1, <1>2 DEF AtInv, Calling, book
<1>6. StageInv'
  BY <1>1, <1>2 DEF StageInv, Writing, Settled, book
<1> QED
  BY <1>1, <1>2, <1>3, <1>4, <1>5, <1>6, CallKeeps DEF Steps, TypeOK

LEMMA VerifyKeeps ==
    ASSUME Inv, Verify
    PROVE  Inv'
<1> USE DEF Inv
<1>1. /\ pc = "restoring" /\ Call(at, Get, "verifying") /\ UNCHANGED <<retried, book>>
      /\ pc' = "verifying" /\ at' = at /\ Get \in Requests /\ Get.op # "apply"
  BY RequestTypes DEF Verify, At, Call
<1>2. at \in Boards /\ ~Settled(at)
  BY <1>1 DEF AtInv, Calling, StageInv
<1>3. Undoing'
  BY <1>1 DEF Undoing, Undone, book, AtInv
<1>4. AtInv'
  BY <1>1, <1>2 DEF AtInv, Calling, book
<1>5. StageInv'
  BY <1>1, <1>2 DEF StageInv, Writing, Settled, book
<1> QED
  BY <1>1, <1>2, <1>3, <1>4, <1>5, CallKeeps DEF Steps, TypeOK

LEMMA ConfirmedKeeps ==
    ASSUME Inv, Confirmed
    PROVE  Inv'
<1> USE DEF Inv
<1>1. /\ pc \in {"confirming", "rechecking"} /\ at \in Boards
      /\ reply.status = "snapshot" /\ reply.read.config = "new"
      /\ applied' = [applied EXCEPT ![at] = reply.read.gen]
      /\ uncertain' = [uncertain EXCEPT ![at] = FALSE]
      /\ Continue(at + 1, "apply")
      /\ UNCHANGED <<retried, original, committed, failures>>
  BY DEF Confirmed, At, Answered, AtInv, Calling
<1>2. /\ ~committed /\ ~Undoing /\ uncertain[at]
      /\ reply.read.gen \in Nat \ {0} /\ live[at] # "old"
  BY <1>1 DEF AtInv, Undoing, Undone, StageInv, Writing, ReplyInv, TypeOK, Replies, Snapshots
<1>3. /\ applied'[at] # 0 /\ \A c \in Boards \ {at} : /\ applied'[c] = applied[c]
                                                       /\ uncertain'[c] = uncertain[c]
      /\ applied' \in [Boards -> Nat] /\ uncertain' \in [Boards -> BOOLEAN]
  BY <1>1, <1>2 DEF TypeOK
<1>4. /\ TypeOK' /\ Sends /\ reply'.status # "snapshot"
      /\ pc' = "apply" /\ at' = at + 1 /\ ~waiting'
      /\ UNCHANGED <<live, generation, boot>>
  <2>1. at + 1 \in 0..(Targets + 1) /\ "apply" \in Steps
    BY <1>1, DeploymentAssumption DEF Boards, Steps
  <2> QED
    BY <1>1, <1>3, <2>1, ContinueTypes DEF TypeOK
<1>5. AtInv'
  BY <1>1, <1>2, <1>4 DEF AtInv, Calling, Boards
<1>6. StageInv'
  BY <1>1, <1>3, <1>4 DEF StageInv, Writing, Settled, Boards
<1>7. ASSUME NEW c \in Boards
      PROVE  BookStep(c)
  <2>1. Passed(c)' => Passed(c) \/ c = at
    BY <1>1, <1>2, <1>4 DEF Passed, Writing, Boards
  <2>2. CASE c = at
    <3>1. ~Settled(c) /\ ~Settled(c)' /\ ~uncertain'[c]
      BY <1>1, <1>2, <1>3, <2>2 DEF Settled, TypeOK
    <3> QED
      BY <1>2, <2>2, <3>1 DEF BookStep, BoardInv
  <2>3. CASE c # at
    BY <1>1, <1>2, <1>3, <2>1, <2>3 DEF BookStep, BoardInv, Settled
  <2> QED
    BY <2>2, <2>3
<1> QED
  BY <1>1, <1>2, <1>4, <1>5, <1>6, <1>7, TransactionKeeps

\* The rollback is done with the target it is at, which it found clean or
\* counts among the failures.
LEMMA RollbackKeeps ==
    ASSUME Inv, pc \in {"checking", "restoring", "verifying"},
           Continue(at - 1, "rollback"), UNCHANGED <<retried, original, committed>>,
           applied' \in [Boards -> Nat], uncertain' \in [Boards -> BOOLEAN],
           failures' \in SUBSET Boards, failures \subseteq failures',
           \A c \in Boards \ {at} : /\ applied'[c] = applied[c]
                                    /\ uncertain'[c] = uncertain[c]
                                    /\ c \in failures' => c \in failures,
           \/ at \in failures' /\ UNCHANGED <<applied, uncertain>>
           \/ (applied'[at] = 0 /\ ~uncertain'[at] /\ Clean(at))
    PROVE  Inv'
<1> USE DEF Inv
<1>1. at \in Boards /\ ~committed /\ ~Settled(at)
  BY DEF AtInv, Calling, StageInv
<1>2. /\ TypeOK' /\ Sends /\ reply'.status # "snapshot"
      /\ pc' = "rollback" /\ at' = at - 1 /\ ~waiting'
      /\ UNCHANGED <<live, generation, boot>>
  <2>1. at - 1 \in 0..(Targets + 1) /\ "rollback" \in Steps
    BY <1>1, DeploymentAssumption DEF Boards, Steps
  <2> QED
    BY <2>1, ContinueTypes DEF TypeOK
<1>3. Undoing'
  BY <1>1, <1>2 DEF Undoing, Undone
<1>4. AtInv'
  BY <1>1, <1>2, DeploymentAssumption DEF AtInv, Calling, Boards
<1>5. StageInv'
  <2>1. \A c \in Boards : c > at => (applied'[c] = 0 /\ ~uncertain'[c]) \/ c \in failures'
    BY <1>1 DEF StageInv, Settled, Boards
  <2>2. \A c \in Boards : c > at - 1 => c > at \/ c = at
    BY <1>1 DEF Boards
  <2>3. \A c \in Boards : c > at - 1 => Settled(c)' \/ c \in failures'
    BY <2>1, <2>2 DEF Settled
  <2> QED
    BY <1>2, <2>3 DEF StageInv, Writing
<1>6. ASSUME NEW c \in Boards
      PROVE  BookStep(c)
  <2>1. CASE c = at
    <3>1. Settled(c)' /\ c \notin failures' => Clean(c)
      BY <2>1
    <3>2. original[c].config # "new"
      BY <1>1, <2>1 DEF BoardInv
    <3>3. uncertain'[c] => applied'[c] = 0
      BY <1>1, <2>1 DEF BoardInv
    <3> QED
      BY <1>3, <3>1, <3>2, <3>3 DEF BookStep
  <2>2. CASE c # at
    BY <1>3, <2>2 DEF BookStep, BoardInv, Settled
  <2> QED
    BY <2>1, <2>2
<1> QED
  BY <1>2, <1>3, <1>4, <1>5, <1>6, TransactionKeeps

\* A snapshot of the configuration that was read before the upload.
LEMMA ReadClean ==
    ASSUME Inv, reply.status = "snapshot", pc \in {"checking", "restoring", "verifying"},
           reply.read.config = original[at].config
    PROVE  Clean(at)
<1>1. at \in Boards /\ original[at].config # "new"
  BY DEF Inv, AtInv, Calling, StageInv, BoardInv
<1>2. inbox[at] = <<>> /\ live[at] # "new"
  BY <1>1 DEF Inv, ReplyInv
<1>3. Len(inbox[at]) = 0
  BY <1>2
<1> QED
  BY <1>2, <1>3 DEF Clean

LEMMA UntouchedKeeps ==
    ASSUME Inv, Untouched
    PROVE  Inv'
<1>1. /\ pc = "checking" /\ Answered /\ uncertain[at]
      /\ reply.read.config = original[at].config
      /\ uncertain' = [uncertain EXCEPT ![at] = FALSE]
      /\ Continue(at - 1, "rollback")
      /\ UNCHANGED <<retried, original, applied, committed, failures>>
  BY DEF Untouched, At
<1>2. Clean(at)
  BY <1>1, ReadClean DEF Answered
<1>3. at \in Boards /\ applied[at] = 0
  BY <1>1 DEF Inv, AtInv, Calling, BoardInv
<1>4. /\ applied' \in [Boards -> Nat] /\ uncertain' \in [Boards -> BOOLEAN]
      /\ applied'[at] = 0 /\ ~uncertain'[at]
      /\ \A c \in Boards \ {at} : applied'[c] = applied[c] /\ uncertain'[c] = uncertain[c]
  BY <1>1, <1>3 DEF Inv, TypeOK
<1> QED
  BY <1>1, <1>2, <1>3, <1>4, RollbackKeeps DEF Inv, TypeOK

LEMMA RestoredKeeps ==
    ASSUME Inv, Restored
    PROVE  Inv'
<1>1. /\ pc = "verifying" /\ Answered
      /\ reply.read.config = original[at].config
      /\ applied' = [applied EXCEPT ![at] = 0]
      /\ uncertain' = [uncertain EXCEPT ![at] = FALSE]
      /\ Continue(at - 1, "rollback")
      /\ UNCHANGED <<retried, original, committed, failures>>
  BY DEF Restored, At
<1>2. Clean(at)
  BY <1>1, ReadClean DEF Answered
<1>3. at \in Boards 
  BY <1>1 DEF Inv, AtInv, Calling
<1>4. /\ applied' \in [Boards -> Nat] /\ uncertain' \in [Boards -> BOOLEAN]
      /\ applied'[at] = 0 /\ ~uncertain'[at]
      /\ \A c \in Boards \ {at} : applied'[c] = applied[c] /\ uncertain'[c] = uncertain[c]
  BY <1>1, <1>3 DEF Inv, TypeOK
<1> QED
  BY <1>1, <1>2, <1>3, <1>4, RollbackKeeps DEF Inv, TypeOK

LEMMA NotRestoredKeeps ==
    ASSUME Inv, NotRestored
    PROVE  Inv'
<1>1. /\ pc \in {"checking", "restoring", "verifying"}
      /\ failures' = failures \union {at}
      /\ Continue(at - 1, "rollback")
      /\ UNCHANGED <<retried, original, applied, uncertain, committed>>
  BY DEF NotRestored, At
<1>2. at \in Boards
  BY <1>1 DEF Inv, AtInv, Calling
<1> QED
  BY <1>1, <1>2, RollbackKeeps DEF Inv, TypeOK

LEMMA ReadKeeps ==
    ASSUME Inv, Read
    PROVE  Inv'
<1> USE DEF Inv
<1>1. /\ pc = "reading" /\ reply.status = "snapshot" /\ at \in Boards
      /\ original' = [original EXCEPT ![at] = reply.read]
      /\ \/ at < Targets /\ Call(at + 1, Get, "reading")
         \/ at = Targets /\ Continue(1, "apply")
      /\ UNCHANGED <<retried, applied, uncertain, committed, failures>>
  <2>1. at \in Boards /\ (at < Targets \/ at = Targets)
    BY DeploymentAssumption DEF Read, At, AtInv, Calling, Boards
  <2> QED
    BY <2>1 DEF Read, At, Answered
<1>2. /\ inbox[at] = <<>> /\ Past(reply.read, at) /\ ~committed /\ ~Undoing
      /\ reply.read.config # "new" => live[at] # "new"
      /\ reply.read.config = "new" => live[at] # "old"
  BY <1>1 DEF ReplyInv, AtInv, Undoing, Undone
<1>3. /\ original'[at] = reply.read /\ \A c \in Boards \ {at} : original'[c] = original[c]
      /\ original' \in [Boards -> Snapshots]
  BY <1>1 DEF TypeOK, Replies
<1>4. /\ TypeOK' /\ reply'.status # "snapshot" /\ UNCHANGED <<live, generation, boot>>
      /\ \/ /\ pc' = "reading" /\ at' = at + 1 /\ at + 1 \in Boards
            /\ inbox' = [inbox EXCEPT ![at + 1] = Append(inbox[at + 1], Get)]
         \/ /\ pc' = "apply" /\ at' = 1 /\ ~waiting' /\ inbox' = inbox
  <2>1. CASE at < Targets /\ Call(at + 1, Get, "reading")
    <3>1. at + 1 \in Boards /\ "reading" \in Steps /\ Get \in Requests
      BY <1>1, <2>1, DeploymentAssumption, RequestTypes DEF Boards, Steps
    <3> QED
      BY <1>1, <1>3, <2>1, <3>1, CallTypes DEF TypeOK
  <2>2. CASE Continue(1, "apply")
    <3>1. 1 \in 0..(Targets + 1) /\ "apply" \in Steps
      BY DeploymentAssumption DEF Steps
    <3> QED
      BY <1>1, <1>3, <2>2, <3>1, ContinueTypes DEF TypeOK, Continue, boards
  <2> QED
    BY <1>1, <2>1, <2>2
<1>5. AtInv'
  BY <1>1, <1>2, <1>4 DEF AtInv, Calling
<1>6. ReplyInv'
  BY <1>4 DEF ReplyInv
<1>7. \A c \in Boards : Settled(c)'
  BY <1>1 DEF StageInv, Settled
<1>8. StageInv'
  BY <1>4, <1>7 DEF StageInv, Writing
<1>9. ~Undoing' /\ \A c \in Boards : ~Passed(c)'
  BY <1>1, <1>2, <1>4, DeploymentAssumption DEF Undoing, Undone, Passed, Writing, Boards
<1>10. ASSUME NEW c \in Boards
       PROVE  BoardInv(c)'
  <2>1. CASE c = at
    <3>1. inbox'[c] = <<>>
      BY <1>1, <1>2, <1>4, <2>1 DEF TypeOK, Boards
    <3>2. Len(inbox'[c]) = 0
      BY <3>1
    <3>3. PastOf(original'[c], live'[c], generation'[c], boot'[c])
      BY <1>2, <1>3, <1>4, <2>1 DEF Past
    <3>4. /\ original'[c].config # "new" => live'[c] # "new"
          /\ original'[c].config = "new" => live'[c] # "old"
      BY <1>2, <1>3, <1>4, <2>1
    <3> QED
      BY <1>7, <1>9, <3>2, <3>3, <3>4 DEF BoardInv, Past, RequestsInv, Clean, Settled
  <2>2. CASE c # at
    <3>1. (BoardInv(c) /\ c \notin failures) \/ (c \in failures /\ BoardInv(c))
      OBVIOUS
    <3>2. /\ inbox[c] \in Seq(Requests)
          /\ inbox'[c] = inbox[c] \/ inbox'[c] = Append(inbox[c], Get)
      BY <1>1, <1>4 DEF TypeOK
    <3>3. \A i \in 1..Len(inbox'[c]) :
             \/ i \in 1..Len(inbox[c]) /\ inbox'[c][i] = inbox[c][i]
             \/ inbox'[c][i].op # "apply"
      BY <3>2, RequestTypes
    <3>4. RequestsInv(c)'
      <4> SUFFICES ASSUME NEW i \in 1..Len(inbox'[c]), inbox'[c][i].op = "apply"
                   PROVE  /\ PastOf(inbox'[c][i].read, live[c], generation[c], boot[c])
                          /\ inbox'[c][i].config = "new"
        BY <1>4 DEF RequestsInv, RequestOK, Past
      <4> QED
        BY <1>2, <3>3 DEF BoardInv, RequestsInv, RequestOK, Past
    <3>5. Clean(c) => Clean(c)'
      BY <1>3, <1>4, <2>2, <3>3 DEF Clean
    <3>6. Settled(c) /\ Past(original[c], c)'
      BY <1>1, <1>3, <1>4, <2>2 DEF StageInv, BoardInv, Past
    <3> QED
      BY <1>1, <1>2, <1>3, <1>4, <1>7, <1>9, <2>2, <3>4, <3>5, <3>6 DEF BoardInv, Past
  <2> QED
    BY <2>1, <2>2
<1> QED
  BY <1>4, <1>5, <1>6, <1>8, <1>10

-----------------------------------------------------------------------------
(* The theorems.                                                            *)

LEMMA InitHolds ==
    ASSUME Init
    PROVE  Inv
<1> USE DEF Init
<1>1. 1 \in Boards /\ 1 \in 0..(Targets + 1)
  BY DeploymentAssumption DEF Boards
<1>2. ASSUME NEW b \in Boards
      PROVE  inbox[b] \in Seq(Requests) /\ \A i \in 1..Len(inbox[b]) : inbox[b][i].op # "apply"
  <2>1. CASE b = 1
    <3>1. inbox[b] = <<Get>>
      BY <2>1
    <3> QED
      BY <3>1, RequestTypes
  <2>2. CASE b # 1
    <3>1. inbox[b] = <<>>
      BY <2>2
    <3> QED
      BY <3>1
  <2> QED
    BY <2>1, <2>2
<1>3. TypeOK
  <2>1. inbox \in [Boards -> Seq(Requests)]
    BY <1>2
  <2>2. live \in [Boards -> Configs] /\ original \in [Boards -> Snapshots]
    BY ReplyTypes DEF Configs
  <2>3. /\ pc \in Steps /\ generation \in [Boards -> Nat \ {0}]
        /\ boot \in [Boards -> Nat] /\ applied \in [Boards -> Nat]
        /\ uncertain \in [Boards -> BOOLEAN]
    BY DEF Steps
  <2> QED
    BY <1>1, <2>1, <2>2, <2>3, ReplyTypes DEF TypeOK
<1>4. AtInv /\ ReplyInv /\ StageInv
  BY <1>1, ReplyTypes DEF AtInv, ReplyInv, StageInv, Calling, Writing, Settled
<1>5. ASSUME NEW b \in Boards
      PROVE  BoardInv(b)
  <2>1. Past(original[b], b)
    BY DEF Past, PastOf, Unread
  <2>2. RequestsInv(b) /\ Clean(b)
    BY <1>2 DEF RequestsInv, RequestOK, Clean, Unread
  <2>3. ~Passed(b) /\ Settled(b) /\ original[b].config = "old"
    BY DEF Passed, Writing, Settled, Unread
  <2> QED
    BY <2>1, <2>2, <2>3 DEF BoardInv
<1> QED
  BY <1>3, <1>4, <1>5 DEF Inv

LEMMA StepKeeps ==
    ASSUME Inv, [Next]_vars
    PROVE  Inv'
<1>1. CASE TimeOut \/ Read \/ PrepareFails
  BY <1>1, TimeOutKeeps, ReadKeeps, PrepareFailsKeeps
<1>2. CASE Skip \/ Write \/ Busy \/ WriteAgain
  BY <1>2, SkipKeeps, WriteKeeps, BusyKeeps, WriteAgainKeeps
<1>3. CASE ReadBack
  BY <1>3, ReadBackKeeps DEF ReadBack, At, Writing
<1>4. CASE Confirmed \/ NotConfirmed \/ Host \/ Commit
  BY <1>4, ConfirmedKeeps, NotConfirmedKeeps, HostKeeps, CommitKeeps
<1>5. CASE RollbackEnds \/ PassOver \/ Check \/ Untouched
  BY <1>5, RollbackEndsKeeps, PassOverKeeps, CheckKeeps, UntouchedKeeps
<1>6. CASE Restore \/ Verify \/ Restored \/ NotRestored \/ Close
  BY <1>6, RestoreKeeps, VerifyKeeps, RestoredKeeps, NotRestoredKeeps, CloseKeeps
<1>7. ASSUME NEW b \in Boards,
             ServeGet(b) \/ Accept(b) \/ Refuse(b) \/ Lose(b) \/ ForeignWrite(b) \/ Reboot(b)
      PROVE  Inv'
  BY <1>7, ServeGetKeeps, AcceptKeeps, RefuseKeeps, LoseKeeps, ForeignWriteKeeps, RebootKeeps
<1>8. CASE UNCHANGED vars
  BY <1>8 DEF vars, boards, book, Inv, TypeOK, AtInv, ReplyInv, StageInv, BoardInv, Past,
              RequestsInv, RequestOK, Clean, Settled, Undoing, Passed
<1> QED
  BY <1>1, <1>2, <1>3, <1>4, <1>5, <1>6, <1>7, <1>8 DEF Next, Transaction

\* The strengthening of the properties below is an invariant.
THEOREM DistributedInvariant == Spec => []Inv
  BY InitHolds, StepKeeps, PTL DEF Spec

\* Every variable of an upload keeps its type.
THEOREM DistributedTypes == Spec => []TypeOK
  BY DistributedInvariant, PTL DEF Inv

\* For every number of boards: an upload that was not committed names every
\* board on which it left its program.
THEOREM NothingLeftUnsaid == Spec => []RollbackOrReport
<1>1. Inv => RollbackOrReport
  BY DEF Inv, StageInv, BoardInv, Clean, RollbackOrReport, AlreadyThere
<1> QED
  BY <1>1, DistributedInvariant, PTL

\* A committed upload reached every board.
THEOREM CommittedIsEverywhere == Spec => []CommitMeansAll
<1>1. Inv => CommitMeansAll
  BY DEF Inv, BoardInv, Passed, Undoing, CommitMeansAll
<1> QED
  BY <1>1, DistributedInvariant, PTL

\* No step of the transaction changes what a board runs.
LEMMA TransactionLeavesLive ==
    ASSUME Transaction \/ Close
    PROVE  live' = live
<1>1. CASE TimeOut \/ PrepareFails \/ Skip \/ Busy \/ Host \/ Commit \/ RollbackEnds \/ PassOver
           \/ Confirmed \/ Untouched \/ Restored \/ NotRestored \/ Close
  BY <1>1 DEF TimeOut, PrepareFails, Skip, Busy, Host, Commit, RollbackEnds, PassOver,
              Confirmed, Untouched, Restored, NotRestored, Close, Continue, boards
<1>2. CASE Read \/ Write \/ WriteAgain \/ ReadBack \/ NotConfirmed \/ Check \/ Restore \/ Verify
  BY <1>2 DEF Read, Write, WriteAgain, ReadBack, NotConfirmed, Check, Restore, Verify,
              Continue, Call, boards
<1> QED
  BY <1>1, <1>2 DEF Transaction

LEMMA StepReplaces ==
    ASSUME Inv, [Next]_vars, NEW b \in Boards, inbox'[b] # inbox[b], live'[b] # live[b],
           Head(inbox[b]).read.boot = boot[b]
    PROVE  /\ Head(inbox[b]).read.config = live[b]
           /\ Head(inbox[b]).config # "new" => live[b] = "new"
<1> USE DEF Inv
<1>1. \E c \in Boards : Accept(c) \/ ForeignWrite(c)
  <2>1. live' # live
    OBVIOUS
  <2>2. ~(Transaction \/ Close) /\ ~UNCHANGED vars
    BY <2>1, TransactionLeavesLive DEF vars, boards
  <2>3. \A c \in Boards : ~ServeGet(c) /\ ~Refuse(c) /\ ~Lose(c) /\ ~Reboot(c)
    BY <2>1 DEF ServeGet, Refuse, Lose, Reboot
  <2> QED
    BY <2>2, <2>3 DEF Next
<1>2. Accept(b)
  <2>1. PICK c \in Boards : Accept(c) \/ ForeignWrite(c)
    BY <1>1
  <2>2. ~ForeignWrite(c)
    BY DEF ForeignWrite
  <2>3. live' = [live EXCEPT ![c] = Head(inbox[c]).config]
    BY <2>1, <2>2 DEF Accept
  <2>4. c = b
    BY <2>3 DEF TypeOK
  <2> QED
    BY <2>1, <2>2, <2>4
<1>3. /\ inbox[b] # <<>> /\ Head(inbox[b]).op = "apply"
      /\ Head(inbox[b]).read.gen = generation[b]
  BY <1>2 DEF Accept
<1>4. RequestOK(Head(inbox[b]), b)
  <2>1. inbox[b] \in Seq(Requests)
    BY DEF TypeOK
  <2>2. Head(inbox[b]) = inbox[b][1] /\ 1 \in 1..Len(inbox[b])
    BY <1>3, <2>1, TailHas
  <2> QED
    BY <2>2 DEF BoardInv, RequestsInv
<1> QED
  BY <1>3, <1>4 DEF RequestOK, Past, PastOf

\* For every interleaving of the upload, other editors and restarts: what a
\* write of the transaction replaces is what was read with the generation that
\* allowed it.
THEOREM WritesReplaceWhatWasRead == Spec => ReplacesWhatWasRead
<1>1. Inv /\ [Next]_vars =>
         [\A b \in Boards :
            inbox'[b] # inbox[b] /\ live'[b] # live[b] =>
               LET q == Head(inbox[b])
               IN q.read.boot = boot[b] =>
                     /\ q.read.config = live[b]
                     /\ q.config # "new" => live[b] = "new"]_vars
  BY StepReplaces
<1> QED
  BY <1>1, DistributedInvariant, PTL DEF Spec, ReplacesWhatWasRead
=============================================================================
