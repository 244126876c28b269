----------------------------- MODULE ProjectStore -----------------------------
(***************************************************************************)
(* ProjectAutosaveStore of the editor for one project: revisions that are   *)
(* written before the meta key names them, a bounded history, recovery of a *)
(* meta key that cannot be read, and the check of the expected revision.    *)
(* Several tabs share the storage.  Every await of a Storage call is a step *)
(* of its own; between two of them a tab may be closed or its write may     *)
(* throw, and the key being written may be left damaged.                    *)
(*                                                                          *)
(* Revision r of the code is r + 1 here, 0 is null.  A project is the       *)
(* number of the save that wrote it.  The caller is the one that the doc of *)
(* save() asks for: it expects the revision it read or saved last.          *)
(*                                                                          *)
(* meta.head is the first entry of meta.history in everything that save and *)
(* reconstructMeta write, so it is not kept apart.                          *)
(***************************************************************************)
EXTENDS Naturals, Sequences, FiniteSets

CONSTANTS
    Tabs,
    MaxHistory,
    Overlap,      \* may operations of two tabs be under way at a time?
    MaxSaves,     \* bound: calls of save
    MaxCrashes    \* bound: operations that are cut off

\* With a history of one, a damaged snapshot hides every other from the
\* recovery; the code keeps 10.
ASSUME StoreAssumption ==
    /\ MaxHistory \in Nat \ {0, 1}
    /\ Overlap \in BOOLEAN
    /\ MaxSaves \in Nat
    /\ MaxCrashes \in Nat

VARIABLES
    content,     \* the rev:<n> keys
    history,     \* the meta key, newest revision first; empty if there is none
    damaged,     \* the meta key cannot be parsed
    pc,          \* the Storage call each tab awaits
    number,      \* the save that is under way, 0 for a load
    known,       \* the revision its caller has
    todo,        \* revisions still to be read, the newest first
    found,       \* the history readMeta came to
    saves,       \* calls of save so far
    crashes,
    confirmed    \* the save that was last answered ok with each revision

storage == <<content, history, damaged>>
tabs == <<pc, number, known, todo, found>>
vars == <<storage, tabs, saves, crashes, confirmed>>

Revisions == 1..MaxSaves
Absent == 0
Damaged == MaxSaves + 1
Readable(r) == content[r] \in 1..MaxSaves

Calls == {"idle", "meta", "keys", "rebuild", "fetch", "snapshot", "commit", "cleanup"}

TypeOK ==
    /\ content \in [Revisions -> 0..(MaxSaves + 1)]
    /\ history \in Seq(Revisions)
    /\ damaged \in BOOLEAN
    /\ pc \in [Tabs -> Calls]
    /\ number \in [Tabs -> 0..MaxSaves]
    /\ known \in [Tabs -> 0..MaxSaves]
    /\ todo \in [Tabs -> SUBSET Revisions]
    /\ found \in [Tabs -> Seq(Revisions)]
    /\ saves \in 0..MaxSaves
    /\ crashes \in 0..MaxCrashes
    /\ confirmed \in [Revisions -> 0..MaxSaves]

Init ==
    /\ content = [r \in Revisions |-> Absent]
    /\ history = <<>>
    /\ damaged = FALSE
    /\ pc = [t \in Tabs |-> "idle"]
    /\ number = [t \in Tabs |-> 0]
    /\ known = [t \in Tabs |-> 0]
    /\ todo = [t \in Tabs |-> {}]
    /\ found = [t \in Tabs |-> <<>>]
    /\ saves = 0
    /\ crashes = 0
    /\ confirmed = [r \in Revisions |-> 0]

-----------------------------------------------------------------------------
First(h) == IF h = <<>> THEN 0 ELSE Head(h)
Newest(h, n) == SubSeq(h, 1, IF Len(h) < n THEN Len(h) ELSE n)

Elements(s) == {s[i] : i \in 1..Len(s)}

Stored == {r \in Revisions : content[r] # Absent}

\* The keys sorted the other way
OldestStored == {r \in Stored : Cardinality({q \in Stored : q <= r}) <= MaxHistory}

\* The newest of the keys, whatever they hold.
NewestStored == {r \in Stored : Cardinality({q \in Stored : q >= r}) <= MaxHistory}

Begin(t, n) ==
    /\ pc[t] = "idle"
    /\ Overlap \/ \A u \in Tabs : pc[u] = "idle"
    /\ pc' = [pc EXCEPT ![t] = "meta"]
    /\ number' = [number EXCEPT ![t] = n]

Save(t) ==
    /\ saves < MaxSaves
    /\ saves' = saves + 1
    /\ Begin(t, saves + 1)
    /\ UNCHANGED <<storage, known, todo, found, crashes, confirmed>>

Load(t) ==
    /\ Begin(t, 0)
    /\ UNCHANGED <<storage, known, todo, found, saves, crashes, confirmed>>

\* The operation is over, and its local variables are gone.
Return(t) ==
    /\ pc' = [pc EXCEPT ![t] = "idle"]
    /\ number' = [number EXCEPT ![t] = 0]
    /\ todo' = [todo EXCEPT ![t] = {}]
    /\ found' = [found EXCEPT ![t] = <<>>]

\* readMeta has come to h: save compares its head with the revision that is
\* expected, load goes through the revisions.
Decide(t, h) ==
    LET saving == number[t] # 0
        ends == IF saving THEN First(h) # known[t] ELSE h = <<>>
    IN IF ends
       THEN Return(t)
       ELSE /\ pc' = [pc EXCEPT ![t] = IF saving THEN "snapshot" ELSE "fetch"]
            /\ found' = [found EXCEPT ![t] = h]
            /\ todo' = [todo EXCEPT ![t] = IF saving THEN {} ELSE Elements(h)]
            /\ UNCHANGED number

\* readMeta
GetMeta(t) ==
    /\ pc[t] = "meta"
    /\ IF history = <<>> \/ damaged
       THEN pc' = [pc EXCEPT ![t] = "keys"] /\ UNCHANGED <<number, todo, found>>
       ELSE Decide(t, history)
    /\ UNCHANGED <<storage, known, saves, crashes, confirmed>>

\* reconstructMeta: the newest keys ...
ListKeys(t) ==
    /\ pc[t] = "keys"
    /\ IF Stored = {}
       THEN Decide(t, <<>>)
       ELSE /\ pc' = [pc EXCEPT ![t] = "rebuild"]
            /\ todo' = [todo EXCEPT ![t] = NewestStored]
            /\ found' = [found EXCEPT ![t] = <<>>]
            /\ UNCHANGED number
    /\ UNCHANGED <<storage, known, saves, crashes, confirmed>>

\* The next revision to be read.
IsNext(t, r) == \A q \in todo[t] : q <= r

\* The first revision that cannot be read ends the list
RebuildUntilDamaged(t) ==
    /\ pc[t] = "rebuild"
    /\ \E r \in todo[t] :
         /\ IsNext(t, r)
         /\ LET h == IF Readable(r) THEN Append(found[t], r) ELSE found[t]
            IN IF todo[t] = {r} \/ ~Readable(r)
               THEN Decide(t, h)
               ELSE /\ found' = [found EXCEPT ![t] = h]
                    /\ todo' = [todo EXCEPT ![t] = todo[t] \ {r}]
                    /\ UNCHANGED <<pc, number>>
    /\ UNCHANGED <<storage, known, saves, crashes, confirmed>>

\* ... and of those the ones that hold a project.
Rebuild(t) ==
    /\ pc[t] = "rebuild"
    /\ \E r \in todo[t] :
         /\ IsNext(t, r)
         /\ LET h == IF Readable(r) THEN Append(found[t], r) ELSE found[t]
            IN IF todo[t] = {r}
               THEN Decide(t, h)
               ELSE /\ found' = [found EXCEPT ![t] = h]
                    /\ todo' = [todo EXCEPT ![t] = todo[t] \ {r}]
                    /\ UNCHANGED <<pc, number>>
    /\ UNCHANGED <<storage, known, saves, crashes, confirmed>>

\* load: the first revision that can be read.
Fetch(t) ==
    /\ pc[t] = "fetch"
    /\ \E r \in todo[t] :
         /\ IsNext(t, r)
         /\ IF Readable(r) \/ todo[t] = {r}
            THEN /\ known' = [known EXCEPT ![t] = IF Readable(r) THEN r ELSE known[t]]
                 /\ Return(t)
            ELSE /\ todo' = [todo EXCEPT ![t] = todo[t] \ {r}]
                 /\ UNCHANGED <<known, pc, number, found>>
    /\ UNCHANGED <<storage, saves, crashes, confirmed>>

-----------------------------------------------------------------------------
(* save, once the expected revision was found to be the head.               *)

Revision(t) == First(found[t]) + 1
NewHistory(t) == Newest(<<Revision(t)>> \o found[t], MaxHistory)

WriteSnapshot(t) ==
    /\ pc[t] = "snapshot"
    /\ content' = [content EXCEPT ![Revision(t)] = number[t]]
    /\ pc' = [pc EXCEPT ![t] = "commit"]
    /\ UNCHANGED <<history, damaged, number, known, todo, found, saves, crashes, confirmed>>

Commit(t) ==
    /\ pc[t] = "commit"
    /\ history' = NewHistory(t)
    /\ damaged' = FALSE
    /\ pc' = [pc EXCEPT ![t] = "cleanup"]
    /\ UNCHANGED <<content, number, known, todo, found, saves, crashes, confirmed>>

\* All but the new revision are removed
PruneAll(t) ==
    LET dropped == Elements(found[t]) \ {Revision(t)}
    IN content' = [r \in Revisions |-> IF r \in dropped THEN Absent ELSE content[r]]

\* What fell out of the history is removed.
Prune(t) ==
    LET dropped == Elements(found[t]) \ Elements(NewHistory(t))
    IN content' = [r \in Revisions |-> IF r \in dropped THEN Absent ELSE content[r]]

\* The caller is told.
Cleanup(t) ==
    /\ pc[t] = "cleanup"
    /\ Prune(t)
    /\ confirmed' = [confirmed EXCEPT ![Revision(t)] = number[t]]
    /\ known' = [known EXCEPT ![t] = Revision(t)]
    /\ Return(t)
    /\ UNCHANGED <<history, damaged, saves, crashes>>

\* The tab is closed, or the call it awaits throws: nothing after it happens,
\* and the value being written may be left in pieces.
CutOff(t) ==
    /\ pc[t] # "idle"
    /\ crashes < MaxCrashes
    /\ crashes' = crashes + 1
    /\ Return(t)
    /\ \/ pc[t] = "snapshot"
          /\ content' = [content EXCEPT ![Revision(t)] = Damaged]
          /\ UNCHANGED damaged
       \/ pc[t] = "commit" /\ damaged' = TRUE /\ UNCHANGED content
       \/ pc[t] = "cleanup" /\ Prune(t) /\ UNCHANGED damaged
       \/ UNCHANGED <<content, damaged>>
    /\ \E r \in {0, known[t]} : known' = [known EXCEPT ![t] = r]
    /\ UNCHANGED <<history, saves, confirmed>>

-----------------------------------------------------------------------------
Step(t) ==
    \/ GetMeta(t) \/ ListKeys(t) \/ Rebuild(t) \/ Fetch(t)
    \/ WriteSnapshot(t) \/ Commit(t) \/ Cleanup(t)

Next == \E t \in Tabs : Save(t) \/ Load(t) \/ Step(t) \/ CutOff(t)

Spec == Init /\ [][Next]_vars

-----------------------------------------------------------------------------
(* What the store promises.                                                 *)

\* What readMeta would come to from here, and the revisions among that
\* which a load could come back with.
Named == IF history # <<>> /\ ~damaged THEN Elements(history) ELSE NewestStored
Loadable == {r \in Named : Readable(r)}

\* "A crash before this write leaves meta pointing at the previous,
\* still-intact revision": wherever operations are cut off, a load finds a
\* save that was confirmed, or a later one.
ConfirmedIsFound ==
    \A r \in Revisions : confirmed[r] # 0 => \E q \in Loadable : q >= r

\* "The sole commit point": the meta key never names a revision that cannot
\* be read, so the history offers nothing that is gone.
HistoryIsReadable ==
    ~damaged => \A i \in 1..Len(history) : Readable(history[i])

\* What a load would find never goes back to an older revision.
NeverGoesBack == [][\A r \in Loadable : \E q \in Loadable' : q >= r]_vars

\* "Written once, never overwritten", and save "fails without writing
\* anything, instead of silently overwriting": what was confirmed as revision
\* r is kept, unless it has left the history.
ConfirmedIsKept ==
    \A r \in Revisions :
        confirmed[r] # 0 => content[r] \in {confirmed[r], Absent}

\* "A leftover old revision is harmless and self-heals on the next save":
\* a save that is answered ok leaves only the revisions of its history.
LeftoversHeal ==
    [][\A r \in Revisions :
         confirmed'[r] # confirmed[r] =>
            {q \in Revisions : content'[q] # Absent} \subseteq Elements(history')]_vars
=============================================================================
