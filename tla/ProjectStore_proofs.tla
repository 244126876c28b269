------------------------- MODULE ProjectStore_proofs -------------------------
(***************************************************************************)
(* Proofs about ProjectStore, for every set of tabs, every history of two   *)
(* or more revisions and any number of saves and crashes, as long as the    *)
(* operations of two tabs do not overlap.                                   *)
(***************************************************************************)
EXTENDS ProjectStore, TLAPS, FiniteSetTheorems

\* The meta key names a history.
Usable == history # <<>> /\ ~damaged

\* Every revision of h can be read, and the first is the newest.
Listed(h) == \A i \in 1..Len(h) : Readable(h[i]) /\ h[i] <= h[1]

ConfirmedUpTo(m) == \A r \in Revisions : confirmed[r] # 0 => r <= m

\* m is the revision that readMeta gives as the head: what is above it is at
\* most one snapshot that was never committed.
IsHead(m) ==
    /\ m # 0 => Readable(m)
    /\ \A q \in Stored : q > m => q = m + 1
    /\ IF Usable THEN history[1] = m ELSE \A q \in Stored : q > m => ~Readable(q)
    /\ ConfirmedUpTo(m)

HeadInv == \E m \in 0..MaxSaves : IsHead(m)

HistoryInv == Usable => Listed(history)

Alone == \A t, u \in Tabs : pc[t] # "idle" /\ pc[u] # "idle" => t = u

\* The recovery has not passed over a revision that can be read.
RebuildInv(t) ==
    /\ Listed(found[t])
    /\ \A q \in Revisions : Readable(q) =>
         IF found[t] = <<>> THEN \E p \in todo[t] : Readable(p) /\ p >= q
                            ELSE q <= found[t][1]

CommitInv(t) ==
    /\ Listed(found[t])
    /\ Revision(t) \in Revisions
    /\ Readable(Revision(t))
    /\ \A q \in Stored : q <= Revision(t)
    /\ Usable => history[1] = First(found[t])
    /\ ConfirmedUpTo(First(found[t]))

TabInv(t) ==
    /\ pc[t] \in {"keys", "rebuild"} => ~Usable
    /\ pc[t] = "rebuild" => RebuildInv(t)
    /\ pc[t] = "snapshot" => Listed(found[t]) /\ IsHead(First(found[t]))
    /\ pc[t] = "commit" => CommitInv(t)
    /\ pc[t] = "cleanup" => Revision(t) \in Revisions /\ ~damaged /\ history = NewHistory(t)

\* Every save writes at most one revision, so the bound on saves bounds them.
NumberInv(t) ==
    /\ pc[t] = "idle" => number[t] = 0
    /\ pc[t] \in {"snapshot", "commit", "cleanup"} => number[t] # 0
    /\ number[t] # 0 => number[t] = saves
    /\ number[t] # 0 /\ pc[t] \in {"meta", "keys", "rebuild", "snapshot"} =>
          \A q \in Stored : q < saves

Inv ==
    /\ TypeOK
    /\ HeadInv
    /\ HistoryInv
    /\ Alone
    /\ \A q \in Stored : q <= saves
    /\ \A t \in Tabs : TabInv(t) /\ NumberInv(t)

-----------------------------------------------------------------------------
(* Lemmas about histories and heads.                                        *)

\* The history a save writes begins with its revision and goes on with
\* revisions of the one it found.
LEMMA NewHistoryIs ==
    ASSUME NEW t \in Tabs, found[t] \in Seq(Revisions), Revision(t) \in Revisions
    PROVE  /\ NewHistory(t) \in Seq(Revisions) /\ NewHistory(t) # <<>>
           /\ NewHistory(t)[1] = Revision(t)
           /\ \A i \in 1..Len(NewHistory(t)) :
                NewHistory(t)[i] = Revision(t)
                \/ \E j \in 1..Len(found[t]) : NewHistory(t)[i] = found[t][j]
<1> DEFINE h == found[t]
           r == Revision(t)
           s == <<r>> \o h
           k == IF Len(s) < MaxHistory THEN Len(s) ELSE MaxHistory
           n == NewHistory(t)
<1>0. h \in Seq(Revisions) /\ r \in Revisions
  OBVIOUS
<1>4. n = SubSeq(s, 1, k)
  BY DEF NewHistory, Newest
<1> HIDE DEF h, r, n
<1>1. s \in Seq(Revisions) /\ Len(s) = Len(h) + 1 /\ Len(h) \in Nat
  BY <1>0
<1>2. s[1] = r /\ \A i \in 2..Len(s) : s[i] = h[i - 1]
  BY <1>0
<1>3. k \in 1..Len(s)
  BY <1>1, StoreAssumption
<1> HIDE DEF s, k
<1>5. n \in Seq(Revisions) /\ Len(n) = k /\ \A i \in 1..k : n[i] = s[i]
  BY <1>1, <1>3, <1>4
<1>6. \A i \in 1..k : n[i] = r \/ \E j \in 1..Len(h) : n[i] = h[j]
  <2> TAKE i \in 1..k
  <2>1. CASE i = 1
    BY <2>1, <1>2, <1>5
  <2>2. CASE i # 1
    <3>1. i \in 2..Len(s) /\ i - 1 \in 1..Len(h)
      BY <2>2, <1>1, <1>3
    <3> QED
      BY <3>1, <1>2, <1>5
  <2> QED
    BY <2>1, <2>2
<1>7. n # <<>> /\ n[1] = r
  BY <1>1, <1>2, <1>3, <1>5
<1> QED
  BY <1>5, <1>6, <1>7 DEF n, h, r

\* The head is among the keys that the recovery reads, since at most one
\* snapshot is above it and two are read.
LEMMA HeadIsRead ==
    ASSUME NEW m \in Revisions, m \in Stored, \A q \in Stored : q > m => q = m + 1
    PROVE  m \in NewestStored
<1> DEFINE above == {q \in Stored : q >= m}
<1>1. above \subseteq {m} \union {m + 1}
  BY DEF Stored, Revisions
<1>2. IsFiniteSet({m}) /\ Cardinality({m}) = 1 /\ IsFiniteSet({m + 1}) /\ Cardinality({m + 1}) = 1
  BY FS_Singleton
<1>3. IsFiniteSet({m} \union {m + 1}) /\ Cardinality({m} \union {m + 1}) <= 2
  <2>1. IsFiniteSet({m} \union {m + 1})
    BY <1>2, FS_Union
  <2>2. Cardinality({m} \union {m + 1}) = 1 + 1 - Cardinality({m} \cap {m + 1})
    BY <1>2, FS_Union
  <2>3. {m} \cap {m + 1} = {}
    BY DEF Revisions
  <2>4. Cardinality({m} \cap {m + 1}) = 0
    BY <2>3, FS_EmptySet
  <2> QED
    BY <2>1, <2>2, <2>4
<1>4. Cardinality(above) <= 2
  <2>1. Cardinality(above) <= Cardinality({m} \union {m + 1})
    BY <1>1, <1>3, FS_Subset
  <2>2. Cardinality(above) \in Nat /\ Cardinality({m} \union {m + 1}) \in Nat
    BY <1>1, <1>3, FS_Subset, FS_CardinalityType
  <2> QED
    BY <2>1, <2>2, <1>3
<1>5. Cardinality(above) \in Nat
  BY <1>1, <1>3, FS_Subset, FS_CardinalityType
<1> QED
  BY <1>4, <1>5, StoreAssumption DEF NewestStored

\* What can be read is stored.
LEMMA ReadableIsStored ==
    ASSUME NEW r \in Revisions, Readable(r)
    PROVE  r \in Stored
BY StoreAssumption DEF Readable, Stored, Absent

\* With no usable meta key the head is the newest revision that can be read.
LEMMA UnusableHead ==
    ASSUME ~Usable, HeadInv, NEW k \in 0..MaxSaves, k # 0 => Readable(k),
           \A q \in Revisions : Readable(q) => q <= k
    PROVE  IsHead(k)
<1>1. PICK m \in 0..MaxSaves : IsHead(m)
  BY DEF HeadInv
<1>2. m <= k
  <2>1. CASE m = 0
    BY <2>1, StoreAssumption
  <2>2. CASE m # 0
    BY <2>2, <1>1, StoreAssumption DEF IsHead, Revisions
  <2> QED
    BY <2>1, <2>2
<1>3. k <= m
  <2>1. CASE k = 0
    BY <2>1, StoreAssumption
  <2>2. CASE k # 0
    <3>1. k \in Revisions /\ Readable(k)
      BY <2>2, StoreAssumption DEF Revisions
    <3>2. k \in Stored
      BY <3>1, ReadableIsStored
    <3> QED
      BY <3>1, <3>2, <1>1, StoreAssumption DEF IsHead
  <2> QED
    BY <2>1, <2>2
<1>4. m = k
  BY <1>2, <1>3, StoreAssumption
<1> QED
  BY <1>1, <1>4

-----------------------------------------------------------------------------
(* The steps.                                                               *)

\* The invariants that speak of the storage alone.
StorageInv == HeadInv /\ HistoryInv

LEMMA StorageKept ==
    ASSUME StorageInv, UNCHANGED <<storage, confirmed>>
    PROVE  StorageInv' /\ Stored' = Stored /\ (Usable' <=> Usable)
           /\ (\A r \in Revisions : Readable(r)' <=> Readable(r))
BY DEF StorageInv, HeadInv, HistoryInv, IsHead, ConfirmedUpTo, Usable, Listed, Readable,
       Stored, storage

\* A step of t leaves the other tabs idle.
LEMMA OnlyOne ==
    ASSUME NEW t \in Tabs,
           \A u \in Tabs \ {t} : pc'[u] = "idle" /\ number'[u] = 0,
           TabInv(t)', NumberInv(t)'
    PROVE  Alone' /\ \A u \in Tabs : TabInv(u)' /\ NumberInv(u)'
<1>1. Alone'
  BY DEF Alone
<1>2. ASSUME NEW u \in Tabs \ {t} PROVE TabInv(u)' /\ NumberInv(u)'
  BY <1>2 DEF TabInv, NumberInv
<1> QED
  BY <1>1, <1>2

LEMMA OthersIdle ==
    ASSUME Inv, NEW t \in Tabs, pc[t] # "idle"
    PROVE  \A u \in Tabs \ {t} : pc[u] = "idle" /\ number[u] = 0
BY DEF Inv, Alone, NumberInv

\* The end of an operation that leaves the storage in order.
LEMMA ReturnKeeps ==
    ASSUME Inv, NEW t \in Tabs, pc[t] # "idle", Return(t)
    PROVE  /\ pc' \in [Tabs -> Calls] /\ number' \in [Tabs -> 0..MaxSaves]
           /\ todo' \in [Tabs -> SUBSET Revisions] /\ found' \in [Tabs -> Seq(Revisions)]
           /\ Alone' /\ \A u \in Tabs : TabInv(u)' /\ NumberInv(u)'
<1>1. /\ pc' \in [Tabs -> Calls] /\ number' \in [Tabs -> 0..MaxSaves]
      /\ todo' \in [Tabs -> SUBSET Revisions] /\ found' \in [Tabs -> Seq(Revisions)]
  <2>1. 0 \in 0..MaxSaves /\ <<>> \in Seq(Revisions) /\ {} \in SUBSET Revisions /\ "idle" \in Calls
    BY StoreAssumption DEF Calls
  <2> QED
    BY <2>1 DEF Inv, TypeOK, Return
<1>2. \A u \in Tabs : pc'[u] = "idle" /\ number'[u] = 0
  BY OthersIdle DEF Inv, TypeOK, Return
<1> QED
  BY <1>1, <1>2 DEF Alone, TabInv, NumberInv

\* readMeta comes to a head that is one.
LEMMA DecideKeeps ==
    ASSUME Inv, NEW t \in Tabs, pc[t] \in {"meta", "keys", "rebuild"},
           NEW h \in Seq(Revisions), Listed(h), IsHead(First(h)), Decide(t, h),
           UNCHANGED <<storage, known, saves, crashes, confirmed>>
    PROVE  Inv'
<1>1. StorageInv' /\ Stored' = Stored /\ (Usable' <=> Usable)
      /\ (\A r \in Revisions : Readable(r)' <=> Readable(r))
  BY StorageKept DEF Inv, StorageInv
<1>2. CASE Return(t)
  <2>1. TypeOK'
    BY <1>2, ReturnKeeps DEF Inv, TypeOK, storage
  <2> QED
    BY <1>1, <1>2, <2>1, ReturnKeeps DEF Inv, StorageInv
<1>3. CASE ~Return(t)
  <2> DEFINE saving == number[t] # 0
  <2>1. /\ pc' = [pc EXCEPT ![t] = IF saving THEN "snapshot" ELSE "fetch"]
        /\ found' = [found EXCEPT ![t] = h]
        /\ todo' = [todo EXCEPT ![t] = IF saving THEN {} ELSE Elements(h)]
        /\ UNCHANGED number
    BY <1>3 DEF Decide
  <2>2. TypeOK'
    <3>1. Elements(h) \in SUBSET Revisions
      BY DEF Elements
    <3>2. (IF saving THEN "snapshot" ELSE "fetch") \in Calls
      BY DEF Calls
    <3>3. (IF saving THEN {} ELSE Elements(h)) \in SUBSET Revisions
      BY <3>1
    <3> QED
      BY <2>1, <3>2, <3>3 DEF Inv, TypeOK, storage
  <2>3. pc'[t] = (IF saving THEN "snapshot" ELSE "fetch") /\ found'[t] = h /\ number'[t] = number[t]
    BY <2>1 DEF Inv, TypeOK
  <2>4. TabInv(t)'
    <3>1. CASE ~saving
      BY <2>3, <3>1 DEF TabInv
    <3>2. CASE saving
      <4>1. Listed(h)'
        BY <1>1 DEF Listed
      <4>2. IsHead(First(h))'
        BY <1>1 DEF IsHead, ConfirmedUpTo, First, storage, Readable
      <4>3. Listed(found[t])'
        BY <4>1, <2>3 DEF Listed
      <4>4. IsHead(First(found[t]))'
        BY <4>2, <2>3 DEF IsHead, First
      <4> QED
        BY <2>3, <3>2, <4>3, <4>4 DEF TabInv
    <3> QED
      BY <3>1, <3>2
  <2>5. NumberInv(t)'
    BY <1>1, <2>3 DEF Inv, NumberInv
  <2>6. \A u \in Tabs \ {t} : pc'[u] = "idle" /\ number'[u] = 0
    BY <2>1, OthersIdle DEF Inv, TypeOK
  <2>7. Alone' /\ \A u \in Tabs : TabInv(u)' /\ NumberInv(u)'
    BY <2>4, <2>5, <2>6, OnlyOne
  <2> QED
    BY <1>1, <2>2, <2>7 DEF Inv, StorageInv
<1> QED
  BY <1>2, <1>3

LEMMA SaveKeeps ==
    ASSUME Inv, ~Overlap, NEW t \in Tabs, Save(t)
    PROVE  Inv'
<1>1. StorageInv' /\ Stored' = Stored
  BY StorageKept DEF Inv, StorageInv, Save
<1>2. TypeOK'
  <2>1. saves + 1 \in 0..MaxSaves /\ "meta" \in Calls
    BY StoreAssumption DEF Save, Inv, TypeOK, Calls
  <2> QED
    BY <2>1 DEF Save, Begin, Inv, TypeOK, storage
<1>3. \A u \in Tabs : pc[u] = "idle" /\ number[u] = 0
  BY DEF Save, Begin, Inv, NumberInv
<1>4. pc'[t] = "meta" /\ number'[t] = saves + 1 /\ saves' = saves + 1
  BY DEF Save, Begin, Inv, TypeOK
<1>5. \A u \in Tabs \ {t} : pc'[u] = "idle" /\ number'[u] = 0
  BY <1>3 DEF Save, Begin, Inv, TypeOK
<1>6. \A q \in Stored' : q < saves'
  <2>1. Stored \subseteq Nat /\ saves \in Nat
    BY StoreAssumption DEF Inv, TypeOK, Stored, Revisions
  <2>2. \A q \in Stored : q <= saves
    BY DEF Inv
  <2> QED
    BY <1>1, <1>4, <2>1, <2>2
<1>7. TabInv(t)' /\ NumberInv(t)'
  BY <1>4, <1>6 DEF TabInv, NumberInv
<1>8. Alone' /\ \A u \in Tabs : TabInv(u)' /\ NumberInv(u)'
  BY <1>5, <1>7, OnlyOne
<1>9. \A q \in Stored' : q <= saves'
  <2>1. Stored \subseteq Nat /\ saves \in Nat
    BY StoreAssumption DEF Inv, TypeOK, Stored, Revisions
  <2> QED
    BY <1>1, <1>4, <1>6, <2>1
<1> QED
  BY <1>1, <1>2, <1>8, <1>9 DEF Inv, StorageInv

LEMMA LoadKeeps ==
    ASSUME Inv, ~Overlap, NEW t \in Tabs, Load(t)
    PROVE  Inv'
<1>1. StorageInv' /\ Stored' = Stored
  BY StorageKept DEF Inv, StorageInv, Load
<1>2. TypeOK'
  <2>1. 0 \in 0..MaxSaves /\ "meta" \in Calls
    BY StoreAssumption DEF Calls
  <2> QED
    BY <2>1 DEF Load, Begin, Inv, TypeOK, storage
<1>3. \A u \in Tabs : pc[u] = "idle" /\ number[u] = 0
  BY DEF Load, Begin, Inv, NumberInv
<1>4. pc'[t] = "meta" /\ number'[t] = 0
  BY DEF Load, Begin, Inv, TypeOK
<1>5. \A u \in Tabs \ {t} : pc'[u] = "idle" /\ number'[u] = 0
  BY <1>3 DEF Load, Begin, Inv, TypeOK
<1>6. TabInv(t)' /\ NumberInv(t)'
  BY <1>4 DEF TabInv, NumberInv
<1>7. Alone' /\ \A u \in Tabs : TabInv(u)' /\ NumberInv(u)'
  BY <1>5, <1>6, OnlyOne
<1> QED
  BY <1>1, <1>2, <1>7 DEF Inv, StorageInv, Load

\* A step within the operation of t that leaves the storage alone.
LEMMA QuietKeeps ==
    ASSUME Inv, NEW t \in Tabs, pc[t] # "idle", TypeOK', TabInv(t)', NumberInv(t)',
           \A u \in Tabs \ {t} : pc'[u] = pc[u] /\ number'[u] = number[u],
           UNCHANGED <<storage, saves, confirmed>>
    PROVE  Inv'
<1>1. StorageInv' /\ Stored' = Stored
  BY StorageKept DEF Inv, StorageInv
<1>2. \A u \in Tabs \ {t} : pc'[u] = "idle" /\ number'[u] = 0
  BY OthersIdle
<1>3. Alone' /\ \A u \in Tabs : TabInv(u)' /\ NumberInv(u)'
  BY <1>2, OnlyOne
<1> QED
  BY <1>1, <1>3 DEF Inv, StorageInv

LEMMA GetMetaKeeps ==
    ASSUME Inv, NEW t \in Tabs, GetMeta(t)
    PROVE  Inv'
<1>1. CASE Usable
  <2>1. Decide(t, history)
    BY <1>1 DEF GetMeta, Usable
  <2>2. Listed(history) /\ history \in Seq(Revisions)
    BY <1>1 DEF Inv, HistoryInv, TypeOK
  <2>3. IsHead(First(history))
    BY <1>1 DEF Inv, HeadInv, IsHead, First, Usable, TypeOK
  <2> QED
    BY <2>1, <2>2, <2>3, DecideKeeps DEF GetMeta
<1>2. CASE ~Usable
  <2>1. pc' = [pc EXCEPT ![t] = "keys"] /\ UNCHANGED <<number, todo, found>>
    BY <1>2 DEF GetMeta, Usable
  <2>2. TypeOK'
    <3>1. "keys" \in Calls
      BY DEF Calls
    <3> QED
      BY <2>1, <3>1 DEF GetMeta, Inv, TypeOK, storage
  <2>3. pc'[t] = "keys" /\ number'[t] = number[t] /\ pc[t] = "meta"
    BY <2>1 DEF GetMeta, Inv, TypeOK
  <2>4. TabInv(t)'
    BY <1>2, <2>3 DEF TabInv, GetMeta, storage, Usable
  <2>5. NumberInv(t)'
    <3>1. Stored' = Stored
      BY DEF GetMeta, storage, Stored
    <3> QED
      BY <2>3, <3>1 DEF NumberInv, GetMeta, Inv
  <2>6. \A u \in Tabs \ {t} : pc'[u] = pc[u] /\ number'[u] = number[u]
    BY <2>1 DEF Inv, TypeOK
  <2> QED
    BY <2>2, <2>3, <2>4, <2>5, <2>6, QuietKeeps DEF GetMeta
<1> QED
  BY <1>1, <1>2

LEMMA ListKeysKeeps ==
    ASSUME Inv, NEW t \in Tabs, ListKeys(t)
    PROVE  Inv'
<1>1. ~Usable /\ pc[t] = "keys"
  BY DEF ListKeys, Inv, TabInv
<1>2. PICK m \in 0..MaxSaves : IsHead(m)
  BY DEF Inv, HeadInv
<1>3. CASE Stored = {}
  <2>1. Decide(t, <<>>)
    BY <1>3 DEF ListKeys
  <2>2. \A q \in Revisions : ~Readable(q)
    BY <1>3, ReadableIsStored
  <2>3. IsHead(First(<<>>))
    BY <1>1, <2>2, UnusableHead, StoreAssumption DEF First, Inv
  <2>4. Listed(<<>>) /\ <<>> \in Seq(Revisions)
    BY DEF Listed
  <2> QED
    BY <1>1, <2>1, <2>3, <2>4, DecideKeeps DEF ListKeys
<1>4. CASE Stored # {}
  <2>1. /\ pc' = [pc EXCEPT ![t] = "rebuild"]
        /\ todo' = [todo EXCEPT ![t] = NewestStored]
        /\ found' = [found EXCEPT ![t] = <<>>]
        /\ UNCHANGED number
    BY <1>4 DEF ListKeys
  <2>2. TypeOK'
    <3>1. "rebuild" \in Calls /\ NewestStored \in SUBSET Revisions /\ <<>> \in Seq(Revisions)
      BY DEF Calls, NewestStored, Stored
    <3> QED
      BY <2>1, <3>1 DEF ListKeys, Inv, TypeOK, storage
  <2>3. pc'[t] = "rebuild" /\ todo'[t] = NewestStored /\ found'[t] = <<>> /\ number'[t] = number[t]
    BY <2>1 DEF Inv, TypeOK
  <2>4. \A q \in Revisions : Readable(q) => \E p \in NewestStored : Readable(p) /\ p >= q
    <3> SUFFICES ASSUME NEW q \in Revisions, Readable(q)
                 PROVE  \E p \in NewestStored : Readable(p) /\ p >= q
      OBVIOUS
    <3>1. q \in Stored
      BY ReadableIsStored
    <3>2. ~(q > m)
      BY <1>1, <1>2, <3>1 DEF IsHead
    <3>3. m \in Revisions /\ q <= m
      BY <3>2, StoreAssumption DEF Revisions
    <3>4. Readable(m)
      BY <1>2, <3>3 DEF IsHead, Revisions
    <3>5. m \in NewestStored
      BY <1>2, <3>3, <3>4, ReadableIsStored, HeadIsRead DEF IsHead
    <3> QED
      BY <3>3, <3>4, <3>5 DEF Revisions
  <2>5. UNCHANGED <<content, history, damaged, saves>>
    BY DEF ListKeys, storage
  <2>6. TabInv(t)'
    <3>1. ~Usable'
      BY <1>1, <2>5 DEF Usable
    <3>2. RebuildInv(t)'
      BY <2>3, <2>4, <2>5 DEF RebuildInv, Listed, Readable
    <3> QED
      BY <2>3, <3>1, <3>2 DEF TabInv
  <2>7. NumberInv(t)'
    <3>1. Stored' = Stored
      BY <2>5 DEF Stored
    <3> QED
      BY <1>1, <2>3, <2>5, <3>1 DEF NumberInv, Inv
  <2>8. \A u \in Tabs \ {t} : pc'[u] = pc[u] /\ number'[u] = number[u]
    BY <2>1 DEF Inv, TypeOK
  <2> QED
    BY <1>1, <2>2, <2>6, <2>7, <2>8, QuietKeeps DEF ListKeys
<1> QED
  BY <1>3, <1>4

LEMMA RebuildKeeps ==
    ASSUME Inv, NEW t \in Tabs, Rebuild(t)
    PROVE  Inv'
<1>1. ~Usable /\ pc[t] = "rebuild" /\ RebuildInv(t)
  BY DEF Rebuild, Inv, TabInv
<1>2. PICK r \in todo[t] :
        /\ IsNext(t, r)
        /\ LET h == IF Readable(r) THEN Append(found[t], r) ELSE found[t]
           IN IF todo[t] = {r}
              THEN Decide(t, h)
              ELSE /\ found' = [found EXCEPT ![t] = h]
                   /\ todo' = [todo EXCEPT ![t] = todo[t] \ {r}]
                   /\ UNCHANGED <<pc, number>>
  BY DEF Rebuild
<1> DEFINE h == IF Readable(r) THEN Append(found[t], r) ELSE found[t]
<1>3. found[t] \in Seq(Revisions) /\ r \in Revisions /\ todo[t] \subseteq Revisions
  BY DEF Inv, TypeOK
<1>4. h \in Seq(Revisions) /\ (h # <<>> => h[1] \in Revisions)
  BY <1>3
\* The first revision that can be read is the newest of them.
<1>5. Listed(h)
  <2>1. CASE ~Readable(r)
    BY <1>1, <2>1 DEF RebuildInv
  <2>2. CASE Readable(r) /\ found[t] = <<>>
    BY <1>3, <2>2 DEF Listed, Revisions
  <2>3. CASE Readable(r) /\ found[t] # <<>>
    <3>1. r <= found[t][1]
      BY <1>1, <1>3, <2>3 DEF RebuildInv
    <3>2. Len(found[t]) >= 1 /\ Len(found[t]) \in Nat
      BY <1>3, <2>3
    <3>3. Len(h) = Len(found[t]) + 1 /\ h[1] = found[t][1] /\ h[Len(h)] = r
          /\ \A i \in 1..Len(found[t]) : h[i] = found[t][i]
      BY <1>3, <2>3, <3>2
    <3>4. Listed(found[t])
      BY <1>1 DEF RebuildInv
    <3> HIDE DEF h
    <3>5. ASSUME NEW i \in 1..Len(h) PROVE Readable(h[i]) /\ h[i] <= h[1]
      <4>1. CASE i = Len(h)
        BY <2>3, <3>1, <3>3, <4>1
      <4>2. CASE i # Len(h)
        BY <3>2, <3>3, <3>4, <4>2 DEF Listed
      <4> QED
        BY <4>1, <4>2
    <3> QED
      BY <3>5 DEF Listed
  <2> QED
    BY <2>1, <2>2, <2>3
<1>6. ASSUME NEW q \in Revisions, Readable(q)
      PROVE  IF h = <<>> THEN \E p \in todo[t] \ {r} : Readable(p) /\ p >= q
                         ELSE q <= h[1]
  <2>1. CASE found[t] # <<>>
    <3>1. q <= found[t][1]
      BY <1>1, <1>6, <2>1 DEF RebuildInv
    <3>2. h # <<>> /\ h[1] = found[t][1]
      BY <1>3, <2>1
    <3> QED
      BY <3>1, <3>2
  <2>2. CASE found[t] = <<>>
    <3>1. PICK p \in todo[t] : Readable(p) /\ p >= q
      BY <1>1, <1>6, <2>2 DEF RebuildInv
    <3>2. CASE Readable(r)
      <4>1. h = <<r>>
        BY <2>2, <3>2
      <4>2. p <= r
        BY <1>2 DEF IsNext
      <4> QED
        BY <1>3, <3>1, <4>1, <4>2 DEF Revisions
    <3>3. CASE ~Readable(r)
      BY <2>2, <3>1, <3>3
    <3> QED
      BY <3>2, <3>3
  <2> QED
    BY <2>1, <2>2
<1> HIDE DEF h
<1>7. UNCHANGED <<content, history, damaged, saves, known, crashes, confirmed, storage>>
  BY DEF Rebuild, storage
<1>8. CASE todo[t] = {r}
  <2>1. Decide(t, h)
    BY <1>2, <1>8 DEF h
  <2>2. IsHead(First(h))
    <3>1. First(h) \in 0..MaxSaves
      BY <1>4, StoreAssumption DEF First, Revisions
    <3>2. First(h) # 0 => Readable(First(h))
      <4>1. CASE h = <<>>
        BY <4>1 DEF First
      <4>2. CASE h # <<>>
        BY <1>4, <1>5, <4>2 DEF First, Listed
      <4> QED
        BY <4>1, <4>2
    <3>3. \A q \in Revisions : Readable(q) => q <= First(h)
      <4>1. CASE h = <<>>
        BY <1>6, <1>8, <4>1
      <4>2. CASE h # <<>>
        BY <1>4, <1>6, <4>2 DEF First
      <4> QED
        BY <4>1, <4>2
    <3> QED
      BY <1>1, <3>1, <3>2, <3>3, UnusableHead DEF Inv
  <2> QED
    BY <1>1, <1>4, <1>5, <1>7, <2>1, <2>2, DecideKeeps
<1>9. CASE todo[t] # {r}
  <2>1. /\ found' = [found EXCEPT ![t] = h]
        /\ todo' = [todo EXCEPT ![t] = todo[t] \ {r}]
        /\ UNCHANGED <<pc, number>>
    BY <1>2, <1>9 DEF h
  <2>2. TypeOK'
    <3>1. todo[t] \ {r} \in SUBSET Revisions
      BY <1>3
    <3> QED
      BY <1>4, <1>7, <2>1, <3>1 DEF Inv, TypeOK
  <2>3. found'[t] = h /\ todo'[t] = todo[t] \ {r} /\ pc'[t] = "rebuild"
    BY <1>1, <2>1 DEF Inv, TypeOK
  <2>4. TabInv(t)'
    <3>1. ~Usable'
      BY <1>1, <1>7 DEF Usable
    <3>2. Listed(found[t])'
      BY <1>5, <1>7, <2>3 DEF Listed, Readable
    <3>3. \A q \in Revisions : Readable(q)' =>
            IF found'[t] = <<>> THEN \E p \in todo'[t] : Readable(p)' /\ p >= q
                                ELSE q <= found'[t][1]
      BY <1>6, <1>7, <2>3 DEF Readable
    <3> QED
      BY <2>3, <3>1, <3>2, <3>3 DEF TabInv, RebuildInv
  <2>5. NumberInv(t)'
    <3>1. Stored' = Stored
      BY <1>7 DEF Stored
    <3>2. NumberInv(t)
      BY DEF Inv
    <3> QED
      BY <1>7, <2>1, <3>1, <3>2 DEF NumberInv
  <2> QED
    BY <1>1, <1>7, <2>1, <2>2, <2>4, <2>5, QuietKeeps
<1> QED
  BY <1>8, <1>9

LEMMA FetchKeeps ==
    ASSUME Inv, NEW t \in Tabs, Fetch(t)
    PROVE  Inv'
<1>1. PICK r \in todo[t] :
        /\ IsNext(t, r)
        /\ IF Readable(r) \/ todo[t] = {r}
           THEN /\ known' = [known EXCEPT ![t] = IF Readable(r) THEN r ELSE known[t]]
                /\ Return(t)
           ELSE /\ todo' = [todo EXCEPT ![t] = todo[t] \ {r}]
                /\ UNCHANGED <<known, pc, number, found>>
  BY DEF Fetch
<1>2. r \in 0..MaxSaves /\ pc[t] = "fetch"
  BY StoreAssumption DEF Fetch, Inv, TypeOK, Revisions
<1>3. CASE Return(t)
  <2>1. TypeOK'
    <3>1. known' \in [Tabs -> 0..MaxSaves]
      BY <1>1, <1>2 DEF Inv, TypeOK
    <3> QED
      BY <1>2, <1>3, <3>1, ReturnKeeps DEF Inv, TypeOK, Fetch, storage
  <2>2. StorageInv' /\ Stored' = Stored
    BY StorageKept DEF Inv, StorageInv, Fetch
  <2> QED
    BY <1>2, <1>3, <2>1, <2>2, ReturnKeeps DEF Inv, StorageInv, Fetch
<1>4. CASE ~Return(t)
  <2>1. todo' = [todo EXCEPT ![t] = todo[t] \ {r}] /\ UNCHANGED <<known, pc, number, found>>
    BY <1>1, <1>4
  <2>2. TypeOK'
    <3>1. todo[t] \ {r} \in SUBSET Revisions
      BY DEF Inv, TypeOK
    <3> QED
      BY <2>1, <3>1 DEF Inv, TypeOK, Fetch, storage
  <2>3. TabInv(t)'
    BY <1>2, <2>1 DEF TabInv
  <2>4. NumberInv(t)'
    <3>1. Stored' = Stored
      BY DEF Fetch, storage, Stored
    <3> QED
      BY <1>2, <2>1, <3>1 DEF NumberInv, Inv, Fetch
  <2> QED
    BY <1>2, <2>1, <2>2, <2>3, <2>4, QuietKeeps DEF Fetch
<1> QED
  BY <1>3, <1>4

\* The revision that is about to be written is one above the head.
LEMMA SnapshotRevision ==
    ASSUME Inv, NEW t \in Tabs, pc[t] = "snapshot"
    PROVE  /\ Revision(t) \in Revisions /\ Revision(t) = First(found[t]) + 1
           /\ First(found[t]) \in 0..MaxSaves
           /\ IsHead(First(found[t])) /\ Listed(found[t])
           /\ number[t] = saves /\ saves \in 1..MaxSaves /\ Revision(t) <= saves
           /\ \A q \in Stored : q < saves
<1>1. IsHead(First(found[t])) /\ Listed(found[t])
  BY DEF Inv, TabInv
<1>2. number[t] = saves /\ saves \in 1..MaxSaves /\ \A q \in Stored : q < saves
  BY StoreAssumption DEF Inv, NumberInv, TypeOK
<1>3. First(found[t]) = 0 \/ First(found[t]) \in Revisions
  BY DEF First, Inv, TypeOK
<1>4. First(found[t]) < saves
  <2>1. CASE First(found[t]) = 0
    BY <2>1, <1>2, StoreAssumption
  <2>2. CASE First(found[t]) # 0
    BY <1>1, <1>2, <1>3, <2>2, ReadableIsStored DEF IsHead
  <2> QED
    BY <2>1, <2>2
<1> QED
  BY <1>1, <1>2, <1>3, <1>4, StoreAssumption DEF Revision, Revisions

LEMMA WriteSnapshotKeeps ==
    ASSUME Inv, NEW t \in Tabs, WriteSnapshot(t)
    PROVE  Inv'
<1>0. PICK m \in 0..MaxSaves, r \in Revisions : m = First(found[t]) /\ r = Revision(t)
  BY SnapshotRevision DEF WriteSnapshot
<1>1. /\ pc[t] = "snapshot"
      /\ content' = [content EXCEPT ![r] = number[t]]
      /\ pc' = [pc EXCEPT ![t] = "commit"]
      /\ UNCHANGED <<history, damaged, number, known, todo, found, saves, crashes, confirmed>>
  BY <1>0 DEF WriteSnapshot
<1>2. /\ r \in Revisions /\ r = m + 1 /\ m \in 0..MaxSaves /\ IsHead(m) /\ Listed(found[t])
      /\ number[t] = saves /\ saves \in 1..MaxSaves /\ r <= saves
  BY <1>0, <1>1, SnapshotRevision
<1>3. First(found[t])' = m /\ Revision(t)' = r
  BY <1>0, <1>1 DEF First, Revision
<1>4. content' \in [Revisions -> 0..(MaxSaves + 1)] /\ content'[r] = saves
      /\ \A q \in Revisions : q # r => content'[q] = content[q]
  BY <1>1, <1>2, StoreAssumption DEF Inv, TypeOK
<1>5. \A q \in Revisions : Readable(q)' <=> q = r \/ Readable(q)
  BY <1>2, <1>4, StoreAssumption DEF Readable
<1>6. Stored' = Stored \union {r}
  BY <1>2, <1>4, StoreAssumption DEF Stored, Absent, Revisions
<1>7. TypeOK'
  <2>1. "commit" \in Calls
    BY DEF Calls
  <2> QED
    BY <1>1, <1>4, <2>1 DEF Inv, TypeOK
<1>8. Usable' <=> Usable
  BY <1>1 DEF Usable
<1>9. HeadInv'
  <2>1. CASE Usable
    <3>1. IsHead(m)'
      <4>1. m # 0 => Readable(m)'
        BY <1>2, <1>5 DEF IsHead, Revisions
      <4>2. \A q \in Stored' : q > m => q = m + 1
        BY <1>2, <1>6 DEF IsHead
      <4>3. history'[1] = m /\ ConfirmedUpTo(m)'
        BY <1>1, <1>2, <2>1 DEF IsHead, ConfirmedUpTo
      <4> QED
        BY <1>8, <2>1, <4>1, <4>2, <4>3 DEF IsHead
    <3> QED
      BY <1>2, <3>1 DEF HeadInv
  <2>2. CASE ~Usable
    <3>1. \A q \in Stored' : q <= r
      BY <1>2, <1>6 DEF IsHead, Stored, Revisions
    <3>2. ConfirmedUpTo(r)'
      BY <1>1, <1>2 DEF IsHead, ConfirmedUpTo, Revisions
    <3>3. IsHead(r)'
      <4>1. \A q \in Stored' : ~(q > r)
        BY <1>2, <3>1, <1>6 DEF Stored, Revisions
      <4>2. Readable(r)'
        BY <1>2, <1>5
      <4> QED
        BY <1>8, <2>2, <3>2, <4>1, <4>2 DEF IsHead
    <3> QED
      BY <1>2, <3>3, StoreAssumption DEF HeadInv, Revisions
  <2> QED
    BY <2>1, <2>2
<1>10. HistoryInv'
  <2>1. history \in Seq(Revisions)
    BY DEF Inv, TypeOK
  <2> QED
    BY <1>1, <1>5, <1>8, <2>1 DEF Inv, HistoryInv, Listed
<1>11. pc'[t] = "commit" /\ number'[t] = saves
  BY <1>1, <1>2 DEF Inv, TypeOK
<1>12. TabInv(t)'
  <2>1. Listed(found[t])'
    <3>1. found[t] \in Seq(Revisions)
      BY DEF Inv, TypeOK
    <3>2. \A i \in 1..Len(found[t]) : Readable(found[t][i])' /\ found[t][i] <= found[t][1]
      <4> TAKE i \in 1..Len(found[t])
      <4>1. found[t][i] \in Revisions
        BY <3>1
      <4>2. Readable(found[t][i]) /\ found[t][i] <= found[t][1]
        BY <1>2 DEF Listed
      <4>3. content'[found[t][i]] \in 1..MaxSaves
        BY <1>5, <4>1, <4>2 DEF Readable
      <4> QED
        BY <1>1, <4>2, <4>3 DEF Readable
    <3> QED
      BY <1>1, <3>2 DEF Listed, Readable
  <2>2. Readable(r)' /\ \A q \in Stored' : q <= r
    BY <1>2, <1>5, <1>6 DEF IsHead, Stored, Revisions
  <2>3. (Usable => history[1] = m) /\ ConfirmedUpTo(m)
    BY <1>2 DEF IsHead
  <2>4. CommitInv(t)'
    BY <1>1, <1>2, <1>3, <1>8, <2>1, <2>2, <2>3 DEF CommitInv, ConfirmedUpTo
  <2> QED
    BY <1>11, <2>4 DEF TabInv
<1>13. NumberInv(t)'
  BY <1>1, <1>2, <1>11 DEF NumberInv
<1>14. \A u \in Tabs \ {t} : pc'[u] = "idle" /\ number'[u] = 0
  BY <1>1, OthersIdle DEF Inv, TypeOK
<1>15. Alone' /\ \A u \in Tabs : TabInv(u)' /\ NumberInv(u)'
  BY <1>12, <1>13, <1>14, OnlyOne
<1>16. \A q \in Stored' : q <= saves'
  BY <1>1, <1>2, <1>6 DEF Inv
<1> QED
  BY <1>7, <1>9, <1>10, <1>15, <1>16 DEF Inv

LEMMA CommitKeeps ==
    ASSUME Inv, NEW t \in Tabs, Commit(t)
    PROVE  Inv'
<1>1. /\ pc[t] = "commit"
      /\ history' = NewHistory(t)
      /\ damaged' = FALSE
      /\ pc' = [pc EXCEPT ![t] = "cleanup"]
      /\ UNCHANGED <<content, number, known, todo, found, saves, crashes, confirmed>>
  BY DEF Commit
<1>2. CommitInv(t) /\ found[t] \in Seq(Revisions)
  BY <1>1 DEF Inv, TabInv, TypeOK
<1>3. PICK r \in Revisions : r = Revision(t)
  BY <1>2 DEF CommitInv
<1>4. First(found[t]) \in Nat /\ r = First(found[t]) + 1
  <2>1. First(found[t]) \in Nat
    BY <1>2, StoreAssumption DEF First, Revisions
  <2> QED
    BY <1>3, <2>1 DEF Revision
<1>5. history' = NewHistory(t) /\ Revision(t) = r
  BY <1>1, <1>3
<1>6. /\ history' \in Seq(Revisions) /\ history' # <<>> /\ history'[1] = r
      /\ \A i \in 1..Len(history') :
           history'[i] = r \/ \E j \in 1..Len(found[t]) : history'[i] = found[t][j]
  BY <1>2, <1>5, NewHistoryIs
<1>7. Usable' /\ Stored' = Stored
  BY <1>1, <1>6 DEF Usable, Stored
<1>8. TypeOK'
  <2>1. "cleanup" \in Calls
    BY DEF Calls
  <2> QED
    BY <1>1, <1>6, <2>1 DEF Inv, TypeOK
<1>9. HeadInv'
  <2>1. Readable(r)'
    BY <1>1, <1>2, <1>3 DEF CommitInv, Readable
  <2>2. \A q \in Stored' : ~(q > r)
    BY <1>2, <1>3, <1>7 DEF CommitInv, Stored, Revisions
  <2>3. ConfirmedUpTo(r)'
    BY <1>1, <1>2, <1>4 DEF CommitInv, ConfirmedUpTo, Revisions
  <2>4. IsHead(r)'
    BY <1>6, <1>7, <2>1, <2>2, <2>3 DEF IsHead
  <2> QED
    BY <2>4, StoreAssumption DEF HeadInv, Revisions
<1>10. HistoryInv'
  <2>1. ASSUME NEW i \in 1..Len(history')
        PROVE  content'[history'[i]] \in 1..MaxSaves /\ history'[i] <= history'[1]
    <3>1. CASE history'[i] = r
      BY <1>1, <1>2, <1>3, <1>6, <3>1 DEF CommitInv, Readable, Revisions
    <3>2. CASE history'[i] # r
      <4>1. PICK j \in 1..Len(found[t]) : history'[i] = found[t][j]
        BY <1>6, <3>2
      <4>2. Readable(found[t][j]) /\ found[t][j] <= found[t][1] /\ found[t][j] \in Revisions
        BY <1>2 DEF CommitInv, Listed
      <4>3. found[t][1] = First(found[t])
        BY <1>2, <4>1 DEF First
      <4>4. found[t][j] <= r
        BY <1>4, <4>2, <4>3 DEF Revisions
      <4> QED
        BY <1>1, <1>6, <4>1, <4>2, <4>4 DEF Readable
    <3> QED
      BY <3>1, <3>2
  <2> QED
    BY <2>1 DEF HistoryInv, Listed, Readable
<1>11. pc'[t] = "cleanup" /\ number'[t] = number[t]
  BY <1>1 DEF Inv, TypeOK
<1>12. TabInv(t)'
  <2>1. Revision(t)' = Revision(t) /\ NewHistory(t)' = NewHistory(t)
    BY <1>1 DEF Revision, NewHistory, First, Newest
  <2> QED
    BY <1>1, <1>3, <1>11, <2>1 DEF TabInv
<1>13. NumberInv(t)'
  BY <1>1, <1>11 DEF NumberInv, Inv
<1>14. \A u \in Tabs \ {t} : pc'[u] = "idle" /\ number'[u] = 0
  BY <1>1, OthersIdle DEF Inv, TypeOK
<1>15. Alone' /\ \A u \in Tabs : TabInv(u)' /\ NumberInv(u)'
  BY <1>12, <1>13, <1>14, OnlyOne
<1>16. \A q \in Stored' : q <= saves'
  BY <1>1, <1>7 DEF Inv
<1> QED
  BY <1>8, <1>9, <1>10, <1>15, <1>16 DEF Inv

\* Only what has left the history is removed.
LEMMA PruneKeeps ==
    ASSUME Inv, NEW t \in Tabs, pc[t] = "cleanup", Prune(t), UNCHANGED <<history, damaged>>,
           \A q \in Revisions : confirmed'[q] # 0 => confirmed[q] # 0 \/ q = Revision(t)
    PROVE  /\ StorageInv' /\ Stored' \subseteq Stored
           /\ content' \in [Revisions -> 0..(MaxSaves + 1)]
<1>1. ~damaged /\ history = NewHistory(t) /\ history \in Seq(Revisions) /\ found[t] \in Seq(Revisions)
  BY DEF Inv, TabInv, TypeOK
<1>2. PICK r \in Revisions : r = Revision(t)
  BY DEF Inv, TabInv
<1>3. history # <<>> /\ history[1] = r /\ Len(history) >= 1
  <2>1. history # <<>> /\ history[1] = r
    BY <1>1, <1>2, NewHistoryIs
  <2> QED
    BY <1>1, <2>1
<1>4. Usable /\ Usable'
  BY <1>1, <1>3 DEF Usable
<1> DEFINE dropped == Elements(found[t]) \ Elements(NewHistory(t))
<1>5. content' = [q \in Revisions |-> IF q \in dropped THEN Absent ELSE content[q]]
  BY DEF Prune
<1>6. \A i \in 1..Len(history) : history[i] \notin dropped
  BY <1>1 DEF Elements
<1> HIDE DEF dropped
<1>7. content' \in [Revisions -> 0..(MaxSaves + 1)]
  BY <1>5, StoreAssumption DEF Inv, TypeOK, Absent
<1>8. Stored' \subseteq Stored
  BY <1>5 DEF Stored
<1>9. \A i \in 1..Len(history) : content'[history[i]] = content[history[i]]
  BY <1>1, <1>5, <1>6
<1>10. HistoryInv'
  BY <1>4, <1>9 DEF Inv, HistoryInv, Listed, Readable
<1>11. HeadInv'
  <2>1. PICK m \in 0..MaxSaves : IsHead(m)
    BY DEF Inv, HeadInv
  <2>2. m = r
    BY <1>3, <1>4, <2>1 DEF IsHead
  <2>3. Readable(r)'
    <3>1. Readable(r) /\ content'[r] = content[r]
      BY <1>3, <1>4, <1>9, <1>1 DEF Inv, HistoryInv, Listed
    <3> QED
      BY <3>1 DEF Readable
  <2>4. \A q \in Stored' : q > r => q = r + 1
    BY <1>8, <2>1, <2>2 DEF IsHead
  <2>5. ConfirmedUpTo(r)'
    BY <1>2, <2>1, <2>2 DEF IsHead, ConfirmedUpTo, Revisions
  <2>6. IsHead(r)'
    BY <1>3, <1>4, <2>3, <2>4, <2>5 DEF IsHead
  <2> QED
    BY <2>6, StoreAssumption DEF HeadInv, Revisions
<1> QED
  BY <1>7, <1>8, <1>10, <1>11 DEF StorageInv

LEMMA CleanupKeeps ==
    ASSUME Inv, NEW t \in Tabs, Cleanup(t)
    PROVE  Inv'
<1>1. /\ pc[t] = "cleanup" /\ Prune(t) /\ Return(t)
      /\ confirmed' = [confirmed EXCEPT ![Revision(t)] = number[t]]
      /\ known' = [known EXCEPT ![t] = Revision(t)]
      /\ UNCHANGED <<history, damaged, saves, crashes>>
  BY DEF Cleanup
<1>2. Revision(t) \in Revisions
  BY <1>1 DEF Inv, TabInv
<1>3. \A q \in Revisions : confirmed'[q] # 0 => confirmed[q] # 0 \/ q = Revision(t)
  BY <1>1, <1>2 DEF Inv, TypeOK
<1>4. /\ StorageInv' /\ Stored' \subseteq Stored
      /\ content' \in [Revisions -> 0..(MaxSaves + 1)]
  BY <1>1, <1>3, PruneKeeps
<1>5. TypeOK'
  <2>1. Revision(t) \in 0..MaxSaves /\ number[t] \in 0..MaxSaves
    BY <1>2, StoreAssumption DEF Revisions, Inv, TypeOK
  <2> QED
    BY <1>1, <1>4, <2>1, ReturnKeeps DEF Inv, TypeOK
<1>6. \A q \in Stored' : q <= saves'
  BY <1>1, <1>4 DEF Inv
<1>7. Alone' /\ \A u \in Tabs : TabInv(u)' /\ NumberInv(u)'
  BY <1>1, ReturnKeeps
<1> QED
  BY <1>4, <1>5, <1>6, <1>7 DEF Inv, StorageInv

\* A snapshot cut off in the middle damages a revision that nothing names.
LEMMA DamagedSnapshot ==
    ASSUME Inv, NEW t \in Tabs, pc[t] = "snapshot",
           content' = [content EXCEPT ![Revision(t)] = Damaged],
           UNCHANGED <<history, damaged, saves, confirmed>>
    PROVE  /\ StorageInv' /\ content' \in [Revisions -> 0..(MaxSaves + 1)]
           /\ \A q \in Stored' : q <= saves'
<1>1. PICK m \in 0..MaxSaves, r \in Revisions : m = First(found[t]) /\ r = Revision(t)
  BY SnapshotRevision
<1>2. r = m + 1 /\ IsHead(m) /\ saves \in 1..MaxSaves /\ r <= saves
  BY <1>1, SnapshotRevision
<1>3. content' \in [Revisions -> 0..(MaxSaves + 1)] /\ content'[r] = MaxSaves + 1
      /\ \A q \in Revisions : q # r => content'[q] = content[q]
  BY <1>1, StoreAssumption DEF Inv, TypeOK, Damaged
<1>4. ~Readable(r)' /\ \A q \in Revisions : q # r => (Readable(q)' <=> Readable(q))
  BY <1>3, StoreAssumption DEF Readable
<1>5. Stored' \subseteq Stored \union {r}
  BY <1>3 DEF Stored
<1>6. Usable' <=> Usable
  BY DEF Usable
<1>7. m # 0 => Readable(m)'
  BY <1>2, <1>4, StoreAssumption DEF IsHead, Revisions
<1>8. \A q \in Stored' : q > m => q = m + 1
  BY <1>2, <1>5 DEF IsHead
<1>9. IF Usable THEN history[1] = m ELSE \A q \in Stored' : q > m => ~Readable(q)'
  BY <1>2, <1>4, <1>8 DEF IsHead
<1>10. IsHead(m)'
  BY <1>2, <1>6, <1>7, <1>8, <1>9 DEF IsHead, ConfirmedUpTo
<1>11. HistoryInv'
  <2>1. SUFFICES ASSUME Usable, NEW i \in 1..Len(history)
                 PROVE  content'[history[i]] \in 1..MaxSaves /\ history[i] <= history[1]
    BY <1>6 DEF HistoryInv, Listed, Readable
  <2>2. history[i] \in Revisions /\ Readable(history[i]) /\ history[i] <= history[1]
    BY <2>1 DEF Inv, TypeOK, HistoryInv, Listed
  <2>3. history[i] # r
    BY <1>2, <2>1, <2>2 DEF IsHead, Revisions
  <2> QED
    BY <1>3, <2>2, <2>3 DEF Readable
<1>12. \A q \in Stored' : q <= saves'
  BY <1>2, <1>5 DEF Inv
<1> QED
  BY <1>3, <1>10, <1>11, <1>12 DEF StorageInv, HeadInv

\* A meta key cut off in the middle makes the snapshot below it the head.
LEMMA DamagedMeta ==
    ASSUME Inv, NEW t \in Tabs, pc[t] = "commit", damaged' = TRUE,
           UNCHANGED <<content, history, confirmed>>
    PROVE  StorageInv'
<1>1. CommitInv(t)
  BY DEF Inv, TabInv
<1>2. PICK r \in Revisions : r = Revision(t)
  BY <1>1 DEF CommitInv
<1>3. ~Usable'
  BY DEF Usable
<1>4. First(found[t]) \in Nat /\ r = First(found[t]) + 1
  <2>1. First(found[t]) \in Nat
    BY StoreAssumption DEF First, Revisions, Inv, TypeOK
  <2> QED
    BY <1>2, <2>1 DEF Revision
<1>5. Readable(r)' /\ Stored' = Stored
  BY <1>1, <1>2 DEF CommitInv, Readable, Stored
<1>6. \A q \in Stored' : ~(q > r)
  BY <1>1, <1>2, <1>5 DEF CommitInv, Stored, Revisions
<1>7. ConfirmedUpTo(r)'
  BY <1>1, <1>4 DEF CommitInv, ConfirmedUpTo, Revisions
<1>8. IsHead(r)'
  BY <1>3, <1>5, <1>6, <1>7 DEF IsHead
<1> QED
  BY <1>3, <1>8, StoreAssumption DEF StorageInv, HeadInv, HistoryInv, Revisions

LEMMA CutOffKeeps ==
    ASSUME Inv, NEW t \in Tabs, CutOff(t)
    PROVE  Inv'
<1>1. /\ pc[t] # "idle" /\ Return(t) /\ crashes' = crashes + 1 /\ crashes < MaxCrashes
      /\ UNCHANGED <<history, saves, confirmed>>
  BY DEF CutOff
<1>2. Alone' /\ \A u \in Tabs : TabInv(u)' /\ NumberInv(u)'
  BY <1>1, ReturnKeeps
<1>3. known' \in [Tabs -> 0..MaxSaves] /\ crashes' \in 0..MaxCrashes
  BY <1>1, StoreAssumption DEF CutOff, Inv, TypeOK
<1>4. /\ StorageInv' /\ content' \in [Revisions -> 0..(MaxSaves + 1)]
      /\ damaged' \in BOOLEAN
      /\ \A q \in Stored' : q <= saves'
  <2>1. CASE /\ pc[t] = "snapshot"
             /\ content' = [content EXCEPT ![Revision(t)] = Damaged]
             /\ UNCHANGED damaged
    BY <1>1, <2>1, DamagedSnapshot DEF Inv, TypeOK
  <2>2. CASE pc[t] = "commit" /\ damaged' = TRUE /\ UNCHANGED content
    <3>1. Stored' = Stored
      BY <2>2 DEF Stored
    <3> QED
      BY <1>1, <2>2, <3>1, DamagedMeta DEF Inv, TypeOK
  <2>3. CASE pc[t] = "cleanup" /\ Prune(t) /\ UNCHANGED damaged
    <3>1. StorageInv' /\ Stored' \subseteq Stored /\ content' \in [Revisions -> 0..(MaxSaves + 1)]
      BY <1>1, <2>3, PruneKeeps
    <3> QED
      BY <1>1, <2>3, <3>1 DEF Inv, TypeOK
  <2>4. CASE UNCHANGED <<content, damaged>>
    <3>1. StorageInv' /\ Stored' = Stored
      BY <1>1, <2>4, StorageKept DEF Inv, StorageInv, storage
    <3> QED
      BY <1>1, <2>4, <3>1 DEF Inv, TypeOK
  <2> QED
    BY <2>1, <2>2, <2>3, <2>4 DEF CutOff
<1>5. TypeOK'
  BY <1>1, <1>3, <1>4, ReturnKeeps DEF Inv, TypeOK
<1> QED
  BY <1>2, <1>4, <1>5 DEF Inv, StorageInv

\* The head is what a load comes back with.
LEMMA HeadIsLoaded ==
    ASSUME Inv, NEW m \in 0..MaxSaves, IsHead(m)
    PROVE  /\ m # 0 => m \in Loadable
           /\ \A r \in Loadable : r <= m
<1>1. ASSUME m # 0 PROVE m \in Loadable
  <2>1. m \in Revisions /\ Readable(m) /\ m \in Stored
    BY <1>1, ReadableIsStored, StoreAssumption DEF IsHead, Revisions
  <2>2. CASE Usable
    <3>1. history[1] = m /\ 1 \in 1..Len(history)
      BY <2>2 DEF IsHead, Usable, Inv, TypeOK
    <3> QED
      BY <2>1, <2>2, <3>1 DEF Loadable, Named, Usable, Elements
  <2>3. CASE ~Usable
    <3>1. m \in NewestStored
      BY <2>1, HeadIsRead DEF IsHead
    <3> QED
      BY <2>1, <2>3, <3>1 DEF Loadable, Named, Usable
  <2> QED
    BY <2>2, <2>3
<1>2. ASSUME NEW r \in Loadable PROVE r <= m
  <2>1. CASE Usable
    <3>1. PICK i \in 1..Len(history) : r = history[i]
      BY <1>2, <2>1 DEF Loadable, Named, Usable, Elements
    <3> QED
      BY <2>1, <3>1 DEF Inv, HistoryInv, Listed, IsHead
  <2>2. CASE ~Usable
    <3>1. r \in Stored /\ Readable(r)
      BY <1>2, <2>2 DEF Loadable, Named, Usable, NewestStored
    <3> QED
      BY <2>2, <3>1, StoreAssumption DEF IsHead, Stored, Revisions
  <2> QED
    BY <2>1, <2>2
<1> QED
  BY <1>1, <1>2

-----------------------------------------------------------------------------
(* The theorems.                                                            *)

LEMMA InitHolds ==
    ASSUME Init
    PROVE  Inv
<1>1. TypeOK
  <2>1. 0 \in 0..MaxSaves /\ 0 \in 0..(MaxSaves + 1) /\ 0 \in 0..MaxCrashes
    BY StoreAssumption
  <2>2. "idle" \in Calls /\ <<>> \in Seq(Revisions) /\ {} \in SUBSET Revisions
    BY DEF Calls
  <2> QED
    BY <2>1, <2>2 DEF Init, TypeOK, Absent
<1>2. Stored = {} /\ ~Usable
  BY DEF Init, Stored, Usable
<1>3. ConfirmedUpTo(0)
  BY DEF Init, ConfirmedUpTo
<1>4. IsHead(0)
  BY <1>2, <1>3 DEF IsHead
<1>5. HeadInv
  BY <1>4, StoreAssumption DEF HeadInv
<1> QED
  BY <1>1, <1>2, <1>5 DEF Init, Inv, HistoryInv, Alone, TabInv, NumberInv

LEMMA StepHolds ==
    ASSUME Inv, ~Overlap, [Next]_vars
    PROVE  Inv'
<1>1. CASE UNCHANGED vars
  <2>1. StorageInv' /\ Stored' = Stored
    BY <1>1, StorageKept DEF Inv, StorageInv, vars, storage
  <2>2. TypeOK'
    BY <1>1 DEF Inv, TypeOK, vars, storage, tabs
  <2>3. \A u \in Tabs : TabInv(u)' /\ NumberInv(u)'
    <3> SUFFICES ASSUME NEW u \in Tabs PROVE TabInv(u)' /\ NumberInv(u)'
      OBVIOUS
    <3>1. UNCHANGED <<content, history, damaged, confirmed, pc, number, known, todo, found, saves>>
      BY <1>1 DEF vars, storage, tabs
    <3>2. TabInv(u) /\ NumberInv(u)
      BY DEF Inv
    <3>3. /\ Usable' <=> Usable
          /\ Revision(u)' = Revision(u) /\ NewHistory(u)' = NewHistory(u)
          /\ First(found[u])' = First(found[u]) /\ Listed(found[u])' <=> Listed(found[u])
      BY <3>1 DEF Usable, Revision, NewHistory, Newest, First, Listed, Readable
    <3>4. RebuildInv(u)' <=> RebuildInv(u)
      BY <3>1 DEF RebuildInv, Listed, Readable
    <3>5. CommitInv(u)' <=> CommitInv(u)
      BY <3>1 DEF CommitInv, Listed, Readable, Revision, Usable, ConfirmedUpTo, Stored, First
    <3>6. IsHead(First(found[u]))' <=> IsHead(First(found[u]))
      BY <3>1 DEF IsHead, Readable, Usable, ConfirmedUpTo, Stored, First
    <3>7. TabInv(u)'
      BY <3>1, <3>2, <3>3, <3>4, <3>5, <3>6 DEF TabInv
    <3>8. NumberInv(u)'
      BY <3>1, <3>2 DEF NumberInv, Stored
    <3> QED
      BY <3>7, <3>8
  <2> QED
    BY <1>1, <2>1, <2>2, <2>3 DEF Inv, StorageInv, Alone, vars, tabs
<1>2. ASSUME NEW t \in Tabs, Save(t) PROVE Inv'
  BY <1>2, SaveKeeps
<1>3. ASSUME NEW t \in Tabs, Load(t) PROVE Inv'
  BY <1>3, LoadKeeps
<1>4. ASSUME NEW t \in Tabs, Step(t) PROVE Inv'
  BY <1>4, GetMetaKeeps, ListKeysKeeps, RebuildKeeps, FetchKeeps, WriteSnapshotKeeps,
     CommitKeeps, CleanupKeeps DEF Step
<1>5. ASSUME NEW t \in Tabs, CutOff(t) PROVE Inv'
  BY <1>5, CutOffKeeps
<1> QED
  BY <1>1, <1>2, <1>3, <1>4, <1>5 DEF Next

\* Without overlapping operations the store keeps its inductive invariant:
\* there is always one head, and at most one snapshot above it.
THEOREM StoreInvariant ==
    ASSUME ~Overlap
    PROVE  Spec => []Inv
<1>1. Init => Inv
  BY InitHolds
<1>2. Inv /\ [Next]_vars => Inv'
  BY StepHolds
<1> QED
  BY <1>1, <1>2, PTL DEF Spec

\* The types of the keys and of the tabs.
THEOREM StoreTypes ==
    ASSUME ~Overlap
    PROVE  Spec => []TypeOK
<1>1. Inv => TypeOK
  BY DEF Inv
<1> QED
  BY <1>1, StoreInvariant, PTL

\* meta is the only commit point: it names nothing that cannot be read.
THEOREM HistoryReadable ==
    ASSUME ~Overlap
    PROVE  Spec => []HistoryIsReadable
<1>1. Inv => HistoryIsReadable
  BY DEF Inv, HistoryInv, Usable, Listed, HistoryIsReadable
<1> QED
  BY <1>1, StoreInvariant, PTL

\* Whatever is cut off, a load finds what was confirmed, or something newer.
THEOREM ConfirmedFound ==
    ASSUME ~Overlap
    PROVE  Spec => []ConfirmedIsFound
<1>1. ASSUME Inv PROVE ConfirmedIsFound
  <2>1. PICK m \in 0..MaxSaves : IsHead(m)
    BY <1>1 DEF Inv, HeadInv
  <2>2. SUFFICES ASSUME NEW r \in Revisions, confirmed[r] # 0
                 PROVE  \E q \in Loadable : q >= r
    BY DEF ConfirmedIsFound
  <2>3. m >= r /\ m # 0
    BY <2>1, <2>2, StoreAssumption DEF IsHead, ConfirmedUpTo, Revisions
  <2> QED
    BY <1>1, <2>1, <2>3, HeadIsLoaded
<1> QED
  BY <1>1, StoreInvariant, PTL

-----------------------------------------------------------------------------
(* The head never goes back.                                                *)

LEMMA OneHead ==
    ASSUME NEW m \in 0..MaxSaves, NEW k \in 0..MaxSaves, IsHead(m), IsHead(k)
    PROVE  m = k
<1>1. CASE Usable
  BY <1>1 DEF IsHead
<1>2. CASE ~Usable
  <2>1. m = 0 \/ m \in Stored
    BY ReadableIsStored, StoreAssumption DEF IsHead, Revisions
  <2>2. k = 0 \/ k \in Stored
    BY ReadableIsStored, StoreAssumption DEF IsHead, Revisions
  <2>3. ~(m > k)
    BY <1>2, <2>1, StoreAssumption DEF IsHead
  <2>4. ~(k > m)
    BY <1>2, <2>2, StoreAssumption DEF IsHead
  <2> QED
    BY <2>3, <2>4, StoreAssumption
<1> QED
  BY <1>1, <1>2

\* What a step may do to the storage.
LEMMA StorageSteps ==
    ASSUME Inv, NEW t \in Tabs, Save(t) \/ Load(t) \/ Step(t) \/ CutOff(t)
    PROVE  \/ UNCHANGED storage
           \/ WriteSnapshot(t)
           \/ Commit(t)
           \/ pc[t] = "cleanup" /\ UNCHANGED <<history, damaged>>
           \/ /\ pc[t] = "snapshot" /\ UNCHANGED <<history, damaged>>
              /\ content' = [content EXCEPT ![Revision(t)] = Damaged]
           \/ damaged' = TRUE /\ UNCHANGED <<content, history>>
<1>1. CASE CutOff(t)
  BY <1>1 DEF CutOff, storage
<1>2. CASE ~CutOff(t)
  BY <1>2 DEF Save, Load, Step, GetMeta, ListKeys, Rebuild, Fetch, Cleanup
<1> QED
  BY <1>1, <1>2

LEMMA HeadGrows ==
    ASSUME Inv, NEW t \in Tabs, Save(t) \/ Load(t) \/ Step(t) \/ CutOff(t),
           NEW m \in 0..MaxSaves, IsHead(m), NEW k \in 0..MaxSaves, IsHead(k)'
    PROVE  k >= m
<1> SUFFICES ASSUME m # 0
             PROVE  k >= m
  BY StoreAssumption
<1>1. m \in Revisions /\ Readable(m) /\ m \in Stored
  BY ReadableIsStored, StoreAssumption DEF IsHead, Revisions
\* A head that can still be read is not above the new one.
<1>2. ASSUME ~Usable', Readable(m)' PROVE k >= m
  <2>1. m \in Stored'
    BY <1>1, <1>2, StoreAssumption DEF Stored, Readable, Absent
  <2> QED
    BY <1>1, <1>2, <2>1, StoreAssumption DEF IsHead, Revisions
<1>3. ASSUME UNCHANGED <<history, damaged>>, Usable PROVE k >= m
  <2>1. k = m
    BY <1>3 DEF IsHead, Usable
  <2> QED
    BY <2>1, StoreAssumption
<1>4. CASE UNCHANGED storage
  BY <1>1, <1>2, <1>3, <1>4 DEF storage, Usable, Readable
<1>5. CASE WriteSnapshot(t)
  <2>1. UNCHANGED <<history, damaged>> /\ content' = [content EXCEPT ![Revision(t)] = number[t]]
    BY <1>5 DEF WriteSnapshot
  <2>2. number[t] \in 1..MaxSaves
    BY <1>5, SnapshotRevision DEF WriteSnapshot
  <2>3. Readable(m)'
    BY <1>1, <2>1, <2>2 DEF Readable, Inv, TypeOK
  <2> QED
    BY <1>2, <1>3, <2>1, <2>3 DEF Usable
<1>6. CASE Commit(t)
  <2>1. CommitInv(t) /\ history' = NewHistory(t) /\ ~damaged' /\ found[t] \in Seq(Revisions)
    BY <1>6 DEF Commit, Inv, TabInv, TypeOK
  <2>2. history' # <<>> /\ history'[1] = Revision(t)
    BY <2>1, NewHistoryIs DEF CommitInv
  <2>3. k = Revision(t)
    BY <2>1, <2>2 DEF IsHead, Usable
  <2>4. m <= Revision(t)
    BY <1>1, <2>1 DEF CommitInv
  <2> QED
    BY <2>3, <2>4, StoreAssumption
<1>7. CASE pc[t] = "cleanup" /\ UNCHANGED <<history, damaged>>
  <2>1. ~damaged /\ history # <<>>
    BY <1>7, NewHistoryIs DEF Inv, TabInv, TypeOK
  <2> QED
    BY <1>3, <1>7, <2>1 DEF Usable
<1>8. CASE /\ pc[t] = "snapshot" /\ UNCHANGED <<history, damaged>>
           /\ content' = [content EXCEPT ![Revision(t)] = Damaged]
  <2>1. First(found[t]) = m /\ Revision(t) = m + 1
    <3>1. /\ First(found[t]) \in 0..MaxSaves /\ IsHead(First(found[t]))
          /\ Revision(t) = First(found[t]) + 1
      BY <1>8, SnapshotRevision
    <3>2. First(found[t]) = m
      BY <3>1, OneHead
    <3> QED
      BY <3>1, <3>2
  <2>2. Readable(m)'
    BY <1>1, <1>8, <2>1, StoreAssumption DEF Readable, Inv, TypeOK, Revisions
  <2> QED
    BY <1>2, <1>3, <1>8, <2>2 DEF Usable
<1>9. CASE damaged' = TRUE /\ UNCHANGED <<content, history>>
  <2>1. ~Usable' /\ Readable(m)'
    BY <1>1, <1>9 DEF Usable, Readable
  <2> QED
    BY <1>2, <2>1
<1> QED
  BY <1>4, <1>5, <1>6, <1>7, <1>8, <1>9, StorageSteps

\* A load never comes back with something older than a load before.
THEOREM NoWayBack ==
    ASSUME ~Overlap
    PROVE  Spec => NeverGoesBack
<1>1. \A k \in 0..MaxSaves : Inv /\ IsHead(k) /\ k # 0 => k \in Loadable
  BY HeadIsLoaded
<1>2. (\A k \in 0..MaxSaves : Inv /\ IsHead(k) /\ k # 0 => k \in Loadable)'
  BY <1>1, PTL
<1>3. ASSUME Inv, Inv', [Next]_vars
      PROVE  [\A r \in Loadable : \E q \in Loadable' : q >= r]_vars
  <2>1. SUFFICES ASSUME Next, NEW r \in Loadable
                 PROVE  \E q \in Loadable' : q >= r
    BY <1>3
  <2>2. PICK m \in 0..MaxSaves : IsHead(m)
    BY <1>3 DEF Inv, HeadInv
  <2>3. PICK k \in 0..MaxSaves : IsHead(k)'
    BY <1>3 DEF Inv, HeadInv
  <2>4. PICK t \in Tabs : Save(t) \/ Load(t) \/ Step(t) \/ CutOff(t)
    BY <2>1 DEF Next
  <2>5. k >= m
    BY <1>3, <2>2, <2>3, <2>4, HeadGrows
  <2>6. r <= m /\ r \in Revisions
    <3>1. r <= m
      BY <1>3, <2>1, <2>2, HeadIsLoaded
    <3>2. r \in Revisions
      <4>1. Elements(history) \subseteq Revisions
        <5>1. history \in Seq(Revisions)
          BY <1>3 DEF Inv, TypeOK
        <5> QED
          BY <5>1 DEF Elements
      <4>2. NewestStored \subseteq Revisions
        BY DEF NewestStored, Stored
      <4>3. r \in Elements(history) \/ r \in NewestStored
        BY <2>1 DEF Loadable, Named
      <4> QED
        BY <4>1, <4>2, <4>3
    <3> QED
      BY <3>1, <3>2
  <2>7. k # 0
    BY <2>5, <2>6, StoreAssumption DEF Revisions
  <2>8. k \in Loadable'
    BY <1>3, <1>2, <2>3, <2>7
  <2> QED
    BY <2>5, <2>6, <2>7, <2>8, StoreAssumption DEF Revisions
<1> QED
  BY <1>3, StoreInvariant, PTL DEF Spec, NeverGoesBack
=============================================================================
