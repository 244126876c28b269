------------------------ MODULE RecordDelivery_proofs ------------------------
(***************************************************************************)
(* For every capacity, every set of consumers and every number of pushes:   *)
(* the ring of record_delivery.c keeps its types, its window is consistent  *)
(* and no retained record is overwritten.  The three properties are one     *)
(* inductive invariant: the window bounds keep the slots of live indices    *)
(* apart, and the slots make what peek returns a record.                    *)
(***************************************************************************)
EXTENDS RecordDelivery, SequenceTheorems, TLAPS

Ring == TypeOK /\ WindowBounds /\ RingHoldsWindow

-----------------------------------------------------------------------------
LEMMA Division ==
    ASSUME NEW i \in Int, NEW n \in Int, n > 0
    PROVE  i = n * (i \div n) + (i % n)
  BY SMT

LEMMA DivisionType ==
    ASSUME NEW i \in Int, NEW n \in Int, n > 0
    PROVE  i \div n \in Int /\ i % n \in Int /\ 0 <= i % n /\ i % n < n
  BY SMT

\* Two indices less than a capacity apart never share a slot.
LEMMA OffsetsApart ==
    ASSUME NEW i \in Nat, NEW j \in Nat, i < j, j - i < Capacity
    PROVE  slot_offset(i) # slot_offset(j)
<1>1. Capacity \in Int /\ Capacity > 0
  BY DeliveryAssumption
<1> DEFINE p == i \div Capacity
           q == j \div Capacity
<1>2. p \in Int /\ i = Capacity * p + (i % Capacity) /\ (i % Capacity) \in Int
  BY <1>1, Division, DivisionType
<1>3. q \in Int /\ j = Capacity * q + (j % Capacity) /\ (j % Capacity) \in Int
  BY <1>1, Division, DivisionType
<1> HIDE DEF p, q
<1>4. SUFFICES ASSUME i % Capacity = j % Capacity PROVE FALSE
  BY DEF slot_offset
<1>5. j - i = Capacity * (q - p)
  <2>1. ASSUME NEW r \in Int, i = Capacity * p + r, j = Capacity * q + r
        PROVE  j - i = Capacity * (q - p)
    BY <1>1, <1>2, <1>3, <2>1
  <2> QED
    BY <1>2, <1>3, <1>4, <2>1
<1>6. CASE q - p <= 0
  <2>1. Capacity * (q - p) <= 0
    BY <1>1, <1>2, <1>3, <1>6
  <2> QED
    BY <1>5, <2>1
<1>7. CASE q - p >= 1
  <2>1. Capacity * (q - p) >= Capacity
    BY <1>1, <1>2, <1>3, <1>7
  <2> QED
    BY <1>1, <1>5, <2>1
<1> QED
  BY <1>2, <1>3, <1>6, <1>7

LEMMA OffsetType ==
    ASSUME NEW i \in Nat
    PROVE  slot_offset(i) \in Offsets
  BY DeliveryAssumption DEF slot_offset, Offsets

LEMMA IncrementType ==
    ASSUME NEW n \in Nat
    PROVE  Increment(n) \in 0 .. Modulus - 1
  BY DeliveryAssumption DEF Increment

LEMMA ConsumerFields ==
    ASSUME NEW r \in ConsumerType
    PROVE  /\ r.next_index \in Nat /\ r.active \in BOOLEAN
           /\ r.delivered \in 0 .. Modulus - 1 /\ r.lost \in 0 .. Modulus - 1
  BY DEF ConsumerType

LEMMA IdleType == Idle \in ConsumerType /\ ~Idle.active
  BY DeliveryAssumption DEF Idle, ConsumerType

LEMMA InitRing == Init => Ring
<1> SUFFICES ASSUME Init PROVE Ring
  OBVIOUS
<1>1. TypeOK
  BY IdleType DEF Init, TypeOK, Zeroed, Offsets
<1>2. WindowBounds
  BY DeliveryAssumption, IdleType DEF Init, WindowBounds, Window
<1>3. RingHoldsWindow
  BY DEF Init, RingHoldsWindow
<1> QED
  BY <1>1, <1>2, <1>3 DEF Ring

-----------------------------------------------------------------------------
\* Wherever the reclaiming loop stops, it has passed no active consumer.
LEMMA ReclaimStops ==
    ASSUME NEW cs \in [Consumers -> ConsumerType], NEW o \in Window,
           oldest_index \in Nat, count \in Nat, Reclaimed(cs, o),
           \A c \in Consumers : cs[c].active => cs[c].next_index \in Window
    PROVE  \A c \in Consumers : cs[c].active => cs[c].next_index >= o
<1> SUFFICES ASSUME NEW c \in Consumers, cs[c].active
             PROVE  cs[c].next_index >= o
  OBVIOUS
<1>1. /\ \A i \in oldest_index .. o - 1 : ~Holds(cs, i)
      /\ Holds(cs, cs[c].next_index)
  BY DEF Reclaimed, Holds
<1>2. cs[c].next_index \in Nat /\ o \in Nat /\ cs[c].next_index >= oldest_index
  BY ConsumerFields DEF Window
<1> QED
  BY <1>1, <1>2

\* An operation that only moves the oldest index forward keeps the ring.
LEMMA Shrink ==
    ASSUME Ring, NEW o \in Window, Reclaimed(consumers', o),
           consumers' \in [Consumers -> ConsumerType],
           \A c \in Consumers : consumers'[c].active => consumers'[c].next_index \in Window,
           oldest_index' = o, count' = count - (o - oldest_index),
           UNCHANGED <<slots, write_index, boot_id>>,
           cursor' \in [Consumers -> Cursors \cup {NoCursor}]
    PROVE  Ring'
<1>1. oldest_index \in Nat /\ count \in Nat /\ write_index \in Nat /\ o \in Nat /\ o >= oldest_index
  BY DEF Ring, TypeOK, Window
<1>2. oldest_index' \in Nat /\ count' \in Nat
  BY <1>1 DEF Window
<1>3. TypeOK'
  BY <1>2 DEF Ring, TypeOK
<1>4. \A c \in Consumers : consumers'[c].active => consumers'[c].next_index >= o
  BY <1>1, ReclaimStops
<1>5. WindowBounds'
  <2>1. oldest_index' + count' = write_index' /\ count' <= Capacity
    BY <1>1, DeliveryAssumption DEF Ring, WindowBounds
  <2>2. ASSUME NEW c \in Consumers, consumers'[c].active
        PROVE  consumers'[c].next_index \in Window'
    BY <1>1, <1>4, <2>2 DEF Window
  <2> QED
    BY <2>1, <2>2 DEF WindowBounds
<1>6. RingHoldsWindow'
  BY <1>1 DEF Ring, RingHoldsWindow, slot_offset
<1> QED
  BY <1>3, <1>5, <1>6 DEF Ring

LEMMA ActivateStep ==
    ASSUME Ring, NEW c \in Consumers, Activate(c)
    PROVE  Ring'
<1> USE DEF Ring
<1>1. oldest_index \in Nat /\ count \in Nat /\ consumers[c] \in ConsumerType
  BY DEF TypeOK
<1>2. consumers'[c] \in ConsumerType /\ consumers' \in [Consumers -> ConsumerType]
  BY <1>1 DEF TypeOK, Activate, ConsumerType
<1>3. consumers'[c].next_index \in Window
  BY <1>1 DEF TypeOK, WindowBounds, Window, Activate, ConsumerType
<1>4. TypeOK'
  BY <1>2 DEF TypeOK, Activate
<1>5. WindowBounds'
  BY <1>3 DEF TypeOK, WindowBounds, Window, Activate
<1>6. RingHoldsWindow'
  BY DEF RingHoldsWindow, Activate, slot_offset
<1> QED
  BY <1>4, <1>5, <1>6

LEMMA DeactivateStep ==
    ASSUME Ring, NEW c \in Consumers, Deactivate(c)
    PROVE  Ring'
<1>1. PICK o \in Window :
        /\ consumers' = [consumers EXCEPT ![c].active = FALSE]
        /\ Reclaimed(consumers', o)
        /\ oldest_index' = o
        /\ count' = count - (o - oldest_index)
        /\ UNCHANGED <<slots, write_index, boot_id, cursor>>
  BY DEF Deactivate
<1>2. consumers' \in [Consumers -> ConsumerType]
  BY <1>1 DEF Ring, TypeOK, ConsumerType
<1>3. \A d \in Consumers : consumers'[d].active => consumers'[d].next_index \in Window
  BY <1>1 DEF Ring, TypeOK, WindowBounds, ConsumerType
<1>4. cursor' \in [Consumers -> Cursors \cup {NoCursor}]
  BY <1>1 DEF Ring, TypeOK
<1> QED
  BY <1>1, <1>2, <1>3, <1>4, Shrink

LEMMA AckStep ==
    ASSUME Ring, NEW c \in Consumers, Ack(c)
    PROVE  Ring'
<1>1. PICK o \in Window :
        /\ HasPending(c)
        /\ consumers' = [consumers EXCEPT ![c].next_index = @ + 1,
                                          ![c].delivered = Increment(@)]
        /\ Reclaimed(consumers', o)
        /\ oldest_index' = o
        /\ count' = count - (o - oldest_index)
        /\ cursor' = [cursor EXCEPT ![c] = NoCursor]
        /\ UNCHANGED <<slots, write_index, boot_id>>
  BY DEF Ack
<1>2. /\ consumers[c] \in ConsumerType /\ Increment(consumers[c].delivered) \in 0 .. Modulus - 1
      /\ oldest_index \in Nat /\ count \in Nat /\ write_index \in Nat
  BY IncrementType DEF Ring, TypeOK, ConsumerType
<1>3. consumers' \in [Consumers -> ConsumerType]
  BY <1>1, <1>2 DEF Ring, TypeOK, ConsumerType
<1>4. consumers[c].next_index + 1 \in Window
  BY <1>1, <1>2 DEF Ring, WindowBounds, Window, HasPending, ConsumerType
<1>5. \A d \in Consumers : consumers'[d].active => consumers'[d].next_index \in Window
  BY <1>1, <1>2, <1>4 DEF Ring, TypeOK, WindowBounds, ConsumerType
<1>6. cursor' \in [Consumers -> Cursors \cup {NoCursor}]
  BY <1>1 DEF Ring, TypeOK
<1> QED
  BY <1>1, <1>3, <1>5, <1>6, Shrink

-----------------------------------------------------------------------------
\* What peek returns is a record of this ring.
LEMMA PeekStep ==
    ASSUME Ring, NEW c \in Consumers, Peek(c)
    PROVE  Ring'
<1> DEFINE i == consumers[c].next_index
<1>1. i \in Nat /\ i \in oldest_index .. write_index - 1
  BY DEF Ring, TypeOK, Peek, HasPending, ConsumerType
<1>2. PendingRecord(c) \in Records
  BY <1>1, OffsetType DEF Ring, TypeOK, RingHoldsWindow, PendingRecord
<1>3. cursor'[c] \in Cursors /\ cursor' \in [Consumers -> Cursors \cup {NoCursor}]
  BY <1>1, <1>2 DEF Ring, TypeOK, Peek, Records, Cursors
<1>4. TypeOK'
  BY <1>3 DEF Ring, TypeOK, Peek
<1>5. WindowBounds'
  BY DEF Ring, WindowBounds, Window, Peek
<1>6. RingHoldsWindow'
  BY DEF Ring, RingHoldsWindow, slot_offset, Peek
<1> QED
  BY <1>4, <1>5, <1>6 DEF Ring

LEMMA GiveUpStep ==
    ASSUME Ring, NEW c \in Consumers, GiveUp(c)
    PROVE  Ring'
<1>1. TypeOK'
  BY DEF Ring, TypeOK, GiveUp
<1>2. WindowBounds'
  BY DEF Ring, WindowBounds, Window, GiveUp
<1>3. RingHoldsWindow'
  BY DEF Ring, RingHoldsWindow, slot_offset, GiveUp
<1> QED
  BY <1>1, <1>2, <1>3 DEF Ring

LEMMA RebootStep ==
    ASSUME Ring, NEW b \in Boots, Reboot(b)
    PROVE  Ring'
<1>1. TypeOK'
  BY IdleType DEF TypeOK, Reboot, Zeroed, Offsets
<1>2. WindowBounds'
  BY DeliveryAssumption, IdleType DEF WindowBounds, Window, Reboot
<1>3. RingHoldsWindow'
  BY DEF RingHoldsWindow, Reboot
<1> QED
  BY <1>1, <1>2, <1>3 DEF Ring

\* A push takes the slot after the newest one, which no index of the window uses.
LEMMA PushStep ==
    ASSUME Ring, NEW source \in Sources, NEW sequence \in Sequences, Push(source, sequence)
    PROVE  Ring'
<1> DEFINE record == [boot |-> boot_id, source |-> source, sequence |-> sequence]
           new == [record |-> record, abs_index |-> write_index]
<1>1. /\ oldest_index \in Nat /\ count \in Nat /\ write_index \in Nat
      /\ oldest_index + count = write_index /\ count <= Capacity
      /\ Capacity \in Nat \ {0}
  BY DeliveryAssumption DEF Ring, TypeOK, WindowBounds
<1>2. PICK o \in Window :
        LET left == count - (o - oldest_index)
            full == left >= Capacity
        IN
        /\ Reclaimed(consumers, o)
        /\ consumers' = IF full THEN DropOldest(o) ELSE consumers
        /\ oldest_index' = IF full THEN o + 1 ELSE o
        /\ count' = IF full THEN left ELSE left + 1
        /\ slots' = [slots EXCEPT ![slot_offset(write_index)] = new]
        /\ write_index' = write_index + 1
        /\ UNCHANGED <<boot_id, cursor>>
  BY DEF Push
<1> DEFINE left == count - (o - oldest_index)
           full == left >= Capacity
<1>3. o \in Nat /\ o >= oldest_index /\ left \in Nat /\ o + left = write_index /\ left <= Capacity
  BY <1>1 DEF Window
<1>4. /\ write_index' = write_index + 1
      /\ oldest_index' \in Nat /\ oldest_index' >= o /\ oldest_index' \in {o, o + 1}
      /\ count' \in Nat /\ count' <= Capacity /\ oldest_index' + count' = write_index'
  BY <1>1, <1>2, <1>3
<1> HIDE DEF left, full
<1>5. \A c \in Consumers : consumers[c].active =>
          consumers[c].next_index >= o /\ consumers[c].next_index <= write_index
  BY <1>1, <1>2, ReclaimStops DEF Ring, TypeOK, WindowBounds, Window
<1>6. ASSUME NEW c \in Consumers
      PROVE  /\ consumers'[c] \in ConsumerType
             /\ consumers'[c].active => consumers'[c].next_index \in Window'
  <2>1. consumers[c] \in ConsumerType
    BY DEF Ring, TypeOK
  <2>2. consumers[c].next_index \in Nat /\ Increment(consumers[c].lost) \in 0 .. Modulus - 1
    BY <2>1, IncrementType, ConsumerFields
  <2>3. CASE ~full
    <3>1. consumers'[c] = consumers[c]
      BY <1>2, <2>3 DEF left, full
    <3>2. oldest_index' = o /\ oldest_index' + count' = write_index + 1
      BY <1>2, <1>4, <2>3 DEF left, full
    <3>3. consumers[c].active => consumers[c].next_index \in o .. write_index + 1
      BY <1>1, <1>3, <1>5, <2>2
    <3> QED
      BY <2>1, <3>1, <3>2, <3>3 DEF Window
  <2>4. CASE full
    <3>1. consumers'[c] = IF consumers[c].active /\ consumers[c].next_index = o
                          THEN [consumers[c] EXCEPT !.lost = Increment(@), !.next_index = o + 1]
                          ELSE consumers[c]
      <4>1. consumers' = DropOldest(o)
        BY <1>2, <2>4 DEF left, full
      <4> QED
        BY <4>1 DEF DropOldest
    <3>2. oldest_index' = o + 1 /\ oldest_index' + count' = write_index + 1
      BY <1>2, <1>3, <1>4, <2>4 DEF left, full
    <3>3. consumers'[c] \in ConsumerType
      <4>1. ASSUME NEW l \in 0 .. Modulus - 1, NEW n \in Nat
            PROVE  [consumers[c] EXCEPT !.lost = l, !.next_index = n] \in ConsumerType
        BY <2>1 DEF ConsumerType
      <4>2. o + 1 \in Nat
        BY <1>3
      <4> QED
        BY <2>1, <2>2, <3>1, <4>1, <4>2
    <3>4. CASE consumers[c].active /\ consumers[c].next_index = o
      <4>1. consumers'[c].next_index = o + 1
        BY <2>1, <3>1, <3>4 DEF ConsumerType
      <4>2. o + 1 \in o + 1 .. write_index + 1
        BY <1>1, <1>3
      <4> QED
        BY <3>2, <3>3, <4>1, <4>2 DEF Window
    <3>5. CASE ~(consumers[c].active /\ consumers[c].next_index = o)
      BY <1>1, <1>3, <1>4, <1>5, <2>2, <3>1, <3>2, <3>3, <3>5 DEF Window
    <3> QED
      BY <3>4, <3>5
  <2> QED
    BY <2>3, <2>4
<1>7. TypeOK'
  <2>1. slots' \in [Offsets -> [record : Records \cup {NoRecord}, abs_index : Nat]]
    BY <1>1, <1>2 DEF Ring, TypeOK, Records
  <2>2. consumers' \in [Consumers -> ConsumerType]
    <3>1. consumers' = [c \in Consumers |-> consumers'[c]]
      BY <1>2 DEF DropOldest, Ring, TypeOK
    <3> QED
      BY <1>6, <3>1
  <2> QED
    BY <1>1, <1>2, <1>4, <2>1, <2>2 DEF Ring, TypeOK
<1>8. WindowBounds'
  BY <1>4, <1>6 DEF WindowBounds
<1>9. RingHoldsWindow'
  <2>1. SUFFICES ASSUME NEW i \in Nat, i >= oldest_index', i <= write_index
                 PROVE  /\ slots'[i % Capacity].abs_index = i
                        /\ slots'[i % Capacity].record # NoRecord
    BY <1>1, <1>4 DEF RingHoldsWindow, slot_offset
  <2>2. i \in Nat /\ slot_offset(i) \in Offsets /\ slot_offset(write_index) \in Offsets
    BY <1>1, <1>4, OffsetType
  <2>3. CASE i = write_index
    <3>1. slots'[slot_offset(i)] = new
      BY <1>2, <2>2, <2>3 DEF Ring, TypeOK
    <3>2. record # NoRecord
      BY DeliveryAssumption DEF Ring, TypeOK
    <3> QED
      BY <2>3, <3>1, <3>2 DEF slot_offset
  <2>4. CASE i < write_index
    <3>1. slot_offset(i) # slot_offset(write_index)
      <4>1. \A first \in Nat, n \in Nat :
              (i >= first /\ first + n = write_index + 1 /\ n <= Capacity) => write_index - i < Capacity
        BY <1>1
      <4>2. write_index - i < Capacity
        BY <1>4, <2>1, <4>1
      <4> QED
        BY <1>1, <2>2, <2>4, <4>2, OffsetsApart
    <3>2. slots'[slot_offset(i)] = slots[slot_offset(i)]
      BY <1>2, <2>2, <3>1 DEF Ring, TypeOK
    <3>3. i \in oldest_index .. write_index - 1
      BY <1>1, <1>3, <1>4, <2>1, <2>2, <2>4
    <3> QED
      BY <3>2, <3>3 DEF Ring, RingHoldsWindow, slot_offset
  <2> QED
    BY <1>1, <2>1, <2>2, <2>3, <2>4
<1> QED
  BY <1>7, <1>8, <1>9 DEF Ring

LEMMA NextRing ==
    ASSUME Ring, [Next]_vars
    PROVE  Ring'
<1>1. CASE UNCHANGED vars
  <2>1. TypeOK' /\ WindowBounds' /\ RingHoldsWindow'
    BY <1>1 DEF Ring, vars, TypeOK, WindowBounds, Window, RingHoldsWindow, slot_offset
  <2> QED
    BY <2>1 DEF Ring
<1> QED
  BY <1>1, PushStep, ActivateStep, DeactivateStep, PeekStep, AckStep, GiveUpStep, RebootStep
  DEF Next

\* The invariant of the ring, from which the three properties follow
THEOREM RingSafe == Spec => []Ring
  BY InitRing, NextRing, PTL DEF Spec

\* Types: in particular delivered and lost stay in their modulus.
THEOREM DeliveryTypes == Spec => []TypeOK
<1>1. Ring => TypeOK
  BY DEF Ring
<1> QED
  BY <1>1, RingSafe, PTL

\* record_delivery.c keeps at most Capacity records, and no active consumer is ever
\* outside the window of the records it can still read.
THEOREM DeliveryBounds == Spec => []WindowBounds
<1>1. Ring => WindowBounds
  BY DEF Ring
<1> QED
  BY <1>1, RingSafe, PTL

\* The modulo indexing of record_delivery.c never overwrites a record that some
\* consumer may still read.
THEOREM NothingOverwritten == Spec => []RingHoldsWindow
<1>1. Ring => RingHoldsWindow
  BY DEF Ring
<1> QED
  BY <1>1, RingSafe, PTL
-----------------------------------------------------------------------------
(* The ring implements the queues.  Copy(sl, from, to) is the sequence of    *)
(* the records which the slots sl hold under the indices from .. to - 1.     *)

Entries == Records \cup {NoRecord}
SlotType == [Offsets -> [record : Entries, abs_index : Nat]]

Copy(sl, from, to) == [i \in 1 .. to - from |-> sl[slot_offset(from + i - 1)].record]

LEMMA CopyIsSeq ==
    ASSUME NEW sl \in SlotType, NEW from \in Nat, NEW to \in Nat, from <= to
    PROVE  /\ Copy(sl, from, to) \in Seq(Entries)
           /\ Len(Copy(sl, from, to)) = to - from
           /\ \A i \in 1 .. to - from : Copy(sl, from, to)[i] = sl[slot_offset(from + i - 1)].record
<1>1. ASSUME NEW i \in 1 .. to - from
      PROVE  sl[slot_offset(from + i - 1)].record \in Entries
  <2>1. from + i - 1 \in Nat
    BY SMT
  <2>2. sl[slot_offset(from + i - 1)] \in [record : Entries, abs_index : Nat]
    BY <2>1, OffsetType DEF SlotType
  <2> QED
    BY <2>2
<1>2. Copy(sl, from, to) \in [1 .. to - from -> Entries]
  BY <1>1 DEF Copy
<1>3. to - from \in Nat
  BY SMT
<1>4. Copy(sl, from, to) \in Seq(Entries) /\ Len(Copy(sl, from, to)) = to - from
  BY <1>2, <1>3
<1> QED
  BY <1>4 DEF Copy

LEMMA CopyTail ==
    ASSUME NEW sl \in SlotType, NEW from \in Nat, NEW to \in Nat, from < to
    PROVE  /\ Copy(sl, from, to) # <<>>
           /\ Tail(Copy(sl, from, to)) = Copy(sl, from + 1, to)
<1> DEFINE s == Copy(sl, from, to)
           t == Copy(sl, from + 1, to)
<1>1. /\ s \in Seq(Entries) /\ Len(s) = to - from
      /\ \A i \in 1 .. to - from : s[i] = sl[slot_offset(from + i - 1)].record
  BY CopyIsSeq
<1>2. from + 1 \in Nat /\ from + 1 <= to
  BY SMT
<1>3. /\ t \in Seq(Entries) /\ Len(t) = to - (from + 1)
      /\ \A i \in 1 .. to - (from + 1) : t[i] = sl[slot_offset(from + 1 + i - 1)].record
  BY <1>2, CopyIsSeq
<1> HIDE DEF s, t
<1>4. s # <<>>
  BY <1>1, EmptySeq
<1>5. /\ Tail(s) \in Seq(Entries) /\ Len(Tail(s)) = to - (from + 1)
      /\ \A i \in 1 .. to - (from + 1) : Tail(s)[i] = s[i + 1]
  BY <1>1, <1>4, HeadTailProperties
<1>6. ASSUME NEW i \in 1 .. to - (from + 1)
      PROVE  Tail(s)[i] = t[i]
  <2>1. i + 1 \in 1 .. to - from /\ from + (i + 1) - 1 = from + 1 + i - 1
    BY SMT
  <2> QED
    BY <1>1, <1>3, <1>5, <2>1
<1>7. Tail(s) = t
  BY <1>3, <1>5, <1>6, SeqEqual
<1> QED
  BY <1>4, <1>7 DEF s, t

\* The newest entries of a copied window are the window that starts later.
LEMMA CopyLast ==
    ASSUME NEW sl \in SlotType, NEW from \in Nat, NEW o \in Nat, NEW to \in Nat,
           from <= o, o <= to
    PROVE  Queues!LastOf(Copy(sl, from, to), to - o) = Copy(sl, o, to)
<1> DEFINE s == Copy(sl, from, to)
           t == Copy(sl, o, to)
           n == to - from
           m == to - o
<1>1. /\ s \in Seq(Entries) /\ Len(s) = n
      /\ \A i \in 1 .. n : s[i] = sl[slot_offset(from + i - 1)].record
  <2>1. from <= to
    BY SMT
  <2> QED
    BY <2>1, CopyIsSeq, Zenon
<1>2. /\ t \in Seq(Entries) /\ Len(t) = m
      /\ \A i \in 1 .. m : t[i] = sl[slot_offset(o + i - 1)].record
  BY CopyIsSeq
<1>3. n \in Nat /\ m \in 0 .. n /\ from + (n - m) = o
  BY SMT
<1> HIDE DEF s, t, n, m
<1> DEFINE u == SubSeq(s, n - m + 1, n)
<1>4. \A i \in n - m + 1 .. n : s[i] \in Entries
  BY <1>1, <1>3, ElementOfSeq
<1>5. /\ u \in Seq(Entries) /\ Len(u) = m
      /\ \A i \in 1 .. m : u[i] = s[n - m + 1 + i - 1]
  <2>1. /\ u \in Seq(Entries)
        /\ Len(u) = IF n - m + 1 <= n THEN n - (n - m + 1) + 1 ELSE 0
        /\ \A i \in 1 .. n - (n - m + 1) + 1 : u[i] = s[n - m + 1 + i - 1]
    <3>1. n - m + 1 \in Int /\ n \in Int
      BY <1>3
    <3> HIDE DEF u
    <3> QED
      BY <1>4, <3>1, SubSeqProperties DEF u
  <2>2. n - (n - m + 1) + 1 = m /\ (IF n - m + 1 <= n THEN n - (n - m + 1) + 1 ELSE 0) = m
    BY <1>3
  <2> HIDE DEF u
  <2> QED
    BY <2>1, <2>2, Zenon
<1> HIDE DEF u
<1>6. ASSUME NEW i \in 1 .. m
      PROVE  u[i] = t[i]
  <2>1. n - m + i \in 1 .. n /\ n - m + 1 + i - 1 = n - m + i
        /\ from + (n - m + i) - 1 = o + i - 1
    BY <1>3
  <2> QED
    BY <1>1, <1>2, <1>5, <2>1
<1>7. u = t
  BY <1>2, <1>5, <1>6, SeqEqual
<1>8. Queues!LastOf(s, m) = u
  BY <1>1 DEF u, Queues!LastOf
<1> QED
  BY <1>7, <1>8 DEF s, t, m

\* The slots sn are the slots sl with a record written under the index i.
Written(sl, sn, i, record) ==
    /\ sn[slot_offset(i)].record = record
    /\ \A k \in Offsets : k # slot_offset(i) => sn[k] = sl[k]

\* Writing the slot after a window appends to it, as long as the window leaves
\* a slot free.
LEMMA CopyAppend ==
    ASSUME NEW sl \in SlotType, NEW sn \in SlotType, NEW from \in Nat, NEW to \in Nat,
           from <= to, to - from < Capacity, NEW record \in Records,
           Written(sl, sn, to, record)
    PROVE  Copy(sn, from, to + 1) = Append(Copy(sl, from, to), record)
<1> DEFINE s == Copy(sl, from, to)
           t == Copy(sn, from, to + 1)
<1>3. /\ s \in Seq(Entries) /\ Len(s) = to - from
      /\ \A i \in 1 .. to - from : s[i] = sl[slot_offset(from + i - 1)].record
  BY CopyIsSeq
<1>4. to + 1 \in Nat /\ from <= to + 1 /\ record \in Entries
  BY DEF Entries
<1>5. /\ t \in Seq(Entries) /\ Len(t) = (to + 1) - from
      /\ \A i \in 1 .. (to + 1) - from : t[i] = sn[slot_offset(from + i - 1)].record
  BY <1>4, CopyIsSeq, Zenon
<1>6. ASSUME NEW i \in 1 .. to - from
      PROVE  t[i] = s[i]
  <2>1. from + i - 1 \in Nat /\ from + i - 1 < to /\ to - (from + i - 1) < Capacity
    BY DeliveryAssumption
  <2>2. slot_offset(from + i - 1) # slot_offset(to) /\ slot_offset(from + i - 1) \in Offsets
    BY <2>1, OffsetsApart, OffsetType
  <2>3. sn[slot_offset(from + i - 1)] = sl[slot_offset(from + i - 1)]
    BY <2>2 DEF Written
  <2>4. i \in 1 .. (to + 1) - from
    BY SMT
  <2> HIDE DEF s, t
  <2> QED
    BY <1>3, <1>5, <2>3, <2>4
<1>7. t[(to + 1) - from] = record
  <2>1. (to + 1) - from \in 1 .. (to + 1) - from /\ from + ((to + 1) - from) - 1 = to
    BY SMT
  <2>2. t[(to + 1) - from] = sn[slot_offset(to)].record
    <3> HIDE DEF t
    <3> QED
      BY <1>5, <2>1
  <2> QED
    BY <2>2 DEF Written
<1> HIDE DEF s, t
<1> DEFINE a == Append(s, record)
<1>8. /\ a \in Seq(Entries) /\ Len(a) = (to + 1) - from
      /\ \A i \in 1 .. to - from : a[i] = s[i]
      /\ a[(to + 1) - from] = record
  <2>1. Len(s) + 1 = (to + 1) - from
    BY <1>3
  <2> QED
    BY <1>3, <1>4, <2>1, AppendProperties
<1> HIDE DEF a
<1>9. \A i \in 1 .. (to + 1) - from : t[i] = a[i]
  <2>1. \A i \in 1 .. (to + 1) - from : i \in 1 .. to - from \/ i = (to + 1) - from
    BY SMT
  <2> QED
    BY <1>6, <1>7, <1>8, <2>1
<1>10. t = a
  BY <1>5, <1>8, <1>9, SeqEqual
<1> QED
  BY <1>10 DEF s, t, a

-----------------------------------------------------------------------------
LEMMA GreatestIsMax ==
    ASSUME NEW S, S \subseteq Int, NEW m \in S, \A x \in S : m >= x
    PROVE  Queues!Max(S) = m
<1>1. \A x \in S : (\A y \in S : x >= y) => x = m
  <2>1. SUFFICES ASSUME NEW x \in S, \A y \in S : x >= y
                 PROVE  x = m
    OBVIOUS
  <2>2. x >= m /\ m >= x /\ x \in Int /\ m \in Int
    BY <2>1
  <2> QED
    BY <2>2
<1> QED
  BY <1>1 DEF Queues!Max

\* Where the reclaiming loop stops, an active consumer is waiting, if there is one.
LEMMA ReclaimHolds ==
    ASSUME Ring, NEW cs \in [Consumers -> ConsumerType], NEW o \in Window, Reclaimed(cs, o),
           \A c \in Consumers : cs[c].active => cs[c].next_index \in Window,
           \E c \in Consumers : cs[c].active
    PROVE  Holds(cs, o)
<1>1. oldest_index \in Nat /\ count \in Nat
  BY DEF Ring, TypeOK
<1>2. CASE o = oldest_index + count
  <2>1. PICK c \in Consumers : cs[c].active
    OBVIOUS
  <2>2. cs[c].next_index \in Window /\ cs[c].next_index >= o
    BY <1>1, <2>1, ReclaimStops
  <2> QED
    BY <1>1, <1>2, <2>1, <2>2 DEF Holds, Window
<1> QED
  BY <1>2 DEF Reclaimed

\* Where the reclaiming loop stops is where the slowest active queue begins.
LEMMA ReclaimKeepsNeeded ==
    ASSUME Ring, NEW cs \in [Consumers -> ConsumerType], NEW o \in Window, Reclaimed(cs, o),
           \A c \in Consumers : cs[c].active => cs[c].next_index \in Window,
           NEW queues, NEW on,
           \A c \in Consumers : on[c] = cs[c].active,
           \A c \in Consumers : cs[c].active => Len(queues[c]) = write_index - cs[c].next_index
    PROVE  Queues!Needed(Kept(oldest_index, count), queues, on) = Copy(slots, o, write_index)
<1>1. /\ oldest_index \in Nat /\ count \in Nat /\ write_index \in Nat
      /\ oldest_index + count = write_index /\ slots \in SlotType
  BY DEF Ring, TypeOK, WindowBounds, SlotType, Entries
<1>2. Kept(oldest_index, count) = Copy(slots, oldest_index, write_index)
  <2>1. write_index - oldest_index = count
    BY <1>1
  <2> QED
    BY <2>1 DEF Kept, Copy
<1>3. o \in Nat /\ oldest_index <= o /\ o <= write_index
  BY <1>1 DEF Window
<1>4. CASE ~ \E c \in Consumers : cs[c].active
  <2>1. o = oldest_index
    BY <1>1, <1>4 DEF Reclaimed
  <2>2. ~ \E c \in Consumers : on[c]
    BY <1>4
  <2> QED
    BY <1>2, <2>1, <2>2 DEF Queues!Needed
<1>5. CASE \E c \in Consumers : cs[c].active
  <2> DEFINE lengths == {Len(queues[c]) : c \in {d \in Consumers : on[d]}}
             m == write_index - o
  <2>1. \A c \in Consumers : cs[c].active =>
           /\ cs[c].next_index \in Nat /\ cs[c].next_index >= o
           /\ cs[c].next_index <= write_index
    <3>1. \A c \in Consumers : cs[c].active => cs[c].next_index >= o
      BY <1>1, ReclaimStops
    <3> QED
      BY <1>1, <3>1, ConsumerFields DEF Window
  <2>2. lengths = {write_index - cs[c].next_index : c \in {d \in Consumers : cs[d].active}}
    BY SMT
  <2>3. \A x \in lengths : x \in Int /\ m >= x
    BY <1>1, <1>3, <2>1, <2>2
  <2>4. m \in lengths
    <3>1. PICK c \in Consumers : cs[c].active /\ cs[c].next_index = o
      BY <1>5, ReclaimHolds DEF Holds
    <3> QED
      BY <2>2, <3>1
  <2> HIDE DEF lengths
  <2>5. Queues!Max(lengths) = m
    BY <2>3, <2>4, GreatestIsMax
  <2>6. \E c \in Consumers : on[c]
    BY <1>5
  <2>7. Queues!Needed(Kept(oldest_index, count), queues, on)
          = Queues!LastOf(Kept(oldest_index, count), Queues!Max(lengths))
    BY <2>6 DEF Queues!Needed, lengths
  <2>8. Queues!LastOf(Copy(slots, oldest_index, write_index), m) = Copy(slots, o, write_index)
    BY <1>1, <1>3, CopyLast
  <2> QED
    BY <1>2, <2>5, <2>7, <2>8
<1> QED
  BY <1>4, <1>5

-----------------------------------------------------------------------------
(* The queues of the abstract specification, and the step each operation    *)
(* takes there                                                              *)

\* What the consumer state c still gets, with the slots sl filled up to w
Queue(sl, c, w) == IF c.active THEN Copy(sl, c.next_index, w) ELSE <<>>

KeptQ == Kept(oldest_index, count)
PendingQ == [c \in Consumers |->
               IF consumers[c].active
               THEN Kept(consumers[c].next_index, write_index - consumers[c].next_index)
               ELSE <<>>]
ActiveQ == [c \in Consumers |-> consumers[c].active]
DeliveredQ == [c \in Consumers |-> consumers[c].delivered]
LostQ == [c \in Consumers |-> consumers[c].lost]

\* Functions of the same domain with the same values, but for one, are equal.
LEMMA SameFunction ==
    ASSUME NEW S, NEW f, NEW g, f = [x \in S |-> f[x]], g = [x \in S |-> g[x]],
           \A x \in S : g[x] = f[x]
    PROVE  g = f
  OBVIOUS

LEMMA UpdatedFunction ==
    ASSUME NEW S, NEW f, NEW g, f = [x \in S |-> f[x]], g = [x \in S |-> g[x]],
           NEW c \in S, \A x \in S : x # c => g[x] = f[x]
    PROVE  g = [f EXCEPT ![c] = g[c]]
<1> DEFINE h == [f EXCEPT ![c] = g[c]]
<1>1. h = [x \in S |-> h[x]] /\ \A x \in S : g[x] = h[x]
  BY SMT
<1> HIDE DEF h
<1>2. g = h
  BY <1>1, SameFunction
<1> QED
  BY <1>2 DEF h

LEMMA MappingOfKept ==
    ASSUME Ring, Ring'
    PROVE  /\ KeptQ = Copy(slots, oldest_index, write_index)
           /\ KeptQ' = Copy(slots', oldest_index', write_index')
<1>1. write_index - oldest_index = count
  BY DEF Ring, TypeOK, WindowBounds
<1>2. write_index' - oldest_index' = count'
  <2>1. oldest_index' + count' = write_index'
    BY DEF Ring, WindowBounds
  <2>2. oldest_index' \in Nat /\ count' \in Nat
    BY DEF Ring, TypeOK
  <2> QED
    BY <2>1, <2>2
<1> QED
  BY <1>1, <1>2 DEF KeptQ, Kept, Copy

LEMMA MappingOfPending ==
    /\ PendingQ = [c \in Consumers |-> PendingQ[c]] /\ PendingQ' = [c \in Consumers |-> PendingQ'[c]]
    /\ \A c \in Consumers : /\ PendingQ[c] = Queue(slots, consumers[c], write_index)
                            /\ PendingQ'[c] = Queue(slots', consumers'[c], write_index')
<1>1. /\ PendingQ = [c \in Consumers |-> PendingQ[c]]
      /\ \A c \in Consumers : PendingQ[c] = Queue(slots, consumers[c], write_index)
  BY DEF PendingQ, Queue, Kept, Copy
<1>2. /\ PendingQ' = [c \in Consumers |-> PendingQ'[c]]
      /\ \A c \in Consumers : PendingQ'[c] = Queue(slots', consumers'[c], write_index')
  BY DEF PendingQ, Queue, Kept, Copy
<1> QED
  BY <1>1, <1>2

LEMMA MappingOfFields ==
    /\ ActiveQ = [c \in Consumers |-> ActiveQ[c]] /\ ActiveQ' = [c \in Consumers |-> ActiveQ'[c]]
    /\ DeliveredQ = [c \in Consumers |-> DeliveredQ[c]]
    /\ DeliveredQ' = [c \in Consumers |-> DeliveredQ'[c]]
    /\ LostQ = [c \in Consumers |-> LostQ[c]] /\ LostQ' = [c \in Consumers |-> LostQ'[c]]
    /\ \A c \in Consumers :
          /\ ActiveQ[c] = consumers[c].active /\ ActiveQ'[c] = consumers'[c].active
          /\ DeliveredQ[c] = consumers[c].delivered /\ DeliveredQ'[c] = consumers'[c].delivered
          /\ LostQ[c] = consumers[c].lost /\ LostQ'[c] = consumers'[c].lost
<1>1. /\ ActiveQ = [c \in Consumers |-> consumers[c].active]
      /\ ActiveQ' = [c \in Consumers |-> consumers'[c].active]
  BY DEF ActiveQ
<1>2. /\ DeliveredQ = [c \in Consumers |-> consumers[c].delivered]
      /\ DeliveredQ' = [c \in Consumers |-> consumers'[c].delivered]
  BY DEF DeliveredQ
<1>3. /\ LostQ = [c \in Consumers |-> consumers[c].lost]
      /\ LostQ' = [c \in Consumers |-> consumers'[c].lost]
  BY DEF LostQ
<1> QED
  BY <1>1, <1>2, <1>3

\* The queue of an active consumer
LEMMA ActiveQueue ==
    ASSUME Ring, NEW c \in Consumers, consumers[c].active
    PROVE  /\ consumers[c].next_index \in Nat /\ consumers[c].next_index <= write_index
           /\ PendingQ[c] = Copy(slots, consumers[c].next_index, write_index)
           /\ Len(PendingQ[c]) = write_index - consumers[c].next_index
<1>1. /\ consumers[c].next_index \in Nat /\ consumers[c].next_index <= write_index
      /\ write_index \in Nat /\ slots \in SlotType
  <2>1. consumers[c] \in ConsumerType /\ consumers[c].next_index \in Window
    BY DEF Ring, TypeOK, WindowBounds
  <2>2. oldest_index + count = write_index /\ write_index \in Nat /\ slots \in SlotType
    BY DEF Ring, TypeOK, WindowBounds, SlotType, Entries
  <2> QED
    BY <2>1, <2>2, ConsumerFields DEF Window
<1>2. PendingQ[c] = Copy(slots, consumers[c].next_index, write_index)
  BY MappingOfPending DEF Queue
<1>3. Len(Copy(slots, consumers[c].next_index, write_index)) = write_index - consumers[c].next_index
  BY <1>1, CopyIsSeq, Zenon
<1> QED
  BY <1>1, <1>2, <1>3

LEMMA ActiveQueueNext ==
    ASSUME Ring', NEW c \in Consumers, consumers'[c].active
    PROVE  /\ PendingQ'[c] = Copy(slots', consumers'[c].next_index, write_index')
           /\ Len(PendingQ'[c]) = write_index' - consumers'[c].next_index
<1>1. /\ consumers'[c].next_index \in Nat /\ consumers'[c].next_index <= write_index'
      /\ write_index' \in Nat /\ slots' \in SlotType
  <2>1. consumers'[c] \in ConsumerType /\ consumers'[c].next_index \in Window'
    BY DEF Ring, TypeOK, WindowBounds
  <2>2. oldest_index' + count' = write_index' /\ write_index' \in Nat /\ slots' \in SlotType
    BY DEF Ring, TypeOK, WindowBounds, SlotType, Entries
  <2> QED
    BY <2>1, <2>2, ConsumerFields DEF Window
<1>2. PendingQ'[c] = Copy(slots', consumers'[c].next_index, write_index')
  BY MappingOfPending DEF Queue
<1>3. Len(Copy(slots', consumers'[c].next_index, write_index'))
        = write_index' - consumers'[c].next_index
  BY <1>1, CopyIsSeq, Zenon
<1> QED
  BY <1>1, <1>2, <1>3

LEMMA InitQueues == Init => Queues!Init
<1> SUFFICES ASSUME Init PROVE Queues!Init
  OBVIOUS
<1>1. KeptQ = <<>>
  BY DEF Init, Kept, KeptQ
<1>2. \A c \in Consumers : /\ consumers[c].active = FALSE
                           /\ consumers[c].delivered = 0 /\ consumers[c].lost = 0
  BY DEF Init, Idle
<1>3. PendingQ = [c \in Consumers |-> <<>>]
  <2>1. \A c \in Consumers : PendingQ[c] = <<>>
    BY <1>2, MappingOfPending DEF Queue
  <2> QED
    BY <2>1, MappingOfPending
<1>4. ActiveQ = [c \in Consumers |-> FALSE]
  BY <1>2 DEF ActiveQ
<1>5. DeliveredQ = [c \in Consumers |-> 0] /\ LostQ = [c \in Consumers |-> 0]
  BY <1>2 DEF DeliveredQ, LostQ
<1> QED
  BY <1>1, <1>3, <1>4, <1>5 DEF Queues!Init, KeptQ, PendingQ, ActiveQ, DeliveredQ, LostQ

-----------------------------------------------------------------------------
\* The oldest record retained is one that the slowest active consumer still needs,
\* so that a reclaim without a confirmation frees nothing.
Tight == (\E c \in Consumers : consumers[c].active) => Holds(consumers, oldest_index)

\* What a reclaim leaves is what the abstract specification keeps.
LEMMA ReclaimIsNeeded ==
    ASSUME Ring, Ring', NEW o \in Window, Reclaimed(consumers', o), oldest_index' = o,
           UNCHANGED <<slots, write_index>>, NEW on,
           \A c \in Consumers : on[c] = consumers'[c].active,
           \A c \in Consumers : consumers'[c].active => consumers'[c].next_index \in Window
    PROVE  KeptQ' = Queues!Needed(KeptQ, PendingQ', on)
<1>1. consumers' \in [Consumers -> ConsumerType]
  BY DEF Ring, TypeOK
<1>2. \A c \in Consumers : consumers'[c].active
        => Len(PendingQ'[c]) = write_index - consumers'[c].next_index
  BY ActiveQueueNext
<1>3. Queues!Needed(Kept(oldest_index, count), PendingQ', on) = Copy(slots, o, write_index)
  BY <1>1, <1>2, ReclaimKeepsNeeded
<1>4. KeptQ' = Copy(slots, o, write_index)
  BY MappingOfKept
<1> QED
  BY <1>3, <1>4 DEF KeptQ

\* Confirming takes the head of the consumer's queue, and of no other.
LEMMA AckConfirms ==
    ASSUME Ring, NEW c \in Consumers, Ack(c)
    PROVE  Queues!Confirm(c) /\ Tight'
<1>1. PICK o \in Window :
        /\ HasPending(c)
        /\ consumers' = [consumers EXCEPT ![c].next_index = @ + 1,
                                          ![c].delivered = Increment(@)]
        /\ Reclaimed(consumers', o)
        /\ oldest_index' = o
        /\ UNCHANGED <<slots, write_index, boot_id>>
  BY DEF Ack
<1> DEFINE n == consumers[c].next_index
<1>2. /\ consumers \in [Consumers -> ConsumerType] /\ slots \in SlotType
      /\ oldest_index \in Nat /\ count \in Nat /\ write_index \in Nat
      /\ oldest_index + count = write_index
  BY DEF Ring, TypeOK, WindowBounds, SlotType, Entries
<1>3. consumers[c].active /\ n \in Nat /\ oldest_index <= n /\ n < write_index
  BY <1>1, <1>2, ConsumerFields DEF HasPending
<1>4. /\ consumers'[c].next_index = n + 1 /\ consumers'[c].active
      /\ consumers'[c].delivered = Increment(consumers[c].delivered)
      /\ consumers'[c].active = consumers[c].active
      /\ consumers'[c].lost = consumers[c].lost
  BY <1>1, <1>2, <1>3 DEF ConsumerType
<1>5. \A d \in Consumers : d # c => consumers'[d] = consumers[d]
  BY <1>1, <1>2
<1>6. Ring' /\ consumers' \in [Consumers -> ConsumerType]
  BY AckStep DEF Ring, TypeOK
<1>7. \A d \in Consumers : consumers'[d].active => consumers'[d].next_index \in Window
  <2>1. n + 1 \in Window
    BY <1>2, <1>3 DEF Window
  <2>2. \A d \in Consumers : consumers[d].active => consumers[d].next_index \in Window
    BY DEF Ring, WindowBounds
  <2> QED
    BY <1>4, <1>5, <2>1, <2>2
<1> HIDE DEF n
<1>8. PendingQ'[c] = Tail(PendingQ[c]) /\ PendingQ[c] # <<>>
  <2>1. PendingQ[c] = Copy(slots, n, write_index)
    BY <1>3, ActiveQueue DEF n
  <2>2. PendingQ'[c] = Copy(slots, n + 1, write_index)
    BY <1>1, <1>4, <1>6, ActiveQueueNext
  <2>3. /\ Copy(slots, n, write_index) # <<>>
        /\ Tail(Copy(slots, n, write_index)) = Copy(slots, n + 1, write_index)
    BY <1>2, <1>3, CopyTail
  <2> QED
    BY <2>1, <2>2, <2>3, Zenon
<1>9. PendingQ' = [PendingQ EXCEPT ![c] = Tail(PendingQ[c])]
  <2>1. \A d \in Consumers : d # c => PendingQ'[d] = PendingQ[d]
    <3>1. slots' = slots /\ write_index' = write_index
      BY <1>1
    <3> QED
      BY <1>5, <3>1, MappingOfPending
  <2>2. PendingQ' = [PendingQ EXCEPT ![c] = PendingQ'[c]]
    BY <2>1, MappingOfPending, UpdatedFunction
  <2> QED
    BY <1>8, <2>2
<1>10. ActiveQ' = ActiveQ /\ LostQ' = LostQ
  <2>1. \A d \in Consumers : ActiveQ'[d] = ActiveQ[d] /\ LostQ'[d] = LostQ[d]
    <3>1. \A d \in Consumers : consumers'[d].active = consumers[d].active
                               /\ consumers'[d].lost = consumers[d].lost
      BY <1>4, <1>5
    <3> QED
      BY <3>1, MappingOfFields
  <2> QED
    BY <2>1, MappingOfFields, SameFunction
<1>11. DeliveredQ' = [DeliveredQ EXCEPT ![c] = Increment(DeliveredQ[c])]
  <2>1. \A d \in Consumers : d # c => DeliveredQ'[d] = DeliveredQ[d]
    BY <1>5, MappingOfFields
  <2>2. DeliveredQ' = [DeliveredQ EXCEPT ![c] = DeliveredQ'[c]]
    BY <2>1, MappingOfFields, UpdatedFunction
  <2>3. DeliveredQ'[c] = Increment(DeliveredQ[c])
    BY <1>4, MappingOfFields
  <2> QED
    BY <2>2, <2>3
<1>12. KeptQ' = Queues!Needed(KeptQ, PendingQ', ActiveQ)
  <2>1. \A d \in Consumers : ActiveQ[d] = consumers'[d].active
    BY <1>10, MappingOfFields
  <2> QED
    BY <1>1, <1>6, <1>7, <2>1, ReclaimIsNeeded
<1>13. ActiveQ[c]
  BY <1>3, MappingOfFields
<1>14. Tight'
  BY <1>1, <1>6, <1>7, ReclaimHolds DEF Tight
<1> QED
  BY <1>8, <1>9, <1>10, <1>11, <1>12, <1>13, <1>14
  DEF Queues!Confirm, Queues!Increment, Increment, KeptQ, PendingQ, ActiveQ, DeliveredQ, LostQ

\* A consumer that is switched off gives up its queue and its hold on the ring.
LEMMA DeactivateReleases ==
    ASSUME Ring, Tight, NEW c \in Consumers, Deactivate(c)
    PROVE  [Queues!Deactivate(c)]_<<KeptQ, PendingQ, ActiveQ, DeliveredQ, LostQ>> /\ Tight'
<1>1. PICK o \in Window :
        /\ consumers' = [consumers EXCEPT ![c].active = FALSE]
        /\ Reclaimed(consumers', o)
        /\ oldest_index' = o
        /\ UNCHANGED <<slots, write_index, boot_id, cursor>>
  BY DEF Deactivate
<1>2. /\ consumers \in [Consumers -> ConsumerType]
      /\ oldest_index \in Nat /\ count \in Nat /\ write_index \in Nat
      /\ oldest_index + count = write_index
  BY DEF Ring, TypeOK, WindowBounds
<1>3. /\ consumers'[c].active = FALSE
      /\ consumers'[c].delivered = consumers[c].delivered
      /\ consumers'[c].lost = consumers[c].lost
  BY <1>1, <1>2 DEF ConsumerType
<1>4. \A d \in Consumers : d # c => consumers'[d] = consumers[d]
  BY <1>1, <1>2
<1>5. Ring' /\ consumers' \in [Consumers -> ConsumerType]
  BY DeactivateStep DEF Ring, TypeOK
<1>6. \A d \in Consumers : consumers'[d].active => consumers'[d].next_index \in Window
  BY <1>3, <1>4 DEF Ring, WindowBounds
<1>7. PendingQ' = [PendingQ EXCEPT ![c] = <<>>]
  <2>1. \A d \in Consumers : d # c => PendingQ'[d] = PendingQ[d]
    <3>1. slots' = slots /\ write_index' = write_index
      BY <1>1
    <3> QED
      BY <1>4, <3>1, MappingOfPending
  <2>2. PendingQ' = [PendingQ EXCEPT ![c] = PendingQ'[c]]
    BY <2>1, MappingOfPending, UpdatedFunction
  <2>3. PendingQ'[c] = <<>>
    BY <1>3, MappingOfPending DEF Queue
  <2> QED
    BY <2>2, <2>3
<1>8. LostQ' = LostQ /\ DeliveredQ' = DeliveredQ
  <2>1. \A d \in Consumers : DeliveredQ'[d] = DeliveredQ[d] /\ LostQ'[d] = LostQ[d]
    <3>1. \A d \in Consumers : consumers'[d].delivered = consumers[d].delivered
                               /\ consumers'[d].lost = consumers[d].lost
      BY <1>3, <1>4
    <3> QED
      BY <3>1, MappingOfFields
  <2> QED
    BY <2>1, MappingOfFields, SameFunction
<1>9. ActiveQ' = [ActiveQ EXCEPT ![c] = FALSE]
  <2>1. \A d \in Consumers : d # c => ActiveQ'[d] = ActiveQ[d]
    BY <1>4, MappingOfFields
  <2>2. ActiveQ' = [ActiveQ EXCEPT ![c] = ActiveQ'[c]]
    BY <2>1, MappingOfFields, UpdatedFunction
  <2>3. ActiveQ'[c] = FALSE
    BY <1>3, MappingOfFields
  <2> QED
    BY <2>2, <2>3
<1>10. KeptQ' = Queues!Needed(KeptQ, PendingQ', ActiveQ')
  <2>1. \A d \in Consumers : ActiveQ'[d] = consumers'[d].active
    BY MappingOfFields
  <2> QED
    BY <1>1, <1>5, <1>6, <2>1, ReclaimIsNeeded
<1>11. Tight'
  BY <1>1, <1>5, <1>6, ReclaimHolds DEF Tight
<1>12. CASE consumers[c].active
  <2>1. ActiveQ[c]
    BY <1>12, MappingOfFields
  <2> QED
    BY <1>7, <1>8, <1>9, <1>10, <1>11, <2>1
    DEF Queues!Deactivate, KeptQ, PendingQ, ActiveQ, DeliveredQ, LostQ
<1>13. CASE ~consumers[c].active
  <2>1. consumers' = consumers
    <3>1. consumers[c].active = FALSE
      BY <1>2, <1>13 DEF ConsumerType
    <3>2. consumers'[c] = consumers[c]
      BY <1>1, <1>2, <3>1 DEF ConsumerType
    <3>3. \A d \in Consumers : consumers'[d] = consumers[d]
      BY <1>4, <3>2
    <3> QED
      BY <1>2, <1>5, <3>3
  <2>2. o = oldest_index
    <3>1. o \in Nat /\ o >= oldest_index
      BY <1>2 DEF Window
    <3>2. CASE \E d \in Consumers : consumers[d].active
      <4>1. Holds(consumers, oldest_index)
        BY <3>2 DEF Tight
      <4>2. \A i \in oldest_index .. o - 1 : ~Holds(consumers, i)
        BY <1>1, <2>1, <3>2 DEF Reclaimed
      <4>3. o > oldest_index => oldest_index \in oldest_index .. o - 1
        BY <1>2, <3>1
      <4> QED
        BY <1>2, <3>1, <4>1, <4>2, <4>3
    <3>3. CASE ~ \E d \in Consumers : consumers[d].active
      BY <1>1, <2>1, <3>3 DEF Reclaimed
    <3> QED
      BY <3>2, <3>3
  <2>3. KeptQ' = KeptQ
    BY <1>1, <1>5, <2>2, MappingOfKept
  <2>4. \A d \in Consumers : PendingQ'[d] = PendingQ[d] /\ ActiveQ'[d] = ActiveQ[d]
    <3>1. slots' = slots /\ write_index' = write_index
      BY <1>1
    <3> QED
      BY <2>1, <3>1, MappingOfPending, MappingOfFields
  <2>5. PendingQ' = PendingQ
    BY <2>4, MappingOfPending, SameFunction
  <2>6. ActiveQ' = ActiveQ
    BY <2>4, MappingOfFields, SameFunction
  <2> QED
    BY <1>8, <1>11, <2>3, <2>5, <2>6
<1> QED
  BY <1>12, <1>13

\* A consumer that comes back gets everything retained; one that never left, nothing new.
LEMMA ActivateJoins ==
    ASSUME Ring, Tight, NEW c \in Consumers, Activate(c)
    PROVE  [Queues!Activate(c)]_<<KeptQ, PendingQ, ActiveQ, DeliveredQ, LostQ>> /\ Tight'
<1>1. /\ consumers \in [Consumers -> ConsumerType]
      /\ oldest_index \in Nat /\ count \in Nat /\ write_index \in Nat
      /\ oldest_index + count = write_index
  BY DEF Ring, TypeOK, WindowBounds
<1>2. /\ slots' = slots /\ write_index' = write_index
      /\ oldest_index' = oldest_index /\ count' = count
  BY DEF Activate
<1>3. Ring'
  BY ActivateStep
<1>4. KeptQ' = KeptQ
  BY <1>2, <1>3, MappingOfKept
<1>5. \A d \in Consumers : d # c => consumers'[d] = consumers[d]
  BY <1>1 DEF Activate
<1>6. /\ consumers'[c].delivered = consumers[c].delivered
      /\ consumers'[c].lost = consumers[c].lost
      /\ consumers'[c].active = TRUE
      /\ consumers'[c].next_index = IF consumers[c].active THEN consumers[c].next_index
                                                           ELSE oldest_index
  BY <1>1 DEF Activate, ConsumerType
<1>7. LostQ' = LostQ /\ DeliveredQ' = DeliveredQ
  <2>1. \A d \in Consumers : DeliveredQ'[d] = DeliveredQ[d] /\ LostQ'[d] = LostQ[d]
    <3>1. \A d \in Consumers : consumers'[d].delivered = consumers[d].delivered
                               /\ consumers'[d].lost = consumers[d].lost
      BY <1>5, <1>6
    <3> QED
      BY <3>1, MappingOfFields
  <2> QED
    BY <2>1, MappingOfFields, SameFunction
<1>8. CASE consumers[c].active
  <2>1. \A d \in Consumers : /\ consumers'[d].active = consumers[d].active
                             /\ consumers'[d].next_index = consumers[d].next_index
    <3>1. consumers[c].active = TRUE
      BY <1>1, <1>8 DEF ConsumerType
    <3> QED
      BY <1>5, <1>6, <1>8, <3>1
  <2>2. \A d \in Consumers : PendingQ'[d] = PendingQ[d] /\ ActiveQ'[d] = ActiveQ[d]
    BY <1>2, <2>1, MappingOfPending, MappingOfFields DEF Queue
  <2>3. PendingQ' = PendingQ
    BY <2>2, MappingOfPending, SameFunction
  <2>4. ActiveQ' = ActiveQ
    BY <2>2, MappingOfFields, SameFunction
  <2>5. Tight'
    BY <1>2, <1>8, <2>1 DEF Tight, Holds
  <2> QED
    BY <1>4, <1>7, <2>3, <2>4, <2>5
<1>9. CASE ~consumers[c].active
  <2>1. PendingQ'[c] = KeptQ
    <3>1. PendingQ'[c] = Copy(slots, oldest_index, write_index)
      BY <1>2, <1>3, <1>6, <1>9, ActiveQueueNext
    <3> QED
      BY <1>3, <3>1, MappingOfKept
  <2>2. PendingQ' = [PendingQ EXCEPT ![c] = KeptQ]
    <3>1. \A d \in Consumers : d # c => PendingQ'[d] = PendingQ[d]
      BY <1>2, <1>5, MappingOfPending
    <3>2. PendingQ' = [PendingQ EXCEPT ![c] = PendingQ'[c]]
      BY <3>1, MappingOfPending, UpdatedFunction
    <3> QED
      BY <2>1, <3>2
  <2>3. ActiveQ' = [ActiveQ EXCEPT ![c] = TRUE] /\ ~ActiveQ[c]
    <3>1. \A d \in Consumers : d # c => ActiveQ'[d] = ActiveQ[d]
      BY <1>5, MappingOfFields
    <3>2. ActiveQ' = [ActiveQ EXCEPT ![c] = ActiveQ'[c]]
      BY <3>1, MappingOfFields, UpdatedFunction
    <3>3. ActiveQ'[c] = TRUE /\ ~ActiveQ[c]
      BY <1>6, <1>9, MappingOfFields
    <3> QED
      BY <3>2, <3>3
  <2>4. Tight'
    BY <1>2, <1>6, <1>9 DEF Tight, Holds
  <2> QED
    BY <1>4, <1>7, <2>2, <2>3, <2>4 DEF Queues!Activate, KeptQ, PendingQ, ActiveQ, DeliveredQ, LostQ
<1> QED
  BY <1>8, <1>9

\* A reboot empties every queue.
LEMMA RebootRestarts ==
    ASSUME NEW b \in Boots, Reboot(b)
    PROVE  Queues!Restart /\ Tight'
<1>1. KeptQ' = <<>>
  BY DEF KeptQ, Kept, Reboot
<1>2. \A c \in Consumers : /\ consumers'[c].active = FALSE
                           /\ consumers'[c].delivered = 0 /\ consumers'[c].lost = 0
  BY DEF Reboot, Idle
<1>3. PendingQ' = [c \in Consumers |-> <<>>]
  <2>1. \A c \in Consumers : PendingQ'[c] = <<>>
    BY <1>2, MappingOfPending DEF Queue
  <2> QED
    BY <2>1, MappingOfPending
<1>4. /\ ActiveQ' = [c \in Consumers |-> FALSE]
      /\ DeliveredQ' = [c \in Consumers |-> 0] /\ LostQ' = [c \in Consumers |-> 0]
  <2>1. \A c \in Consumers : ActiveQ'[c] = FALSE /\ DeliveredQ'[c] = 0 /\ LostQ'[c] = 0
    BY <1>2, MappingOfFields
  <2> QED
    BY <2>1, MappingOfFields
<1>5. Tight'
  BY <1>2 DEF Tight
<1> QED
  BY <1>1, <1>3, <1>4, <1>5 DEF Queues!Restart, KeptQ, PendingQ, ActiveQ, DeliveredQ, LostQ

\* A push appends the record to every active queue; on overflow the queues that
\* had not confirmed the oldest record lose it.
LEMMA PushAppends ==
    ASSUME Ring, NEW source \in Sources, NEW sequence \in Sequences, Push(source, sequence)
    PROVE  (\E r \in Records : Queues!Push(r)) /\ Tight'
<1> DEFINE record == [boot |-> boot_id, source |-> source, sequence |-> sequence]
           new == [record |-> record, abs_index |-> write_index]
<1>1. /\ consumers \in [Consumers -> ConsumerType] /\ slots \in SlotType /\ record \in Records
      /\ oldest_index \in Nat /\ count \in Nat /\ write_index \in Nat
      /\ oldest_index + count = write_index /\ count <= Capacity
      /\ Capacity \in Nat \ {0}
  BY DeliveryAssumption DEF Ring, TypeOK, WindowBounds, SlotType, Entries, Records
<1>2. PICK o \in Window :
        LET left == count - (o - oldest_index)
            full == left >= Capacity
        IN
        /\ Reclaimed(consumers, o)
        /\ consumers' = IF full THEN DropOldest(o) ELSE consumers
        /\ oldest_index' = IF full THEN o + 1 ELSE o
        /\ slots' = [slots EXCEPT ![slot_offset(write_index)] = new]
        /\ write_index' = write_index + 1
  BY DEF Push
<1> DEFINE full == count - (o - oldest_index) >= Capacity
           k == Copy(slots, o, write_index)
           loses(c) == ActiveQ[c] /\ full /\ Len(PendingQ[c]) = Capacity
<1>3. /\ o \in Nat /\ o <= write_index /\ write_index - o <= Capacity
      /\ full <=> write_index - o = Capacity
  BY <1>1 DEF Window
<1>4. /\ slots' = [slots EXCEPT ![slot_offset(write_index)] = new]
      /\ write_index' = write_index + 1
      /\ full => consumers' = DropOldest(o) /\ oldest_index' = o + 1
      /\ ~full => consumers' = consumers /\ oldest_index' = o
      /\ Reclaimed(consumers, o)
  BY <1>2
<1>5. \A c \in Consumers : consumers[c].active => consumers[c].next_index \in Window
  BY DEF Ring, WindowBounds
<1>6. Ring'
  BY PushStep
<1>7. \A c \in Consumers : consumers[c].active =>
        /\ consumers[c].next_index \in Nat /\ consumers[c].next_index >= o
        /\ consumers[c].next_index <= write_index
        /\ PendingQ[c] = Copy(slots, consumers[c].next_index, write_index)
        /\ Len(PendingQ[c]) = write_index - consumers[c].next_index
  <2>1. \A c \in Consumers : consumers[c].active => consumers[c].next_index >= o
    BY <1>1, <1>4, <1>5, ReclaimStops
  <2> QED
    BY <2>1, ActiveQueue
<1> HIDE DEF full, new, record
<1>8. Queues!Needed(KeptQ, PendingQ, ActiveQ) = k
  <2>1. \A c \in Consumers : ActiveQ[c] = consumers[c].active
    BY MappingOfFields
  <2>2. \A c \in Consumers : consumers[c].active
          => Len(PendingQ[c]) = write_index - consumers[c].next_index
    BY <1>7
  <2> QED
    BY <1>1, <1>4, <1>5, <2>1, <2>2, ReclaimKeepsNeeded DEF KeptQ
<1>9. full <=> Len(k) = Capacity
  BY <1>1, <1>3, CopyIsSeq
\* The record is appended to every window that leaves a slot free.
<1>10. \A from \in Nat : from <= write_index /\ write_index - from < Capacity
         => Copy(slots', from, write_index + 1) = Append(Copy(slots, from, write_index), record)
  <2>1. slots' \in SlotType
    BY <1>6 DEF Ring, TypeOK, SlotType, Entries
  <2>2. slot_offset(write_index) \in Offsets
    BY <1>1, OffsetType
  <2>3. Written(slots, slots', write_index, record)
    BY <1>1, <1>4, <2>2 DEF new, SlotType, Written
  <2>4. SUFFICES ASSUME NEW from \in Nat, from <= write_index, write_index - from < Capacity
                 PROVE  Copy(slots', from, write_index + 1)
                          = Append(Copy(slots, from, write_index), record)
    OBVIOUS
  <2>5. slots \in SlotType /\ write_index \in Nat /\ record \in Records
    BY <1>1
  <2> QED
    BY <2>1, <2>3, <2>4, <2>5, CopyAppend, Zenon
<1>11. KeptQ' = Append(IF full THEN Tail(k) ELSE k, record)
  <2>1. KeptQ' = Copy(slots', oldest_index', write_index + 1)
    BY <1>4, <1>6, MappingOfKept
  <2>2. CASE full
    <3>1. /\ o + 1 \in Nat /\ o + 1 <= write_index /\ write_index - (o + 1) < Capacity
          /\ o < write_index /\ oldest_index' = o + 1
      BY <1>1, <1>3, <1>4, <2>2
    <3>2. Tail(k) = Copy(slots, o + 1, write_index)
      BY <1>1, <1>3, <3>1, CopyTail
    <3>3. Copy(slots', o + 1, write_index + 1) = Append(Copy(slots, o + 1, write_index), record)
      BY <1>10, <3>1
    <3> QED
      BY <2>1, <2>2, <3>1, <3>2, <3>3
  <2>3. CASE ~full
    <3>1. write_index - o < Capacity /\ oldest_index' = o
      BY <1>1, <1>3, <1>4, <2>3
    <3>2. Copy(slots', o, write_index + 1) = Append(k, record)
      BY <1>3, <1>10, <3>1
    <3> QED
      BY <2>1, <2>3, <3>1, <3>2
  <2> QED
    BY <2>2, <2>3
\* The queue and the loss count of each consumer
<1>12. ASSUME NEW c \in Consumers
       PROVE  /\ consumers'[c].active = consumers[c].active
              /\ consumers'[c].delivered = consumers[c].delivered
              /\ consumers'[c].lost = IF loses(c) THEN Increment(consumers[c].lost)
                                                  ELSE consumers[c].lost
              /\ PendingQ'[c] = IF ~ActiveQ[c] THEN <<>>
                                ELSE Append(IF loses(c) THEN Tail(PendingQ[c]) ELSE PendingQ[c], record)
  <2> DEFINE n == consumers[c].next_index
  <2>1. consumers[c] \in ConsumerType /\ ActiveQ[c] = consumers[c].active
    BY <1>1, MappingOfFields
  <2>2. loses(c) <=> consumers[c].active /\ full /\ n = o
    <3>1. CASE consumers[c].active /\ full
      <4>1. write_index - o = Capacity
        BY <1>3, <3>1
      <4>2. Len(PendingQ[c]) = write_index - n /\ n \in Nat
        BY <1>7, <3>1
      <4>3. write_index - n = Capacity <=> n = o
        BY <1>1, <1>3, <4>1, <4>2
      <4> QED
        BY <2>1, <3>1, <4>2, <4>3
    <3> QED
      BY <2>1, <3>1
  <2>3. consumers'[c] = IF loses(c)
                        THEN [consumers[c] EXCEPT !.lost = Increment(@), !.next_index = o + 1]
                        ELSE consumers[c]
    <3>1. CASE full
      <4>1. consumers'[c] = IF consumers[c].active /\ consumers[c].next_index = o
                            THEN [consumers[c] EXCEPT !.lost = Increment(@), !.next_index = o + 1]
                            ELSE consumers[c]
        BY <1>4, <3>1 DEF DropOldest
      <4> QED
        BY <2>2, <3>1, <4>1
    <3>2. CASE ~full
      BY <1>4, <2>2, <3>2
    <3> QED
      BY <3>1, <3>2
  <2> HIDE DEF n, loses
  <2>4. CASE loses(c)
    <3>1. consumers[c].active /\ full /\ n = o
      BY <2>2, <2>4
    <3>2. /\ consumers'[c].active = consumers[c].active
          /\ consumers'[c].delivered = consumers[c].delivered
          /\ consumers'[c].lost = Increment(consumers[c].lost)
          /\ consumers'[c].next_index = o + 1
      BY <2>1, <2>3, <2>4 DEF ConsumerType
    <3>3. /\ o + 1 \in Nat /\ o + 1 <= write_index /\ write_index - (o + 1) < Capacity
          /\ o < write_index
      BY <1>1, <1>3, <3>1
    <3>4. Tail(PendingQ[c]) = Copy(slots, o + 1, write_index)
      <4>1. PendingQ[c] = Copy(slots, o, write_index)
        BY <1>7, <3>1 DEF n
      <4> QED
        BY <1>1, <1>3, <3>3, <4>1, CopyTail
    <3>5. PendingQ'[c] = Copy(slots', o + 1, write_index + 1)
      BY <1>4, <1>6, <3>1, <3>2, ActiveQueueNext
    <3>6. PendingQ'[c] = Append(Tail(PendingQ[c]), record)
      BY <1>10, <3>3, <3>4, <3>5
    <3> QED
      BY <2>1, <2>4, <3>1, <3>2, <3>6
  <2>5. CASE ~loses(c) /\ consumers[c].active
    <3>1. consumers'[c] = consumers[c]
      BY <2>3, <2>5
    <3>2. n \in Nat /\ n >= o /\ n <= write_index /\ (full => n # o)
      BY <1>7, <2>2, <2>5 DEF n
    <3>3. write_index - n < Capacity
      BY <1>1, <1>3, <3>2
    <3>4. PendingQ[c] = Copy(slots, n, write_index)
      BY <1>7, <2>5 DEF n
    <3>5. PendingQ'[c] = Copy(slots', n, write_index + 1)
      BY <1>4, <1>6, <2>5, <3>1, ActiveQueueNext DEF n
    <3>6. PendingQ'[c] = Append(PendingQ[c], record)
      BY <1>10, <3>2, <3>3, <3>4, <3>5
    <3> QED
      BY <2>1, <2>5, <3>1, <3>6
  <2>6. CASE ~consumers[c].active
    <3>1. ~loses(c) /\ consumers'[c] = consumers[c]
      BY <2>2, <2>3, <2>6
    <3>2. PendingQ'[c] = <<>>
      BY <2>6, <3>1, MappingOfPending DEF Queue
    <3> QED
      BY <2>1, <2>6, <3>1, <3>2
  <2> QED
    BY <2>4, <2>5, <2>6
<1>13. \A c \in Consumers :
         loses(c) <=> ActiveQ[c] /\ Len(k) = Capacity /\ Len(PendingQ[c]) = Capacity
  BY <1>9
<1> HIDE DEF loses
<1>14. PendingQ' = [c \in Consumers |->
          IF ~ActiveQ[c] THEN <<>>
          ELSE Append(IF ActiveQ[c] /\ Len(k) = Capacity /\ Len(PendingQ[c]) = Capacity
                      THEN Tail(PendingQ[c]) ELSE PendingQ[c], record)]
  <2>1. \A c \in Consumers : PendingQ'[c] =
          IF ~ActiveQ[c] THEN <<>>
          ELSE Append(IF ActiveQ[c] /\ Len(k) = Capacity /\ Len(PendingQ[c]) = Capacity
                      THEN Tail(PendingQ[c]) ELSE PendingQ[c], record)
    <3> HIDE DEF k
    <3> QED
      BY <1>12, <1>13
  <2> HIDE DEF k
  <2> QED
    BY <2>1, MappingOfPending
<1>15. ActiveQ' = ActiveQ /\ DeliveredQ' = DeliveredQ
  <2>1. \A c \in Consumers : ActiveQ'[c] = ActiveQ[c] /\ DeliveredQ'[c] = DeliveredQ[c]
    BY <1>12, MappingOfFields
  <2> QED
    BY <2>1, MappingOfFields, SameFunction
<1>16. LostQ' = [c \in Consumers |->
          IF ActiveQ[c] /\ Len(k) = Capacity /\ Len(PendingQ[c]) = Capacity
          THEN Increment(LostQ[c]) ELSE LostQ[c]]
  <2> HIDE DEF k
  <2>1. \A c \in Consumers : LostQ'[c] =
          IF ActiveQ[c] /\ Len(k) = Capacity /\ Len(PendingQ[c]) = Capacity
          THEN Increment(LostQ[c]) ELSE LostQ[c]
    <3>1. \A c \in Consumers : LostQ'[c] = IF loses(c) THEN Increment(LostQ[c]) ELSE LostQ[c]
      BY <1>12, MappingOfFields
    <3> QED
      BY <1>13, <3>1
  <2> QED
    BY <2>1, MappingOfFields
<1>17. KeptQ' = Append(IF Len(k) = Capacity THEN Tail(k) ELSE k, record)
  BY <1>9, <1>11
<1>18. record \in Records
  BY <1>1 DEF record
<1>19. Queues!Push(record)
  <2> HIDE DEF k
  <2> QED
    BY <1>8, <1>14, <1>15, <1>16, <1>17
    DEF Queues!Push, Queues!Increment, Increment, KeptQ, PendingQ, ActiveQ, DeliveredQ, LostQ
<1>20. Tight'
  <2>1. ASSUME \E c \in Consumers : consumers'[c].active
        PROVE  Holds(consumers', oldest_index')
    <3>1. PICK c \in Consumers : consumers[c].active /\ consumers[c].next_index = o
      <4>1. \E c \in Consumers : consumers[c].active
        BY <1>12, <2>1
      <4> QED
        BY <1>1, <1>4, <1>5, <4>1, ReclaimHolds DEF Holds
    <3>2. CASE full
      <4>1. consumers'[c] = [consumers[c] EXCEPT !.lost = Increment(@), !.next_index = o + 1]
        BY <1>4, <3>1, <3>2 DEF DropOldest
      <4>2. consumers[c] \in ConsumerType
        BY <1>1
      <4>3. consumers'[c].active /\ consumers'[c].next_index = o + 1
        BY <3>1, <4>1, <4>2 DEF ConsumerType
      <4> QED
        BY <1>4, <3>2, <4>3 DEF Holds
    <3>3. CASE ~full
      BY <1>4, <3>1, <3>3 DEF Holds
    <3> QED
      BY <3>2, <3>3
  <2> QED
    BY <2>1 DEF Tight
<1> QED
  BY <1>18, <1>19, <1>20, Zenon DEF Queues!Push

\* What leaves the ring and the consumers alone is no step of the queues.
LEMMA QuietStep ==
    ASSUME UNCHANGED <<slots, consumers, write_index, oldest_index, count>>
    PROVE  /\ UNCHANGED <<KeptQ, PendingQ, ActiveQ, DeliveredQ, LostQ>>
           /\ Tight => Tight'
  BY DEF KeptQ, PendingQ, ActiveQ, DeliveredQ, LostQ, Kept, slot_offset, Tight, Holds

LEMMA StepOfQueues ==
    ASSUME Ring, Tight, [Next]_vars
    PROVE  [Queues!Next]_<<KeptQ, PendingQ, ActiveQ, DeliveredQ, LostQ>> /\ Tight'
<1>1. CASE UNCHANGED vars
  BY <1>1, QuietStep DEF vars
<1>2. ASSUME NEW source \in Sources, NEW sequence \in Sequences, Push(source, sequence)
      PROVE  Queues!Next /\ Tight'
  BY <1>2, PushAppends DEF Queues!Next
<1>3. ASSUME NEW c \in Consumers, Activate(c)
      PROVE  [Queues!Next]_<<KeptQ, PendingQ, ActiveQ, DeliveredQ, LostQ>> /\ Tight'
  BY <1>3, ActivateJoins DEF Queues!Next
<1>4. ASSUME NEW c \in Consumers, Deactivate(c)
      PROVE  [Queues!Next]_<<KeptQ, PendingQ, ActiveQ, DeliveredQ, LostQ>> /\ Tight'
  BY <1>4, DeactivateReleases DEF Queues!Next
<1>5. ASSUME NEW c \in Consumers, Ack(c)
      PROVE  Queues!Next /\ Tight'
  BY <1>5, AckConfirms DEF Queues!Next
<1>6. ASSUME NEW c \in Consumers, Peek(c) \/ GiveUp(c)
      PROVE  UNCHANGED <<KeptQ, PendingQ, ActiveQ, DeliveredQ, LostQ>> /\ Tight'
  BY <1>6, QuietStep DEF Peek, GiveUp
<1>7. ASSUME NEW b \in Boots, Reboot(b)
      PROVE  Queues!Next /\ Tight'
  BY <1>7, RebootRestarts DEF Queues!Next
<1> QED
  BY <1>1, <1>2, <1>3, <1>4, <1>5, <1>6, <1>7 DEF Next

LEMMA InitTight == Init => Tight
  BY IdleType DEF Init, Tight

\* record_delivery.c never reclaims past the slowest active consumer and never
\* keeps a record that every active consumer has confirmed.
THEOREM OldestIsNeeded == Spec => []Tight
<1>1. Ring /\ Tight /\ [Next]_vars => Tight'
  BY StepOfQueues
<1> QED
  BY <1>1, InitTight, RingSafe, PTL DEF Spec

\* record_delivery.h promises each consumer a queue of its own; the ring with its
\* shared slots, absolute indices and lazy reclaim implements those queues.
THEOREM RingImplementsQueues == Spec => DeliversQueues
<1>1. Ring /\ Tight /\ [Next]_vars => [Queues!Next]_(Queues!vars)
  BY StepOfQueues DEF Queues!vars, KeptQ, PendingQ, ActiveQ, DeliveredQ, LostQ
<1> QED
  BY <1>1, InitQueues, RingSafe, OldestIsNeeded, PTL DEF Spec, DeliversQueues, Queues!Spec
=============================================================================
