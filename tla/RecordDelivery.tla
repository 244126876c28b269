--------------------------- MODULE RecordDelivery ---------------------------
(***************************************************************************)
(* subsys/data/record_delivery.c: a ring of record copies with an absolute  *)
(* write index, an absolute oldest index and one absolute next index per    *)
(* consumer.  Every operation runs under record_delivery_lock and is one    *)
(* action.  A consumer's thread peeks, sends the record over its transport  *)
(* without the lock, and confirms it with the cursor it got from peek.      *)
(***************************************************************************)
EXTENDS Integers, FiniteSets

CONSTANTS
    Consumers,   \* the compiled descriptors: MQTT, BLE, USB
    Sources,     \* Modules that publish
    Sequences,   \* values of record.sequence, which is per source
    Boots,       \* boot identifiers
    Capacity,    \* CONFIG_SPAGHETTI_MAX_RECORD_QUEUE
    Modulus,     \* 2^32, where delivered and lost wrap
    NoRecord,    \* a zeroed record
    NoCursor,
    MaxPushes    \* bound of write_index, for model checking

ASSUME DeliveryAssumption ==
    /\ Capacity \in Nat \ {0}
    /\ Modulus \in Nat \ {0}
    /\ MaxPushes \in Nat
    /\ NoRecord \notin [boot : Boots, source : Sources, sequence : Sequences]

Records == [boot : Boots, source : Sources, sequence : Sequences]

\* The code keeps boot_id and sequence in a cursor.  The index is what the consumer
\* means by it: the record it has read; no operation looks at it.
Cursors == [boot : Boots, sequence : Sequences, index : Nat]

VARIABLES
    slots,          \* context.slots: record and abs_index
    consumers,      \* context.consumers: next_index, delivered, lost, active
    write_index,
    oldest_index,
    count,
    boot_id,
    cursor          \* the record each consumer's thread is sending, or NoCursor

vars == <<slots, consumers, write_index, oldest_index, count, boot_id, cursor>>

Offsets == 0 .. Capacity - 1
slot_offset(i) == i % Capacity

ConsumerType == [next_index : Nat, delivered : 0 .. Modulus - 1, lost : 0 .. Modulus - 1,
                 active : BOOLEAN]

TypeOK ==
    /\ slots \in [Offsets -> [record : Records \cup {NoRecord}, abs_index : Nat]]
    /\ consumers \in [Consumers -> ConsumerType]
    /\ write_index \in Nat
    /\ oldest_index \in Nat
    /\ count \in Nat
    /\ boot_id \in Boots
    /\ cursor \in [Consumers -> Cursors \cup {NoCursor}]

\* memset of the context and load_descriptors_locked
Zeroed == [i \in Offsets |-> [record |-> NoRecord, abs_index |-> 0]]
Idle == [next_index |-> 0, delivered |-> 0, lost |-> 0, active |-> FALSE]

Init ==
    /\ slots = Zeroed
    /\ consumers = [c \in Consumers |-> Idle]
    /\ write_index = 0 /\ oldest_index = 0 /\ count = 0
    /\ boot_id \in Boots
    /\ cursor = [c \in Consumers |-> NoCursor]

\* uint32_t counters
Increment(n) == (n + 1) % Modulus

\* active_consumer_holds_oldest_locked, were i the oldest index
Holds(cs, i) == \E c \in Consumers : cs[c].active /\ cs[c].next_index = i

\* reclaim_acked_locked: o is where its loop stops.  Without an active consumer
\* the ring keeps everything.
Reclaimed(cs, o) ==
    IF \E c \in Consumers : cs[c].active
    THEN /\ o = oldest_index + count \/ Holds(cs, o)
         /\ \A i \in oldest_index .. o - 1 : ~Holds(cs, i)
    ELSE o = oldest_index

Window == oldest_index .. oldest_index + count

\* drop_oldest_locked charges the loss to the active consumers that had not
\* confirmed the victim.
DropOldest(o) ==
    [c \in Consumers |->
        IF consumers[c].active /\ consumers[c].next_index = o
        THEN [consumers[c] EXCEPT !.lost = Increment(@), !.next_index = o + 1]
        ELSE consumers[c]]

\* The capacity test one record too late
PushOneTooMany(source, sequence) ==
    \E o \in Window :
        LET left == count - (o - oldest_index)
            full == left > Capacity
        IN
        /\ write_index < MaxPushes
        /\ Reclaimed(consumers, o)
        /\ consumers' = IF full THEN DropOldest(o) ELSE consumers
        /\ oldest_index' = IF full THEN o + 1 ELSE o
        /\ count' = IF full THEN left ELSE left + 1
        /\ slots' = [slots EXCEPT ![slot_offset(write_index)] =
                       [record |-> [boot |-> boot_id, source |-> source, sequence |-> sequence],
                        abs_index |-> write_index]]
        /\ write_index' = write_index + 1
        /\ UNCHANGED <<boot_id, cursor>>

\* spaghetti_record_delivery_push.  Runtime restarts the sequence of a source at
\* every start, so any sequence may follow any other.
Push(source, sequence) ==
    \E o \in Window :
        LET left == count - (o - oldest_index)
            full == left >= Capacity
        IN
        /\ write_index < MaxPushes
        /\ Reclaimed(consumers, o)
        /\ consumers' = IF full THEN DropOldest(o) ELSE consumers
        /\ oldest_index' = IF full THEN o + 1 ELSE o
        /\ count' = IF full THEN left ELSE left + 1
        /\ slots' = [slots EXCEPT ![slot_offset(write_index)] =
                       [record |-> [boot |-> boot_id, source |-> source, sequence |-> sequence],
                        abs_index |-> write_index]]
        /\ write_index' = write_index + 1
        /\ UNCHANGED <<boot_id, cursor>>

\* A consumer that comes back where it was
ActivateWhereItWas(c) ==
    /\ consumers' = [consumers EXCEPT ![c].active = TRUE]
    /\ UNCHANGED <<slots, write_index, oldest_index, count, boot_id, cursor>>

\* spaghetti_record_delivery_set_consumer_active(c, true)
Activate(c) ==
    /\ consumers' = [consumers EXCEPT ![c].active = TRUE,
                                      ![c].next_index = IF consumers[c].active THEN @ ELSE oldest_index]
    /\ UNCHANGED <<slots, write_index, oldest_index, count, boot_id, cursor>>

\* spaghetti_record_delivery_set_consumer_active(c, false): the hold is released.
Deactivate(c) ==
    \E o \in Window :
        /\ consumers' = [consumers EXCEPT ![c].active = FALSE]
        /\ Reclaimed(consumers', o)
        /\ oldest_index' = o
        /\ count' = count - (o - oldest_index)
        /\ UNCHANGED <<slots, write_index, boot_id, cursor>>

\* The checks peek and ack share
HasPending(c) ==
    /\ consumers[c].active
    /\ count # 0
    /\ consumers[c].next_index < write_index
    /\ consumers[c].next_index >= oldest_index

PendingRecord(c) == slots[slot_offset(consumers[c].next_index)].record

\* spaghetti_record_delivery_peek; the record goes to the transport.
Peek(c) ==
    /\ cursor[c] = NoCursor
    /\ HasPending(c)
    /\ cursor' = [cursor EXCEPT ![c] = [boot |-> PendingRecord(c).boot,
                                        sequence |-> PendingRecord(c).sequence,
                                        index |-> consumers[c].next_index]]
    /\ UNCHANGED <<slots, consumers, write_index, oldest_index, count, boot_id>>

Matches(c) ==
    /\ cursor[c].boot = PendingRecord(c).boot
    /\ cursor[c].sequence = PendingRecord(c).sequence

\* spaghetti_record_delivery_ack
Ack(c) ==
    \E o \in Window :
        /\ cursor[c] # NoCursor
        /\ HasPending(c)
        /\ Matches(c)
        /\ consumers' = [consumers EXCEPT ![c].next_index = @ + 1,
                                          ![c].delivered = Increment(@)]
        /\ Reclaimed(consumers', o)
        /\ oldest_index' = o
        /\ count' = count - (o - oldest_index)
        /\ cursor' = [cursor EXCEPT ![c] = NoCursor]
        /\ UNCHANGED <<slots, write_index, boot_id>>

\* The transport failed, or ack answers -EACCES, -ENOENT or -ESTALE.
GiveUp(c) ==
    /\ cursor[c] # NoCursor
    /\ cursor' = [cursor EXCEPT ![c] = NoCursor]
    /\ UNCHANGED <<slots, consumers, write_index, oldest_index, count, boot_id>>

\* A reboot: spaghetti_record_delivery_init with a new epoch, and new threads.
Reboot(b) ==
    /\ b # boot_id
    /\ boot_id' = b
    /\ slots' = Zeroed
    /\ consumers' = [c \in Consumers |-> Idle]
    /\ write_index' = 0 /\ oldest_index' = 0 /\ count' = 0
    /\ cursor' = [c \in Consumers |-> NoCursor]

Next ==
    \/ \E source \in Sources, sequence \in Sequences : Push(source, sequence)
    \/ \E c \in Consumers : Activate(c) \/ Deactivate(c) \/ Peek(c) \/ Ack(c) \/ GiveUp(c)
    \/ \E b \in Boots : Reboot(b)

Spec == Init /\ [][Next]_vars

-----------------------------------------------------------------------------
(* Properties *)

\* The indices stay consistent through every order of pushes, confirmations and
\* (de)activations: the ring never holds more than its capacity and no active
\* consumer is ever left behind the oldest record, where it could neither read
\* nor lose anything any more.
WindowBounds ==
    /\ oldest_index + count = write_index
    /\ count <= Capacity
    /\ \A c \in Consumers :
          consumers[c].active => consumers[c].next_index \in Window

\* A retained record is never overwritten: the slot of every index of the window
\* still holds the record that was pushed under it.
RingHoldsWindow ==
    \A i \in oldest_index .. write_index - 1 :
        /\ slots[slot_offset(i)].abs_index = i
        /\ slots[slot_offset(i)].record # NoRecord

Kept(from, n) == [i \in 1 .. n |-> slots[slot_offset(from + i - 1)].record]

Queues == INSTANCE RecordQueues WITH
    Records <- Records,
    kept <- Kept(oldest_index, count),
    pending <- [c \in Consumers |->
                  IF consumers[c].active
                  THEN Kept(consumers[c].next_index, write_index - consumers[c].next_index)
                  ELSE <<>>],
    active <- [c \in Consumers |-> consumers[c].active],
    delivered <- [c \in Consumers |-> consumers[c].delivered],
    lost <- [c \in Consumers |-> consumers[c].lost]

\* To its consumers the ring is a queue each: they get every record in order, lose
\* only the oldest one and only on overflow, and never feel each other's
\* confirmations.
DeliversQueues == Queues!Spec

\* record_delivery.h: a cursor identifies one pending record.  A confirmation
\* therefore never passes over a record other than the one that was peeked.
AckConfirmsPeeked ==
    [][\A c \in Consumers : Ack(c) => cursor[c].index = consumers[c].next_index]_vars
=============================================================================
