---------------------------- MODULE BoundedQueue -----------------------------
(***************************************************************************)
(* main/bounded-queue.ts: the fixed-capacity ring behind the pending       *)
(* buffer of an Event consumer.  The ring is an array of Capacity slots    *)
(* with the index of the oldest value and a length; both indices wrap.     *)
(* Names start with `Queue' where DeliveryWindow, which owns the queue,    *)
(* has one like it.                                                        *)
(***************************************************************************)
EXTENDS OverflowPolicies

CONSTANT MaxPushed   \* bound: how many values are ever pushed

ASSUME QueueBoundAssumption == MaxPushed \in Nat

VARIABLES
  overflowPolicy,  \* the overflow policy given to the constructor
  items,           \* slot -> value; NoValue stands for undefined
  head,            \* the slot of the oldest value
  length,          \* how many values are held
  pushed,          \* how many values were pushed; the values are 1, 2, 3, ...
  result           \* what the last call returned

queueVars == <<overflowPolicy, items, head, length, pushed, result>>

Slots == 0 .. Capacity - 1
NoValue == 0

Result(value, dropped, overflowed) ==
  [value |-> value, dropped |-> dropped, overflow |-> overflowed]

QueueInit ==
  /\ overflowPolicy \in Policies
  /\ items = [s \in Slots |-> NoValue]
  /\ head = 0
  /\ length = 0
  /\ pushed = 0
  /\ result = Result(NoValue, 0, FALSE)

HasRoom == length < Capacity

\* Mutant: the slot is counted from 0, not from the oldest value.
TailSlotFromZero == length % Capacity

TailSlot == (head + length) % Capacity

\* Mutant: shift() leaves the value it returned in its slot.
HeadKept == items

HeadCleared == [items EXCEPT ![head] = NoValue]

\* push() with room left: the value goes behind the youngest one.
PushStored ==
  /\ HasRoom
  /\ items' = [items EXCEPT ![TailSlot] = pushed + 1]
  /\ length' = length + 1
  /\ result' = Result(NoValue, 0, FALSE)
  /\ UNCHANGED head

\* push() into a full ring: drop-oldest overwrites the head slot and moves the
\* head; the other policies refuse the value.
PushFull ==
  /\ ~HasRoom
  /\ IF overflowPolicy = "drop-oldest"
     THEN /\ items' = [items EXCEPT ![head] = pushed + 1]
          /\ head' = (head + 1) % Capacity
     ELSE UNCHANGED <<items, head>>
  /\ result' = Result(NoValue, 1, overflowPolicy = "error")
  /\ UNCHANGED length

Push ==
  /\ pushed < MaxPushed
  /\ pushed' = pushed + 1
  /\ PushStored \/ PushFull
  /\ UNCHANGED overflowPolicy

\* shift(): the oldest value, or undefined from an empty ring.
ShiftEmpty ==
  /\ length = 0
  /\ result' = Result(NoValue, 0, FALSE)
  /\ UNCHANGED <<overflowPolicy, items, head, length, pushed>>

ShiftOldest ==
  /\ length > 0
  /\ result' = Result(items[head], 0, FALSE)
  /\ items' = HeadCleared
  /\ head' = (head + 1) % Capacity
  /\ length' = length - 1
  /\ UNCHANGED <<overflowPolicy, pushed>>

QueueNext == Push \/ ShiftEmpty \/ ShiftOldest

QueueSpec == QueueInit /\ [][QueueNext]_queueVars

-----------------------------------------------------------------------------
\* The values the ring holds, oldest first.
Contents == [i \in 1 .. length |-> items[(head + i - 1) % Capacity]]

QueueTypeOK ==
  /\ overflowPolicy \in Policies
  /\ items \in [Slots -> 0 .. MaxPushed]
  /\ head \in Slots
  /\ length \in 0 .. Capacity
  /\ pushed \in 0 .. MaxPushed
  /\ result \in [value : 0 .. MaxPushed, dropped : 0 .. 1, overflow : BOOLEAN]

\* The slots outside the occupied arc hold nothing (shift() clears the slot it
\* empties), so the ring never keeps a reference to a value already delivered,
\* and the occupied ones hold a value.
NoRetention ==
  \A s \in Slots :
    (items[s] # NoValue) <=> ((s - head) % Capacity < length)

\* The ring behaves as the bounded FIFO the delivery window relies on: same
\* contents in the same order, same victim, same return values.
Fifo == INSTANCE BoundedFifo
          WITH MaxValues <- MaxPushed, overflow <- overflowPolicy, contents <- Contents
ImplementsFifo == Fifo!Spec

\* Through every wrap of both indices the ring holds its values where it counts them,
\* and nothing anywhere else.
IndicesAndSlots == QueueTypeOK /\ NoRetention
=============================================================================
