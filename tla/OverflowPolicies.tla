-------------------------- MODULE OverflowPolicies ---------------------------
(***************************************************************************)
(* push() of main/bounded-queue.ts on the sequence of pending values,      *)
(* oldest first.  Shared by BoundedFifo, which the ring of BoundedQueue    *)
(* implements, and by DeliveryWindow, whose Event buffer is such a queue.  *)
(***************************************************************************)
EXTENDS Integers, Sequences

CONSTANT Capacity   \* the number of pending values the buffer holds

ASSUME CapacityAssumption == Capacity \in Nat \ {0}

\* OverflowPolicy: what a push into a full buffer does.
Policies == {"error", "drop-oldest", "drop-newest"}

\* Mutant: one value too many is let in.
FullOneLate(q) == Len(q) = Capacity + 1

Full(q) == Len(q) = Capacity

\* The contents after a push of v.
PushedContents(q, v, policy) ==
  IF ~Full(q) THEN Append(q, v)
  ELSE IF policy = "drop-oldest" THEN Append(Tail(q), v)
  ELSE q

\* The values a push of v throws away; QueuePushResult.dropped is their number.
PushVictims(q, v, policy) ==
  IF ~Full(q) THEN {}
  ELSE IF policy = "drop-oldest" THEN {Head(q)}
  ELSE {v}

\* QueuePushResult.overflow: the consumer cannot go on.
PushOverflows(q, policy) == Full(q) /\ policy = "error"
=============================================================================
