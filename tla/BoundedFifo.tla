----------------------------- MODULE BoundedFifo -----------------------------
(***************************************************************************)
(* What the pending buffer of one Event consumer promises, with the ring   *)
(* of main/bounded-queue.ts abstracted to the sequence of its contents,    *)
(* oldest first.  BoundedQueue.tla models the ring itself and is shown to  *)
(* implement this module.                                                  *)
(***************************************************************************)
EXTENDS OverflowPolicies

CONSTANT MaxValues   \* bound: how many values are ever pushed

-----------------------------------------------------------------------------
VARIABLES
  overflow,   \* the policy the queue was constructed with
  contents,   \* the pending values, oldest first
  pushed,     \* how many values were pushed; the values are 1, 2, 3, ...
  result      \* what the last call returned

fifoVars == <<overflow, contents, pushed, result>>

NoValue == 0   \* shift() of an empty queue returns undefined

Result(value, dropped, overflowed) ==
  [value |-> value, dropped |-> dropped, overflow |-> overflowed]

Init ==
  /\ overflow \in Policies
  /\ contents = <<>>
  /\ pushed = 0
  /\ result = Result(NoValue, 0, FALSE)

Push ==
  /\ pushed < MaxValues
  /\ pushed' = pushed + 1
  /\ contents' = PushedContents(contents, pushed + 1, overflow)
  /\ result' = Result(NoValue, IF Full(contents) THEN 1 ELSE 0,
                      PushOverflows(contents, overflow))
  /\ UNCHANGED overflow

Shift ==
  /\ contents' = IF contents = <<>> THEN <<>> ELSE Tail(contents)
  /\ result' = Result(IF contents = <<>> THEN NoValue ELSE Head(contents), 0, FALSE)
  /\ UNCHANGED <<overflow, pushed>>

Next == Push \/ Shift

Spec == Init /\ [][Next]_fifoVars
=============================================================================
