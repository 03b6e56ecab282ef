------------------------------ MODULE MCDelivery -------------------------------
(***************************************************************************)
(* The pending values of a consumer, for TLC: the delivery window, whose   *)
(* buffer is a sequence, and the ring that holds the values of an Event,   *)
(* which implements the sequence.  A behaviour is of one of them, and the  *)
(* other one rests in its initial state.                                   *)
(***************************************************************************)
EXTENDS DeliveryWindow, BoundedQueue

DeliveryInit == Init /\ QueueInit /\ overflowPolicy = overflow

DeliveryNext ==
  \/ QueueInit /\ Next /\ UNCHANGED queueVars
  \/ Init /\ QueueNext /\ UNCHANGED vars

\* The window's fairness; a ring is used when its window uses it.
DeliverySpec ==
  /\ DeliveryInit /\ [][DeliveryNext]_<<vars, queueVars>>
  /\ WF_vars(Return /\ UNCHANGED queueVars)
  /\ WF_vars(AckInFlight /\ UNCHANGED queueVars)
=============================================================================
