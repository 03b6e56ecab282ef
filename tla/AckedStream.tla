----------------------------- MODULE AckedStream -----------------------------
(***************************************************************************)
(* What Main promises to the Renderer about the messages of one            *)
(* subscription (docs/design/06-stream-delivery.md, section 3): they start *)
(* with subscribed(0) and are numbered without gaps, values keep their     *)
(* order, a batch goes out only after every earlier batch was              *)
(* acknowledged, and nothing follows a terminal.                           *)
(* DeliveryWindow.tla is shown to implement this module.                   *)
(***************************************************************************)
EXTENDS Integers, Sequences

CONSTANT Values   \* what a batch may carry: positive numbers in source order

VARIABLES
  log,    \* the messages handed over, in order
  acked,  \* the sequence numbers of the batches acknowledged so far
  over    \* no further message will come

streamVars == <<log, acked, over>>

Terminals == {"complete", "error", "overflow", "cancelled"}

\* value is 0 in every message but a batch.
Message(type, sequence, value) ==
  [type |-> type, sequence |-> sequence, value |-> value]

Batches(msgs) ==
  {msgs[i].sequence : i \in {j \in 1 .. Len(msgs) : msgs[j].type = "batch"}}

Init ==
  /\ log = <<Message("subscribed", 0, 0)>>
  /\ acked = {}
  /\ over = FALSE

\* The Renderer acknowledges a batch it has been sent.
Acknowledge ==
  /\ \E s \in Batches(log) \ acked : acked' = acked \cup {s}
  /\ UNCHANGED <<log, over>>

\* The next value, younger than every one before it.  The acknowledgement that
\* opens the gate may be processed in the same step.
Deliver ==
  /\ ~over
  /\ \E value \in Values :
       /\ \A i \in 1 .. Len(log) : log[i].value < value
       /\ log' = Append(log, Message("batch", Len(log), value))
  /\ acked \subseteq acked'
  /\ acked' = Batches(log)
  /\ UNCHANGED over

\* The source has ended: the terminal waits for the batches before it.
Finish ==
  /\ ~over
  /\ \E type \in Terminals : log' = Append(log, Message(type, Len(log), 0))
  /\ acked \subseteq acked'
  /\ acked' = Batches(log)
  /\ over' = TRUE

\* The session has ended: the terminal overtakes whatever was pending.
Preempt ==
  /\ ~over
  /\ log' = Append(log, Message("cancelled", Len(log), 0))
  /\ over' = TRUE
  /\ UNCHANGED acked

\* The subscription is closed without a word.
Close ==
  /\ over' = TRUE
  /\ UNCHANGED <<log, acked>>

Next == Acknowledge \/ Deliver \/ Finish \/ Preempt \/ Close

Spec == Init /\ [][Next]_streamVars
=============================================================================
