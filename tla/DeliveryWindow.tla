--------------------------- MODULE DeliveryWindow ----------------------------
(***************************************************************************)
(* main/delivery-window.ts: the delivery window of one consumer.  It takes *)
(* the values of the source, keeps them in a buffer, hands out one batch   *)
(* at a time, each after the acknowledgement of the one before, and ends   *)
(* with a terminal that waits for the pending values or, when the session  *)
(* ends, overtakes them.                                                   *)
(*                                                                         *)
(* The window calls the diagnostics sink synchronously from inside accept  *)
(* and flush, and the sink may call the bridge again before it returns.    *)
(* `stack' holds the calls suspended in the sink, the innermost last: only *)
(* the last one can go on, and a new call starts either from the event     *)
(* loop, when nothing is suspended, or from the sink.                      *)
(***************************************************************************)
EXTENDS OverflowPolicies, FiniteSets

CONSTANTS
  Kinds,      \* which windows are created: a subset of {"state", "event"}
  SinkCalls,  \* the calls the diagnostics sink makes back into the window
  MaxValues,  \* bound: how many values the source emits
  MaxDepth    \* bound: how many calls may be suspended in the sink

Calls == {"accept", "ack", "end", "preempt", "close"}

ASSUME KindsAssumption == Kinds \subseteq {"state", "event"}
ASSUME SinkCallsAssumption == SinkCalls \subseteq Calls
ASSUME BoundsAssumption == MaxValues \in Nat /\ MaxDepth \in Nat

VARIABLES
  kind,             \* the buffer injected at construction
  overflow,         \* the policy of an Event buffer
  buffer,           \* the pending values, oldest first
  sequence,         \* the number of the last message after subscribed(0)
  inFlight,         \* the number of the batch awaiting its ack, or NoBatch
  pendingTerminal,  \* the terminal recorded but not handed out, or NoTerminal
  concluded,        \* a terminal was handed out
  closed,           \* close() was called
  stack,            \* the calls suspended in the diagnostics sink
  \* What follows is history, for the properties.
  emitted,          \* how many values the source emitted; they are 1, 2, ...
  accepted,         \* the values that were pushed into the buffer
  dropped,          \* the values the buffer threw away
  out,              \* the messages handed to the caller, in order
  acked             \* the batches the Renderer acknowledged

windowVars == <<kind, overflow, buffer, sequence, inFlight, pendingTerminal,
                concluded, closed, stack>>
vars == <<windowVars, emitted, accepted, dropped, out, acked>>

NoBatch == -1
NoTerminal == "none"
SourceTerminals == {"complete", "error"}
Terminals == SourceTerminals \cup {"overflow", "cancelled"}

Message(type, number, value) ==
  [type |-> type, sequence |-> number, value |-> value]

\* A call suspended in onDropped, in the onQueueDepth of accept, or in the
\* onQueueDepth of flush, where it holds the value it took from the buffer.
Frame(at, value, overflows) ==
  [at |-> at, value |-> value, overflows |-> overflows]

Top == stack[Len(stack)]
Rest == SubSeq(stack, 1, Len(stack) - 1)

MayCall(call) ==
  \/ stack = <<>>
  \/ call \in SinkCalls /\ Len(stack) < MaxDepth

Accepting == ~closed /\ ~concluded /\ pendingTerminal = NoTerminal

\* open() has returned subscribed(0).
Init ==
  /\ kind \in Kinds
  /\ overflow \in Policies
  /\ buffer = <<>>
  /\ sequence = 0
  /\ inFlight = NoBatch
  /\ pendingTerminal = NoTerminal
  /\ concluded = FALSE
  /\ closed = FALSE
  /\ stack = <<>>
  /\ emitted = 0
  /\ accepted = {}
  /\ dropped = {}
  /\ out = <<Message("subscribed", 0, 0)>>
  /\ acked = {}

-----------------------------------------------------------------------------
\* Mutant: a call that comes back from the sink misses a preemption.
EndedByClose == closed

\* What the code checks after every diagnostics callback.
Ended == closed \/ concluded

\* Mutant: the number is read before it is incremented.
SequenceBefore == sequence

\* ++sequence: the number of the next message.
NextSequence == sequence + 1

\* shift() on the pending values.
AfterShift(values) == Tail(values)

\* Mutant: the number of the batch is not remembered.
HandOutUngated(value) ==
  /\ sequence' = NextSequence
  /\ inFlight' = NoBatch
  /\ out' = Append(out, Message("batch", NextSequence, value))

\* The last lines of flush(): number the value, remember that it awaits its
\* ack, hand the batch out.
HandOutBatch(value) ==
  /\ sequence' = NextSequence
  /\ inFlight' = NextSequence
  /\ out' = Append(out, Message("batch", NextSequence, value))

\* flush() of a window that is neither concluded nor closed, with the buffer,
\* the gate and the recorded terminal its caller left; `below' are the calls
\* suspended underneath.
Flush(values, gate, terminal, below) ==
  /\ pendingTerminal' = terminal
  /\ \/ /\ gate # NoBatch \/ (values = <<>> /\ terminal = NoTerminal)
        /\ buffer' = values
        /\ inFlight' = gate
        /\ stack' = below
        /\ UNCHANGED <<sequence, concluded, out>>
     \/ /\ gate = NoBatch
        /\ values # <<>>
        /\ kind = "state"
        /\ buffer' = AfterShift(values)
        /\ HandOutBatch(Head(values))
        /\ stack' = below
        /\ UNCHANGED concluded
     \/ /\ gate = NoBatch
        /\ values # <<>>
        /\ kind = "event"
        /\ buffer' = AfterShift(values)
        /\ inFlight' = gate
        /\ stack' = Append(below, Frame("shifted", Head(values), FALSE))
        /\ UNCHANGED <<sequence, concluded, out>>
     \/ /\ gate = NoBatch
        /\ values = <<>>
        /\ terminal # NoTerminal
        /\ buffer' = values
        /\ inFlight' = gate
        /\ sequence' = NextSequence
        /\ concluded' = TRUE
        /\ out' = Append(out, Message(terminal, NextSequence, 0))
        /\ stack' = below

-----------------------------------------------------------------------------
\* push() of a State buffer.
StatePush(values, v) == <<v>>

\* accept() on a State buffer: the value replaces the one that was waiting.
AcceptState ==
  /\ kind = "state"
  /\ MayCall("accept")
  /\ emitted < MaxValues
  /\ Accepting
  /\ emitted' = emitted + 1
  /\ accepted' = accepted \cup {emitted + 1}
  /\ dropped' = IF buffer = <<>> THEN dropped ELSE dropped \cup {Head(buffer)}
  /\ Flush(StatePush(buffer, emitted + 1), inFlight, pendingTerminal, stack)
  /\ UNCHANGED <<kind, overflow, closed, acked>>

\* accept() on an Event buffer, up to its first diagnostics callback.
AcceptEvent ==
  /\ kind = "event"
  /\ MayCall("accept")
  /\ emitted < MaxValues
  /\ Accepting
  /\ emitted' = emitted + 1
  /\ accepted' = accepted \cup {emitted + 1}
  /\ dropped' = dropped \cup PushVictims(buffer, emitted + 1, overflow)
  /\ buffer' = PushedContents(buffer, emitted + 1, overflow)
  /\ stack' = Append(stack, Frame(IF Full(buffer) THEN "dropped" ELSE "pushed",
                                  0, PushOverflows(buffer, overflow)))
  /\ UNCHANGED <<kind, overflow, sequence, inFlight, pendingTerminal, concluded,
                 closed, out, acked>>

\* accept() on a window that takes no more values.
AcceptIgnored ==
  /\ MayCall("accept")
  /\ emitted < MaxValues
  /\ ~Accepting
  /\ emitted' = emitted + 1
  /\ UNCHANGED <<windowVars, accepted, dropped, out, acked>>

\* onDropped returns into accept(): next is the queue depth, unless the window
\* ended meanwhile.
ReturnDropped ==
  /\ stack # <<>>
  /\ Top.at = "dropped"
  /\ stack' = IF Ended THEN Rest
              ELSE Append(Rest, Frame("pushed", 0, Top.overflows))
  /\ UNCHANGED <<kind, overflow, buffer, sequence, inFlight, pendingTerminal,
                 concluded, closed, emitted, accepted, dropped, out, acked>>

\* onQueueDepth returns into accept(): record the overflow, then flush.
ReturnPushed ==
  /\ stack # <<>>
  /\ Top.at = "pushed"
  /\ IF Ended
     THEN /\ stack' = Rest
          /\ UNCHANGED <<buffer, sequence, inFlight, pendingTerminal, concluded, out>>
     ELSE Flush(buffer, inFlight,
                IF Top.overflows /\ pendingTerminal = NoTerminal
                THEN "overflow" ELSE pendingTerminal,
                Rest)
  /\ UNCHANGED <<kind, overflow, closed, emitted, accepted, dropped, acked>>

\* onQueueDepth returns into flush(): the value taken goes out, unless the
\* window ended meanwhile.
ReturnShifted ==
  /\ stack # <<>>
  /\ Top.at = "shifted"
  /\ stack' = Rest
  /\ IF Ended
     THEN UNCHANGED <<sequence, inFlight, out>>
     ELSE HandOutBatch(Top.value)
  /\ UNCHANGED <<kind, overflow, buffer, pendingTerminal, concluded, closed,
                 emitted, accepted, dropped, acked>>

BatchNumbers ==
  {out[i].sequence : i \in {j \in 1 .. Len(out) : out[j].type = "batch"}}

\* Mutant: the ack of an earlier batch opens the gate as well.
AckUpTo(s) == s <= inFlight

AckMatches(s) == s = inFlight

\* Mutant: the ack opens the gate and nothing is sent through it.
AckUnflushed(s) ==
  /\ MayCall("ack")
  /\ acked' = acked \cup ({s} \cap BatchNumbers)
  /\ inFlight' = IF ~Ended /\ AckMatches(s) THEN NoBatch ELSE inFlight
  /\ UNCHANGED <<kind, overflow, buffer, sequence, pendingTerminal, concluded,
                 closed, stack, emitted, accepted, dropped, out>>

\* ack(s), for a batch handed out or for a number never used.
Ack(s) ==
  /\ MayCall("ack")
  /\ acked' = acked \cup ({s} \cap BatchNumbers)
  /\ IF ~Ended /\ AckMatches(s)
     THEN Flush(buffer, NoBatch, pendingTerminal, stack)
     ELSE UNCHANGED <<buffer, sequence, inFlight, pendingTerminal, concluded,
                      stack, out>>
  /\ UNCHANGED <<kind, overflow, closed, emitted, accepted, dropped>>

\* Mutant: the end of the source discards the pending values.
EndDiscarding(terminal) ==
  /\ MayCall("end")
  /\ Accepting
  /\ Flush(<<>>, inFlight, terminal, stack)
  /\ UNCHANGED <<kind, overflow, closed, emitted, accepted, dropped, acked>>

\* end(terminal): the source completed or failed.
End(terminal) ==
  /\ MayCall("end")
  /\ Accepting
  /\ Flush(buffer, inFlight, terminal, stack)
  /\ UNCHANGED <<kind, overflow, closed, emitted, accepted, dropped, acked>>

\* preempt(error): the session ended and the Renderer is told.
Preempt ==
  /\ MayCall("preempt")
  /\ ~Ended
  /\ buffer' = <<>>
  /\ inFlight' = NoBatch
  /\ pendingTerminal' = NoTerminal
  /\ concluded' = TRUE
  /\ sequence' = NextSequence
  /\ out' = Append(out, Message("cancelled", NextSequence, 0))
  /\ UNCHANGED <<kind, overflow, closed, stack, emitted, accepted, dropped, acked>>

\* close(): the first call only.
Close ==
  /\ MayCall("close")
  /\ ~closed
  /\ closed' = TRUE
  /\ UNCHANGED <<kind, overflow, buffer, sequence, inFlight, pendingTerminal,
                 concluded, stack, emitted, accepted, dropped, out, acked>>

Return == ReturnDropped \/ ReturnPushed \/ ReturnShifted

Next ==
  \/ AcceptState
  \/ AcceptEvent
  \/ AcceptIgnored
  \/ Return
  \/ \E s \in 0 .. sequence + 1 : Ack(s)
  \/ \E terminal \in SourceTerminals : End(terminal)
  \/ Preempt
  \/ Close

Spec == Init /\ [][Next]_vars

\* The sink returns, and the Renderer acknowledges every batch it receives
\* (renderer/stream-multiplexer.ts, dispatch).
AckInFlight == inFlight # NoBatch /\ Ack(inFlight)

FairSpec == Spec /\ WF_vars(Return) /\ WF_vars(AckInFlight)

-----------------------------------------------------------------------------
TypeOK ==
  /\ kind \in Kinds
  /\ overflow \in Policies
  /\ buffer \in Seq(1 .. MaxValues)
  /\ Len(buffer) <= (IF kind = "state" THEN 1 ELSE Capacity)
  /\ sequence \in Nat
  /\ inFlight \in Nat \cup {NoBatch}
  /\ pendingTerminal \in Terminals \cup {NoTerminal}
  /\ concluded \in BOOLEAN
  /\ closed \in BOOLEAN
  /\ stack \in Seq([at : {"dropped", "pushed", "shifted"},
                    value : 0 .. MaxValues, overflows : BOOLEAN])
  /\ emitted \in 0 .. MaxValues
  /\ accepted \subseteq 1 .. MaxValues
  /\ dropped \subseteq 1 .. MaxValues
  /\ out \in Seq([type : Terminals \cup {"subscribed", "batch"},
                  sequence : Nat, value : 0 .. MaxValues])
  /\ acked \subseteq Nat

Delivered == {out[i].value : i \in {j \in 1 .. Len(out) : out[j].type = "batch"}}
Pending == {buffer[i] : i \in 1 .. Len(buffer)}
InSink == {stack[i].value : i \in {j \in 1 .. Len(stack) : stack[j].at = "shifted"}}
Preempted == out[Len(out)].type = "cancelled"

\* At most one batch is unacknowledged, and the next one waits for exactly that
\* ack, whatever the sink calls while the window is between taking a value and
\* handing it out (flush, lines 311-326).
OneUnackedBatch ==
  \A i, j \in 1 .. Len(out) :
    /\ out[i].type = "batch" /\ out[i].sequence \notin acked
    /\ out[j].type = "batch" /\ out[j].sequence \notin acked
    => i = j

\* Messages are numbered 0, 1, 2, ... in the order they are handed out, so the
\* Renderer, which discards a message whose number does not grow, loses none.
Gapless == \A i \in 1 .. Len(out) : out[i].sequence = i - 1

\* Nothing follows a terminal, in particular not a value that was suspended in
\* the sink when the window was preempted.
TerminalIsLast ==
  \A i \in 1 .. Len(out) : out[i].type \in Terminals => i = Len(out)

\* A value pushed into an Event buffer is delivered, still pending, or was
\* dropped by the overflow policy; completion, failure and overflow of the
\* source lose none.  Only a close or a preemption may discard values.
NothingVanishes ==
  kind = "event" /\ ~closed /\ ~Preempted
    => accepted = Delivered \cup Pending \cup InSink \cup dropped

\* A State consumer converges: until it is closed or preempted the newest value
\* the source emitted is delivered or about to be.
NewestKept ==
  kind = "state" /\ ~closed /\ ~Preempted
    => \A v \in accepted :
         (\A w \in accepted : w <= v) => v \in Delivered \cup Pending

\* No lost wake-up: every value pushed into a buffer that keeps going is delivered
\* or dropped, and a recorded terminal of the source follows, each as soon as the
\* ack before it has come, for no other event would send it.
EverythingGoesOut ==
  /\ \A v \in 1 .. MaxValues :
       v \in accepted ~> v \in Delivered \cup dropped \/ closed \/ Preempted
  /\ pendingTerminal # NoTerminal ~> concluded \/ closed

\* The window implements the promise made to the Renderer.
Promise == INSTANCE AckedStream
             WITH Values <- 1 .. MaxValues, log <- out, over <- concluded \/ closed
ImplementsAckedStream == Promise!Spec

\* No value is lost that the overflow policy did not give up, whatever the sink does
\* while it hears of it: every one of an Event, the newest of a State.
ValuesKept == NothingVanishes /\ NewestKept
=============================================================================
