------------------------ MODULE DeliveryWindow_proofs ------------------------
(***************************************************************************)
(* Theorems about DeliveryWindow.tla, for every capacity, every number of  *)
(* values and every depth of re-entrant calls, and about BoundedQueue.tla, *)
(* the ring an Event buffer is kept in: for every capacity, every policy   *)
(* and every number of values, where the ring holds its values, and that   *)
(* it is the bounded FIFO of BoundedFifo.tla.                              *)
(***************************************************************************)
EXTENDS DeliveryWindow, BoundedQueue, SequenceLemmas

FrameSet == [at : {"dropped", "pushed", "shifted"}, value : 0 .. MaxValues,
             overflows : BOOLEAN]
MessageSet == [type : Terminals \cup {"subscribed", "batch"}, sequence : Nat,
               value : 0 .. MaxValues]
BufferLimit == IF kind = "state" THEN 1 ELSE Capacity

\* These only name an expression of the code.
USE DEF NextSequence, Ended, AfterShift, StatePush, AckMatches

-----------------------------------------------------------------------------
\* A push keeps the buffer within its capacity.
LEMMA PushedType ==
  ASSUME NEW q \in Seq(1 .. MaxValues), Len(q) <= Capacity,
         NEW v \in 1 .. MaxValues, NEW policy
  PROVE  /\ PushedContents(q, v, policy) \in Seq(1 .. MaxValues)
         /\ Len(PushedContents(q, v, policy)) <= Capacity
         /\ PushVictims(q, v, policy) \subseteq 1 .. MaxValues
         /\ PushOverflows(q, policy) \in BOOLEAN
<1>1. Capacity \in Nat \ {0}
  BY CapacityAssumption
<1>2. CASE ~Full(q)
  BY <1>1, <1>2, Appended DEF PushedContents, PushVictims, PushOverflows, Full
<1>3. CASE Full(q)
  <2>1. q # <<>>
    BY <1>1, <1>3 DEF Full
  <2>2. /\ Tail(q) \in Seq(1 .. MaxValues) /\ Len(Tail(q)) = Len(q) - 1
        /\ Head(q) \in 1 .. MaxValues
    BY <2>1, QueueParts
  <2>3. /\ Append(Tail(q), v) \in Seq(1 .. MaxValues)
        /\ Len(Append(Tail(q), v)) = Len(q)
    BY <2>2, Appended
  <2> QED
    BY <1>1, <1>3, <2>2, <2>3 DEF PushedContents, PushVictims, PushOverflows, Full
<1> QED
  BY <1>2, <1>3

-----------------------------------------------------------------------------
\* HandOutBatch and flush() keep the types of what they touch.
LEMMA HandOutType ==
  ASSUME TypeOK, NEW value \in 0 .. MaxValues, HandOutBatch(value)
  PROVE  /\ sequence' \in Nat
         /\ inFlight' \in Nat \cup {NoBatch}
         /\ out' \in Seq(MessageSet)
<1>1. Message("batch", sequence + 1, value) \in MessageSet
  BY DEF TypeOK, Message, MessageSet
<1>2. out \in Seq(MessageSet)
  BY DEF TypeOK, MessageSet
<1> QED
  BY <1>1, <1>2, Appended DEF HandOutBatch, TypeOK

LEMMA FlushType ==
  ASSUME TypeOK,
         NEW values \in Seq(1 .. MaxValues), Len(values) <= BufferLimit,
         NEW gate \in Nat \cup {NoBatch},
         NEW terminal \in Terminals \cup {NoTerminal},
         NEW below \in Seq(FrameSet),
         Flush(values, gate, terminal, below)
  PROVE  /\ buffer' \in Seq(1 .. MaxValues) /\ Len(buffer') <= BufferLimit
         /\ sequence' \in Nat
         /\ inFlight' \in Nat \cup {NoBatch}
         /\ pendingTerminal' \in Terminals \cup {NoTerminal}
         /\ concluded' \in BOOLEAN
         /\ stack' \in Seq(FrameSet)
         /\ out' \in Seq(MessageSet)
<1>1. /\ sequence \in Nat /\ concluded \in BOOLEAN
      /\ out \in Seq(MessageSet)
      /\ pendingTerminal' = terminal
      /\ MaxValues \in Nat
  BY BoundsAssumption DEF TypeOK, MessageSet, Flush
<1>2. CASE UNCHANGED <<sequence, concluded, out>> /\ buffer' = values
           /\ inFlight' = gate /\ stack' = below
  BY <1>1, <1>2
<1>3. ASSUME values # <<>>
      PROVE  /\ Head(values) \in 1 .. MaxValues
             /\ Tail(values) \in Seq(1 .. MaxValues)
             /\ Len(Tail(values)) <= BufferLimit
  <2>1. Len(Tail(values)) = Len(values) - 1 /\ Len(values) \in Nat
    BY <1>3, QueueParts
  <2>2. BufferLimit \in Nat
    BY CapacityAssumption DEF BufferLimit
  <2>3. Head(values) \in 1 .. MaxValues /\ Tail(values) \in Seq(1 .. MaxValues)
    BY <1>3, QueueParts
  <2>4. Len(Tail(values)) <= BufferLimit
    BY <2>1, <2>2
  <2> QED
    BY <2>3, <2>4
<1>4. CASE /\ values # <<>> /\ buffer' = Tail(values) /\ stack' = below
           /\ HandOutBatch(Head(values)) /\ UNCHANGED concluded
  <2>1. Head(values) \in 0 .. MaxValues
    BY <1>1, <1>3, <1>4
  <2> QED
    BY <1>1, <1>3, <1>4, <2>1, HandOutType
<1>5. CASE /\ values # <<>> /\ buffer' = Tail(values) /\ inFlight' = gate
           /\ stack' = Append(below, Frame("shifted", Head(values), FALSE))
           /\ UNCHANGED <<sequence, concluded, out>>
  <2>1. Frame("shifted", Head(values), FALSE) \in FrameSet
    BY <1>1, <1>3, <1>5 DEF Frame, FrameSet
  <2> QED
    BY <1>1, <1>3, <1>5, <2>1, Appended
<1>6. CASE /\ terminal # NoTerminal /\ buffer' = values /\ inFlight' = gate
           /\ sequence' = sequence + 1 /\ concluded' = TRUE /\ stack' = below
           /\ out' = Append(out, Message(terminal, sequence + 1, 0))
  <2>1. Message(terminal, sequence + 1, 0) \in MessageSet
    BY <1>1, <1>6 DEF Message, MessageSet
  <2> QED
    BY <1>1, <1>6, <2>1, Appended
<1> QED
  BY <1>2, <1>4, <1>5, <1>6 DEF Flush

-----------------------------------------------------------------------------
\* Type correctness: whatever the sink calls back, no window holds more than its
\* capacity and every field keeps its type.
THEOREM TypeCorrect == Spec => []TypeOK
<1>1. Init => TypeOK
  <2> SUFFICES ASSUME Init PROVE TypeOK
    OBVIOUS
  <2>1. Message("subscribed", 0, 0) \in MessageSet
    BY BoundsAssumption DEF Message, MessageSet
  <2>2. out \in Seq(MessageSet)
    BY <2>1 DEF Init
  <2>3. Len(buffer) <= BufferLimit
    BY CapacityAssumption DEF Init, BufferLimit
  <2>4. /\ buffer \in Seq(1 .. MaxValues)
        /\ stack \in Seq(FrameSet)
        /\ emitted \in 0 .. MaxValues
        /\ sequence \in Nat
        /\ acked \subseteq Nat
    BY BoundsAssumption DEF Init
  <2> QED
    BY <2>2, <2>3, <2>4
    DEF Init, TypeOK, MessageSet, FrameSet, BufferLimit
<1>2. TypeOK /\ [Next]_vars => TypeOK'
  <2> SUFFICES ASSUME TypeOK, [Next]_vars PROVE TypeOK'
    OBVIOUS
  <2>0. /\ MaxValues \in Nat
        /\ buffer \in Seq(1 .. MaxValues) /\ Len(buffer) <= BufferLimit
        /\ inFlight \in Nat \cup {NoBatch}
        /\ pendingTerminal \in Terminals \cup {NoTerminal}
        /\ stack \in Seq(FrameSet) /\ out \in Seq(MessageSet)
        /\ sequence \in Nat /\ emitted \in 0 .. MaxValues
    BY BoundsAssumption DEF TypeOK, BufferLimit, FrameSet, MessageSet
  <2>p. ASSUME stack # <<>>
        PROVE  Top \in FrameSet /\ Rest \in Seq(FrameSet)
    BY <2>0, <2>p, StackParts DEF Top, Rest
  <2>1. CASE AcceptState
    <3>1. /\ <<emitted + 1>> \in Seq(1 .. MaxValues)
          /\ Len(<<emitted + 1>>) <= BufferLimit
      BY <2>0, <2>1 DEF AcceptState, BufferLimit
    <3>2. Flush(<<emitted + 1>>, inFlight, pendingTerminal, stack)
      BY <2>1 DEF AcceptState
    <3>3. dropped' \subseteq 1 .. MaxValues
      <4>1. CASE buffer = <<>>
        BY <2>1, <4>1 DEF AcceptState, TypeOK
      <4>2. CASE buffer # <<>>
        <5>1. Head(buffer) \in 1 .. MaxValues
          BY <2>0, <4>2, QueueParts
        <5>2. dropped' = dropped \cup {Head(buffer)} /\ dropped \subseteq 1 .. MaxValues
          BY <2>1, <4>2 DEF AcceptState, TypeOK
        <5> QED
          BY <5>1, <5>2
      <4> QED
        BY <4>1, <4>2
    <3>4. /\ emitted' \in 0 .. MaxValues /\ accepted' \subseteq 1 .. MaxValues
          /\ UNCHANGED <<kind, overflow, closed, acked>>
      BY <2>0, <2>1 DEF AcceptState, TypeOK
    <3>5. /\ buffer' \in Seq(1 .. MaxValues) /\ Len(buffer') <= BufferLimit
          /\ sequence' \in Nat
          /\ inFlight' \in Nat \cup {NoBatch}
          /\ pendingTerminal' \in Terminals \cup {NoTerminal}
          /\ concluded' \in BOOLEAN
          /\ stack' \in Seq(FrameSet)
          /\ out' \in Seq(MessageSet)
      BY <2>0, <3>1, <3>2, FlushType
    <3> QED
      BY <3>3, <3>4, <3>5 DEF TypeOK, BufferLimit, FrameSet, MessageSet
  <2>2. CASE AcceptEvent
    <3>1. emitted + 1 \in 1 .. MaxValues /\ Len(buffer) <= Capacity
      BY <2>0, <2>2 DEF AcceptEvent, BufferLimit
    <3>2. /\ buffer' \in Seq(1 .. MaxValues) /\ Len(buffer') <= BufferLimit
          /\ PushVictims(buffer, emitted + 1, overflow) \subseteq 1 .. MaxValues
          /\ PushOverflows(buffer, overflow) \in BOOLEAN
      BY <2>0, <2>2, <3>1, PushedType DEF AcceptEvent, BufferLimit
    <3>3. Frame(IF Full(buffer) THEN "dropped" ELSE "pushed", 0,
                PushOverflows(buffer, overflow)) \in FrameSet
      BY <2>0, <3>2 DEF Frame, FrameSet
    <3>4. stack' \in Seq(FrameSet)
      BY <2>0, <2>2, <3>3, Appended DEF AcceptEvent
    <3>5. emitted' \in 0 .. MaxValues /\ accepted' \subseteq 1 .. MaxValues
      BY <2>2, <3>1 DEF AcceptEvent, TypeOK
    <3>6. dropped' \subseteq 1 .. MaxValues
      BY <2>2, <3>2 DEF AcceptEvent, TypeOK
    <3>7. UNCHANGED <<kind, overflow, sequence, inFlight, pendingTerminal, concluded,
                      closed, out, acked>>
      BY <2>2 DEF AcceptEvent
    <3> QED
      BY <3>2, <3>4, <3>5, <3>6, <3>7 DEF TypeOK, BufferLimit, FrameSet, MessageSet
  <2>3. CASE AcceptIgnored
    BY <2>0, <2>3 DEF AcceptIgnored, windowVars, TypeOK
  <2>4. CASE ReturnDropped
    <3>1. stack' \in Seq(FrameSet)
      <4>1. Top \in FrameSet /\ Rest \in Seq(FrameSet)
        BY <2>4, <2>p DEF ReturnDropped
      <4>2. Frame("pushed", 0, Top.overflows) \in FrameSet
        BY <2>0, <4>1 DEF Frame, FrameSet
      <4> QED
        BY <2>4, <4>1, <4>2, Appended DEF ReturnDropped
    <3> QED
      BY <2>4, <3>1 DEF ReturnDropped, TypeOK, FrameSet
  <2>5. CASE ReturnPushed
    <3>1. Rest \in Seq(FrameSet)
      BY <2>5, <2>p DEF ReturnPushed
    <3>2. CASE closed \/ concluded
      BY <2>0, <2>5, <3>1, <3>2 DEF ReturnPushed, TypeOK, FrameSet
    <3>3. CASE ~(closed \/ concluded)
      <4> DEFINE terminal == IF Top.overflows /\ pendingTerminal = NoTerminal
                             THEN "overflow" ELSE pendingTerminal
      <4>1. terminal \in Terminals \cup {NoTerminal}
        BY <2>0 DEF Terminals
      <4>2. Flush(buffer, inFlight, terminal, Rest)
        BY <2>5, <3>3 DEF ReturnPushed
      <4> HIDE DEF terminal
      <4> QED
        BY <2>0, <2>5, <3>1, <4>1, <4>2, FlushType
        DEF ReturnPushed, TypeOK, BufferLimit, FrameSet, MessageSet
    <3> QED
      BY <3>2, <3>3
  <2>6. CASE ReturnShifted
    <3>1. Top.value \in 0 .. MaxValues /\ Rest \in Seq(FrameSet)
      BY <2>6, <2>p DEF ReturnShifted, FrameSet
    <3>2. CASE closed \/ concluded
      BY <2>0, <2>6, <3>1, <3>2 DEF ReturnShifted, TypeOK, FrameSet
    <3>3. CASE ~(closed \/ concluded)
      BY <2>0, <2>6, <3>1, <3>3, HandOutType
      DEF ReturnShifted, TypeOK, FrameSet, MessageSet
    <3> QED
      BY <3>2, <3>3
  <2>7. ASSUME NEW s \in 0 .. sequence + 1, Ack(s)
        PROVE  TypeOK'
    <3>1. acked' \subseteq Nat
      <4>1. s \in Nat /\ acked \subseteq Nat
        BY <2>0 DEF TypeOK
      <4>2. acked' \subseteq acked \cup {s}
        BY <2>7 DEF Ack
      <4> QED
        BY <4>1, <4>2
    <3>2. CASE ~closed /\ ~concluded /\ s = inFlight
      <4>1. Flush(buffer, NoBatch, pendingTerminal, stack)
        BY <2>7, <3>2 DEF Ack
      <4> QED
        BY <2>0, <2>7, <3>1, <4>1, FlushType
        DEF Ack, TypeOK, BufferLimit, FrameSet, MessageSet
    <3>3. CASE ~(~closed /\ ~concluded /\ s = inFlight)
      BY <2>0, <2>7, <3>1, <3>3 DEF Ack, TypeOK
    <3> QED
      BY <3>2, <3>3
  <2>8. ASSUME NEW terminal \in SourceTerminals, End(terminal)
        PROVE  TypeOK'
    <3>1. terminal \in Terminals
      BY <2>8 DEF Terminals
    <3>2. Flush(buffer, inFlight, terminal, stack)
      BY <2>8 DEF End
    <3> QED
      BY <2>0, <2>8, <3>1, <3>2, FlushType
      DEF End, TypeOK, BufferLimit, FrameSet, MessageSet
  <2>9. CASE Preempt
    <3>1. Message("cancelled", sequence + 1, 0) \in MessageSet
      BY <2>0 DEF Message, MessageSet, Terminals
    <3>2. out' \in Seq(MessageSet)
      BY <2>0, <2>9, <3>1, Appended DEF Preempt
    <3>3. Len(buffer') <= BufferLimit
      BY <2>9, CapacityAssumption DEF Preempt, BufferLimit
    <3> QED
      BY <2>0, <2>9, <3>2, <3>3 DEF Preempt, TypeOK, BufferLimit, MessageSet
  <2>10. CASE Close
    BY <2>10 DEF Close, TypeOK
  <2>11. CASE UNCHANGED vars
    BY <2>11 DEF vars, windowVars, TypeOK
  <2> QED
    BY <2>1, <2>2, <2>3, <2>4, <2>5, <2>6, <2>7, <2>8, <2>9, <2>10, <2>11
    DEF Next, Return
<1> QED
  BY <1>1, <1>2, PTL DEF Spec

-----------------------------------------------------------------------------
(***************************************************************************)
(* The numbers of the messages and the place of the terminal.  Neither     *)
(* depends on what the sink calls back: a message is appended only by a    *)
(* step that finds the window not concluded, and it takes the next number. *)
(***************************************************************************)
Numbered ==
  /\ Len(out) = sequence + 1
  /\ Gapless
  /\ \A i \in 1 .. Len(out) : out[i].type \in Terminals => i = Len(out) /\ concluded

\* One more message, numbered sequence + 1, on a window that is not concluded.
LEMMA AppendKeepsNumbers ==
  ASSUME TypeOK, Numbered, ~concluded,
         NEW type \in Terminals \cup {"batch"}, NEW value \in 0 .. MaxValues,
         out' = Append(out, Message(type, sequence + 1, value)),
         sequence' = sequence + 1,
         type \in Terminals => concluded'
  PROVE  Numbered'
<1>1. out \in Seq(MessageSet) /\ Message(type, sequence + 1, value) \in MessageSet
  BY DEF TypeOK, Message, MessageSet
<1>2. /\ out' \in Seq(MessageSet) /\ Len(out') = Len(out) + 1
      /\ \A i \in 1 .. Len(out) : out'[i] = out[i]
      /\ out'[Len(out) + 1] = Message(type, sequence + 1, value)
  BY <1>1, Appended
<1>3. /\ Len(out) = sequence + 1 /\ Len(out) \in Nat
      /\ \A i \in 1 .. Len(out) : out[i].sequence = i - 1
      /\ \A i \in 1 .. Len(out) : out[i].type \notin Terminals
  BY <1>1 DEF Numbered, Gapless
<1>4. ASSUME NEW i \in 1 .. Len(out')
      PROVE  /\ out'[i].sequence = i - 1
             /\ out'[i].type \in Terminals => i = Len(out') /\ concluded'
  <2>1. CASE i \in 1 .. Len(out)
    BY <1>2, <1>3, <2>1
  <2>2. CASE i = Len(out) + 1
    BY <1>2, <1>3, <2>2 DEF Message
  <2> QED
    BY <1>2, <1>3, <2>1, <2>2
<1> QED
  BY <1>2, <1>3, <1>4 DEF Numbered, Gapless

LEMMA HandOutKeepsNumbers ==
  ASSUME TypeOK, Numbered, ~concluded, NEW value \in 0 .. MaxValues,
         HandOutBatch(value), UNCHANGED concluded
  PROVE  Numbered'
<1>1. "batch" \notin Terminals
  BY DEF Terminals, SourceTerminals
<1>2. "batch" \in Terminals => concluded'
  BY <1>1
<1>3. /\ out' = Append(out, Message("batch", sequence + 1, value))
      /\ sequence' = sequence + 1
      /\ "batch" \in Terminals \cup {"batch"}
  BY DEF HandOutBatch
<1> QED
  BY <1>2, <1>3, AppendKeepsNumbers, Zenon

LEMMA FlushKeepsNumbers ==
  ASSUME TypeOK, Numbered, ~concluded,
         NEW values \in Seq(1 .. MaxValues), NEW gate,
         NEW terminal \in Terminals \cup {NoTerminal}, NEW below,
         Flush(values, gate, terminal, below)
  PROVE  Numbered'
<1>1. MaxValues \in Nat
  BY BoundsAssumption
<1>2. CASE UNCHANGED <<sequence, concluded, out>>
  BY <1>2 DEF Numbered, Gapless
<1>3. CASE /\ values # <<>> /\ HandOutBatch(Head(values)) /\ UNCHANGED concluded
  <2>1. Head(values) \in 1 .. MaxValues
    BY <1>3, QueueParts
  <2>2. Head(values) \in 0 .. MaxValues
    BY <1>1, <2>1
  <2> QED
    BY <1>3, <2>2, HandOutKeepsNumbers
<1>4. CASE /\ terminal # NoTerminal /\ sequence' = sequence + 1 /\ concluded' = TRUE
           /\ out' = Append(out, Message(terminal, sequence + 1, 0))
  BY <1>1, <1>4, AppendKeepsNumbers
<1> QED
  BY <1>2, <1>3, <1>4 DEF Flush

LEMMA StepKeepsNumbers == TypeOK /\ Numbered /\ [Next]_vars => Numbered'
<1> SUFFICES ASSUME TypeOK, Numbered, [Next]_vars PROVE Numbered'
  OBVIOUS
<1>0. /\ MaxValues \in Nat
      /\ buffer \in Seq(1 .. MaxValues) /\ emitted \in 0 .. MaxValues
      /\ pendingTerminal \in Terminals \cup {NoTerminal}
  BY BoundsAssumption DEF TypeOK
<1>1. CASE AcceptState
  <2>1. <<emitted + 1>> \in Seq(1 .. MaxValues)
    BY <1>0, <1>1 DEF AcceptState
  <2> QED
    BY <1>0, <1>1, <2>1, FlushKeepsNumbers DEF AcceptState, Accepting
<1>2. CASE AcceptEvent
  BY <1>2 DEF AcceptEvent, Numbered, Gapless
<1>3. CASE AcceptIgnored
  BY <1>3 DEF AcceptIgnored, windowVars, Numbered, Gapless
<1>4. CASE ReturnDropped
  BY <1>4 DEF ReturnDropped, Numbered, Gapless
<1>5. CASE ReturnPushed
  <2>1. CASE closed \/ concluded
    BY <1>5, <2>1 DEF ReturnPushed, Numbered, Gapless
  <2>2. CASE ~(closed \/ concluded)
    <3> DEFINE terminal == IF Top.overflows /\ pendingTerminal = NoTerminal
                           THEN "overflow" ELSE pendingTerminal
    <3>1. terminal \in Terminals \cup {NoTerminal}
      BY <1>0 DEF Terminals
    <3>2. Flush(buffer, inFlight, terminal, Rest)
      BY <1>5, <2>2 DEF ReturnPushed
    <3> HIDE DEF terminal
    <3> QED
      BY <1>0, <2>2, <3>1, <3>2, FlushKeepsNumbers
  <2> QED
    BY <2>1, <2>2
<1>6. CASE ReturnShifted
  <2>1. Top.value \in 0 .. MaxValues
    <3>1. stack \in Seq(FrameSet) /\ stack # <<>>
      BY <1>6 DEF TypeOK, FrameSet, ReturnShifted
    <3>2. Top \in FrameSet
      BY <3>1, StackParts DEF Top
    <3> QED
      BY <3>2 DEF FrameSet
  <2> QED
    BY <1>6, <2>1, HandOutKeepsNumbers DEF ReturnShifted, Numbered, Gapless
<1>7. ASSUME NEW s \in 0 .. sequence + 1, Ack(s)
      PROVE  Numbered'
  <2>1. CASE ~closed /\ ~concluded /\ s = inFlight
    <3>1. Flush(buffer, NoBatch, pendingTerminal, stack)
      BY <1>7, <2>1 DEF Ack
    <3> QED
      BY <1>0, <2>1, <3>1, FlushKeepsNumbers
  <2>2. CASE ~(~closed /\ ~concluded /\ s = inFlight)
    BY <1>7, <2>2 DEF Ack, Numbered, Gapless
  <2> QED
    BY <2>1, <2>2
<1>8. ASSUME NEW terminal \in SourceTerminals, End(terminal)
      PROVE  Numbered'
  <2>1. Flush(buffer, inFlight, terminal, stack) /\ ~concluded
    BY <1>8 DEF End, Accepting
  <2>2. terminal \in Terminals \cup {NoTerminal}
    BY DEF Terminals
  <2> QED
    BY <1>0, <2>1, <2>2, FlushKeepsNumbers
<1>9. CASE Preempt
  <2>1. /\ out' = Append(out, Message("cancelled", sequence + 1, 0))
        /\ sequence' = sequence + 1 /\ concluded' /\ ~concluded
    BY <1>9 DEF Preempt
  <2>2. "cancelled" \in Terminals \cup {"batch"} /\ 0 \in 0 .. MaxValues
    BY <1>0 DEF Terminals
  <2> QED
    BY <2>1, <2>2, AppendKeepsNumbers
<1>10. CASE Close
  BY <1>10 DEF Close, Numbered, Gapless
<1>11. CASE UNCHANGED vars
  BY <1>11 DEF vars, windowVars, Numbered, Gapless
<1> QED
  BY <1>1, <1>2, <1>3, <1>4, <1>5, <1>6, <1>7, <1>8, <1>9, <1>10, <1>11
  DEF Next, Return

LEMMA NumberedCorrect == Spec => []Numbered
<1>1. Init => Numbered
  BY DEF Init, Numbered, Gapless, Message, Terminals, SourceTerminals
<1> QED
  BY <1>1, TypeCorrect, StepKeepsNumbers, PTL DEF Spec

\* The messages of a subscription are numbered 0, 1, 2, ... without a gap, in the
\* order in which they are handed out, whatever the sink calls back.
THEOREM GaplessCorrect == Spec => []Gapless
<1>1. Numbered => Gapless
  BY DEF Numbered
<1> QED
  BY <1>1, NumberedCorrect, PTL

\* Nothing follows a terminal, whatever the sink calls back.
THEOREM TerminalIsLastCorrect == Spec => []TerminalIsLast
<1>1. Numbered => TerminalIsLast
  BY DEF Numbered, TerminalIsLast
<1> QED
  BY <1>1, NumberedCorrect, PTL

-----------------------------------------------------------------------------
(***************************************************************************)
(* The ack gate.  A batch goes out only when inFlight is NoBatch, and then *)
(* no batch is unacknowledged.  flush() breaks this apart: it takes a      *)
(* value, calls the sink, and hands the value out when the sink returns,   *)
(* without looking at the gate again.  It is saved by the sink that does   *)
(* not emit or end the source: no other call opens a second flush          *)
(* while one is suspended.                                                 *)
(***************************************************************************)
QuietSink == SinkCalls \subseteq {"ack", "preempt", "close"}

NoneShifted(frames) == \A i \in 1 .. Len(frames) : frames[i].at # "shifted"

\* A suspended flush is the innermost call, and the gate is still open.
ShiftedAlone ==
  \A i \in 1 .. Len(stack) :
    stack[i].at = "shifted" => i = Len(stack) /\ inFlight = NoBatch

Unacked(i) == out[i].type = "batch" /\ out[i].sequence \notin acked

\* The batch that is not acknowledged is the one the gate waits for.
GateHeld ==
  ~concluded => \A i \in 1 .. Len(out) : Unacked(i) => inFlight = out[i].sequence

Gate == OneUnackedBatch /\ ShiftedAlone /\ GateHeld

\* Under the innermost call no flush is suspended, and none at all when the gate
\* is shut or another kind of call is the innermost.
LEMMA ShiftedParts ==
  ASSUME TypeOK, ShiftedAlone, stack # <<>>
  PROVE  /\ NoneShifted(Rest)
         /\ inFlight # NoBatch \/ Top.at # "shifted" => NoneShifted(stack)
<1>1. stack \in Seq(FrameSet)
  BY DEF TypeOK, FrameSet
<1>2. /\ Len(stack) \in Nat \ {0} /\ Len(Rest) = Len(stack) - 1
      /\ \A i \in 1 .. Len(stack) - 1 : Rest[i] = stack[i]
  BY <1>1, StackParts DEF Rest
<1>3. NoneShifted(Rest)
  BY <1>2 DEF ShiftedAlone, NoneShifted
<1>4. ASSUME inFlight # NoBatch \/ Top.at # "shifted"
      PROVE  NoneShifted(stack)
  BY <1>2, <1>4 DEF ShiftedAlone, NoneShifted, Top
<1> QED
  BY <1>3, <1>4

\* One more frame on a stack without a suspended flush.
LEMMA ShiftedAppended ==
  ASSUME NEW below \in Seq(FrameSet), NoneShifted(below), NEW frame \in FrameSet,
         stack' = Append(below, frame),
         frame.at = "shifted" => inFlight' = NoBatch
  PROVE  ShiftedAlone'
<1>1. /\ Len(stack') = Len(below) + 1 /\ Len(below) \in Nat
      /\ \A i \in 1 .. Len(below) : stack'[i] = below[i]
      /\ stack'[Len(below) + 1] = frame
  BY Appended
<1> QED
  BY <1>1 DEF ShiftedAlone, NoneShifted

\* Handing out a batch while no other is unacknowledged.
LEMMA HandOutKeepsGate ==
  ASSUME TypeOK, Numbered, NEW value \in 0 .. MaxValues,
         \A i \in 1 .. Len(out) : out[i].type = "batch" => out[i].sequence \in acked',
         HandOutBatch(value)
  PROVE  OneUnackedBatch' /\ GateHeld'
<1> DEFINE message == Message("batch", sequence + 1, value)
<1>1. out \in Seq(MessageSet) /\ message \in MessageSet
  BY DEF TypeOK, Message, MessageSet
<1>2. message.sequence = sequence + 1
  BY DEF Message
<1>3. out' = Append(out, message) /\ inFlight' = sequence + 1
  BY DEF HandOutBatch
<1> HIDE DEF message
<1>4. /\ Len(out') = Len(out) + 1 /\ Len(out) \in Nat
      /\ \A i \in 1 .. Len(out) : out'[i] = out[i]
      /\ out'[Len(out) + 1] = message
  BY <1>1, <1>3, Appended
<1>5. ASSUME NEW i \in 1 .. Len(out'), Unacked(i)'
      PROVE  i = Len(out) + 1
  <2>1. i \notin 1 .. Len(out)
    BY <1>4, <1>5 DEF Unacked
  <2> QED
    BY <1>4, <2>1
<1>6. OneUnackedBatch'
  BY <1>5 DEF OneUnackedBatch, Unacked
<1>7. GateHeld'
  BY <1>2, <1>3, <1>4, <1>5 DEF GateHeld
<1> QED
  BY <1>6, <1>7

\* A terminal, or no message at all, adds no unacknowledged batch.
LEMMA TerminalKeepsGate ==
  ASSUME TypeOK, OneUnackedBatch, acked \subseteq acked',
         \/ UNCHANGED out
         \/ \E message \in MessageSet :
              message.type \in Terminals /\ out' = Append(out, message)
  PROVE  /\ OneUnackedBatch'
         /\ \A i \in 1 .. Len(out') :
              Unacked(i)' => i \in 1 .. Len(out) /\ Unacked(i) /\ out'[i] = out[i]
<1>1. CASE UNCHANGED out
  BY <1>1 DEF OneUnackedBatch, Unacked
<1>2. ASSUME NEW message \in MessageSet,
             message.type \in Terminals, out' = Append(out, message)
      PROVE  /\ OneUnackedBatch'
             /\ \A i \in 1 .. Len(out') :
                  Unacked(i)' => i \in 1 .. Len(out) /\ Unacked(i) /\ out'[i] = out[i]
  <2>1. out \in Seq(MessageSet)
    BY DEF TypeOK, MessageSet
  <2>2. /\ Len(out') = Len(out) + 1 /\ Len(out) \in Nat
        /\ \A i \in 1 .. Len(out) : out'[i] = out[i]
        /\ out'[Len(out) + 1] = message
    BY <1>2, <2>1, Appended
  <2>3. message.type # "batch"
    BY <1>2 DEF Terminals, SourceTerminals
  <2>4. ASSUME NEW i \in 1 .. Len(out'), Unacked(i)'
        PROVE  i \in 1 .. Len(out) /\ Unacked(i) /\ out'[i] = out[i]
    <3>1. i # Len(out) + 1
      BY <2>2, <2>3, <2>4 DEF Unacked
    <3>2. i \in 1 .. Len(out)
      BY <2>2, <3>1
    <3> QED
      BY <2>2, <2>4, <3>2 DEF Unacked
  <2>5. OneUnackedBatch'
    BY <2>4 DEF OneUnackedBatch, Unacked
  <2> QED
    BY <2>4, <2>5
<1> QED
  BY <1>1, <1>2

\* flush() through a gate that waits for whatever is unacknowledged.
LEMMA FlushKeepsGate ==
  ASSUME TypeOK, Numbered, OneUnackedBatch, ~concluded, acked \subseteq acked',
         NEW values \in Seq(1 .. MaxValues),
         NEW gate \in Nat \cup {NoBatch},
         NEW terminal \in Terminals \cup {NoTerminal},
         NEW below \in Seq(FrameSet), NoneShifted(below),
         \A i \in 1 .. Len(out) :
           out[i].type = "batch" /\ out[i].sequence \notin acked'
             => gate = out[i].sequence,
         Flush(values, gate, terminal, below)
  PROVE  Gate'
<1>1. out \in Seq(MessageSet) /\ sequence \in Nat /\ MaxValues \in Nat
  BY BoundsAssumption DEF TypeOK, MessageSet
<1>2. stack' = below => ShiftedAlone'
  BY DEF NoneShifted, ShiftedAlone
<1>3. CASE UNCHANGED <<concluded, out>> /\ inFlight' = gate /\ stack' = below
  <2>1. OneUnackedBatch'
    BY <1>3, TerminalKeepsGate
  <2>2. GateHeld'
    BY <1>3 DEF GateHeld, Unacked
  <2> QED
    BY <1>2, <1>3, <2>1, <2>2 DEF Gate
<1>4. ASSUME gate = NoBatch
      PROVE  \A i \in 1 .. Len(out) :
               out[i].type = "batch" => out[i].sequence \in acked'
  <2>1. \A i \in 1 .. Len(out) : out[i].sequence # NoBatch
    BY DEF Numbered, Gapless, NoBatch
  <2> QED
    BY <1>4, <2>1
<1>5. ASSUME values # <<>>
      PROVE  Head(values) \in 0 .. MaxValues
  <2>1. Head(values) \in 1 .. MaxValues
    BY <1>5, QueueParts
  <2> QED
    BY <1>1, <2>1
<1>6. CASE gate = NoBatch /\ values # <<>> /\ HandOutBatch(Head(values))
           /\ stack' = below
  <2>1. OneUnackedBatch' /\ GateHeld'
    BY <1>4, <1>5, <1>6, HandOutKeepsGate
  <2> QED
    BY <1>2, <1>6, <2>1 DEF Gate
<1>7. CASE /\ gate = NoBatch /\ values # <<>> /\ inFlight' = gate
           /\ stack' = Append(below, Frame("shifted", Head(values), FALSE))
           /\ UNCHANGED <<concluded, out>>
  <2>1. Frame("shifted", Head(values), FALSE) \in FrameSet
    BY <1>5, <1>7 DEF Frame, FrameSet
  <2>2. ShiftedAlone'
    BY <1>7, <2>1, ShiftedAppended
  <2>3. OneUnackedBatch'
    BY <1>7, TerminalKeepsGate
  <2>4. GateHeld'
    BY <1>7 DEF GateHeld, Unacked
  <2> QED
    BY <2>2, <2>3, <2>4 DEF Gate
<1>8. CASE /\ terminal # NoTerminal /\ concluded' = TRUE /\ stack' = below
           /\ out' = Append(out, Message(terminal, sequence + 1, 0))
  <2>1. Message(terminal, sequence + 1, 0) \in MessageSet
    BY <1>1, <1>8 DEF Message, MessageSet
  <2>2. Message(terminal, sequence + 1, 0).type \in Terminals
    BY <1>8 DEF Message
  <2>3. OneUnackedBatch'
    BY <1>8, <2>1, <2>2, TerminalKeepsGate
  <2>4. GateHeld'
    BY <1>8 DEF GateHeld
  <2> QED
    BY <1>2, <1>8, <2>3, <2>4 DEF Gate
<1> QED
  BY <1>3, <1>6, <1>7, <1>8 DEF Flush

LEMMA StepKeepsGate ==
  ASSUME QuietSink, TypeOK, Numbered, Gate, [Next]_vars
  PROVE  Gate'
<1>0. /\ MaxValues \in Nat
      /\ buffer \in Seq(1 .. MaxValues) /\ emitted \in 0 .. MaxValues
      /\ inFlight \in Nat \cup {NoBatch}
      /\ pendingTerminal \in Terminals \cup {NoTerminal}
      /\ stack \in Seq(FrameSet)
      /\ OneUnackedBatch /\ ShiftedAlone /\ GateHeld
  BY BoundsAssumption DEF TypeOK, FrameSet, Gate
<1>1. ASSUME stack # <<>>
      PROVE  /\ Top \in FrameSet /\ Rest \in Seq(FrameSet)
             /\ NoneShifted(Rest)
             /\ inFlight # NoBatch \/ Top.at # "shifted" => NoneShifted(stack)
  BY <1>0, <1>1, StackParts, ShiftedParts DEF Top, Rest
<1>2. ASSUME MayCall("accept") \/ MayCall("end")
      PROVE  stack = <<>> /\ NoneShifted(stack)
  BY <1>2 DEF MayCall, QuietSink, NoneShifted
<1>3. ASSUME UNCHANGED <<inFlight, concluded, out>>, acked \subseteq acked'
      PROVE  OneUnackedBatch' /\ GateHeld'
  BY <1>0, <1>3 DEF OneUnackedBatch, GateHeld, Unacked
<1>4. ASSUME stack # <<>>, stack' = Rest
      PROVE  ShiftedAlone'
  BY <1>1, <1>4 DEF ShiftedAlone, NoneShifted
<1>5. ASSUME NEW values \in Seq(1 .. MaxValues),
             NEW terminal \in Terminals \cup {NoTerminal},
             NEW below \in Seq(FrameSet), NoneShifted(below),
             ~concluded, UNCHANGED acked, Flush(values, inFlight, terminal, below)
      PROVE  Gate'
  BY <1>0, <1>5, FlushKeepsGate DEF GateHeld, Unacked
<1>6. CASE AcceptState
  <2>1. <<emitted + 1>> \in Seq(1 .. MaxValues)
    BY <1>0, <1>6 DEF AcceptState
  <2>2. NoneShifted(stack)
    BY <1>2, <1>6 DEF AcceptState
  <2> QED
    BY <1>0, <1>5, <1>6, <2>1, <2>2 DEF AcceptState, Accepting
<1>7. CASE AcceptEvent
  <2>1. Frame(IF Full(buffer) THEN "dropped" ELSE "pushed", 0,
              PushOverflows(buffer, overflow)) \in FrameSet
    BY <1>0 DEF Frame, FrameSet, PushOverflows
  <2>2. NoneShifted(stack)
    BY <1>2, <1>7 DEF AcceptEvent
  <2>3. Frame(IF Full(buffer) THEN "dropped" ELSE "pushed", 0,
              PushOverflows(buffer, overflow)).at # "shifted"
    BY DEF Frame
  <2>4. ShiftedAlone'
    BY <1>0, <1>7, <2>1, <2>2, <2>3, ShiftedAppended DEF AcceptEvent
  <2> QED
    BY <1>3, <1>7, <2>4 DEF AcceptEvent, Gate
<1>8. CASE AcceptIgnored
  BY <1>0, <1>3, <1>8 DEF AcceptIgnored, windowVars, Gate, ShiftedAlone
<1>9. CASE ReturnDropped
  <2>1. Frame("pushed", 0, Top.overflows) \in FrameSet
    BY <1>0, <1>1, <1>9 DEF ReturnDropped, Frame, FrameSet
  <2>2. Frame("pushed", 0, Top.overflows).at # "shifted"
    BY DEF Frame
  <2>3. ShiftedAlone'
    BY <1>1, <1>4, <1>9, <2>1, <2>2, ShiftedAppended DEF ReturnDropped
  <2> QED
    BY <1>3, <1>9, <2>3 DEF ReturnDropped, Gate
<1>10. CASE ReturnPushed
  <2>1. CASE closed \/ concluded
    BY <1>3, <1>4, <1>10, <2>1 DEF ReturnPushed, Gate
  <2>2. CASE ~(closed \/ concluded)
    <3> DEFINE terminal == IF Top.overflows /\ pendingTerminal = NoTerminal
                           THEN "overflow" ELSE pendingTerminal
    <3>1. terminal \in Terminals \cup {NoTerminal}
      BY <1>0 DEF Terminals
    <3>2. Flush(buffer, inFlight, terminal, Rest)
      BY <1>10, <2>2 DEF ReturnPushed
    <3>3. stack # <<>> /\ UNCHANGED acked
      BY <1>10 DEF ReturnPushed
    <3> HIDE DEF terminal
    <3> QED
      BY <1>0, <1>1, <1>5, <2>2, <3>1, <3>2, <3>3
  <2> QED
    BY <2>1, <2>2
<1>11. CASE ReturnShifted
  <2>1. stack # <<>> /\ Top.at = "shifted" /\ stack' = Rest
    BY <1>11 DEF ReturnShifted
  <2>2. CASE closed \/ concluded
    BY <1>3, <1>4, <1>11, <2>1, <2>2 DEF ReturnShifted, Gate
  <2>3. CASE ~(closed \/ concluded)
    <3>1. inFlight = NoBatch
      BY <1>0, <2>1, StackParts DEF Top, ShiftedAlone
    <3>2. \A i \in 1 .. Len(out) : out[i].sequence # NoBatch
      BY DEF Numbered, Gapless, NoBatch
    <3>3. \A i \in 1 .. Len(out) : out[i].type = "batch" => out[i].sequence \in acked'
      BY <1>0, <1>11, <2>3, <3>1, <3>2 DEF ReturnShifted, GateHeld, Unacked
    <3>4. Top.value \in 0 .. MaxValues /\ HandOutBatch(Top.value)
      BY <1>1, <1>11, <2>1, <2>3 DEF ReturnShifted, FrameSet
    <3> QED
      BY <1>4, <2>1, <3>3, <3>4, HandOutKeepsGate DEF Gate
  <2> QED
    BY <2>2, <2>3
<1>12. ASSUME NEW s \in 0 .. sequence + 1, Ack(s)
       PROVE  Gate'
  <2>1. acked \subseteq acked'
    BY <1>12 DEF Ack
  <2>2. CASE ~closed /\ ~concluded /\ s = inFlight
    <3>1. Flush(buffer, NoBatch, pendingTerminal, stack)
      BY <1>12, <2>2 DEF Ack
    <3>2. NoneShifted(stack)
      <4>1. inFlight # NoBatch
        BY <2>2 DEF TypeOK, NoBatch
      <4>2. CASE stack = <<>>
        BY <4>2 DEF NoneShifted
      <4> QED
        BY <1>1, <4>1, <4>2
    <3>3. ASSUME NEW i \in 1 .. Len(out),
                 out[i].type = "batch", out[i].sequence \notin acked'
          PROVE  FALSE
      <4>1. out[i].sequence = s
        BY <1>0, <2>1, <2>2, <3>3 DEF GateHeld, Unacked
      <4>2. out[i].sequence \in BatchNumbers
        BY <3>3 DEF BatchNumbers
      <4> QED
        BY <1>12, <3>3, <4>1, <4>2 DEF Ack
    <3> QED
      BY <1>0, <2>1, <2>2, <3>1, <3>2, <3>3, FlushKeepsGate
  <2>3. CASE ~(~closed /\ ~concluded /\ s = inFlight)
    <3>1. UNCHANGED <<inFlight, concluded, stack, out>>
      BY <1>12, <2>3 DEF Ack
    <3>2. ShiftedAlone'
      BY <1>0, <3>1 DEF ShiftedAlone
    <3> QED
      BY <1>3, <2>1, <3>1, <3>2 DEF Gate
  <2> QED
    BY <2>2, <2>3
<1>13. ASSUME NEW terminal \in SourceTerminals, End(terminal)
       PROVE  Gate'
  <2>1. /\ Flush(buffer, inFlight, terminal, stack) /\ ~concluded
        /\ UNCHANGED acked /\ NoneShifted(stack)
    BY <1>2, <1>13 DEF End, Accepting
  <2>2. terminal \in Terminals \cup {NoTerminal}
    BY DEF Terminals
  <2> QED
    BY <1>0, <1>5, <2>1, <2>2
<1>14. CASE Preempt
  <2>1. Message("cancelled", sequence + 1, 0) \in MessageSet
    BY <1>0 DEF TypeOK, Message, MessageSet, Terminals
  <2>2. Message("cancelled", sequence + 1, 0).type \in Terminals
    BY DEF Message, Terminals
  <2>3. OneUnackedBatch'
    BY <1>0, <1>14, <2>1, <2>2, TerminalKeepsGate DEF Preempt
  <2>4. ShiftedAlone' /\ GateHeld'
    BY <1>0, <1>14 DEF Preempt, ShiftedAlone, GateHeld
  <2> QED
    BY <2>3, <2>4 DEF Gate
<1>15. CASE Close
  BY <1>0, <1>3, <1>15 DEF Close, Gate, ShiftedAlone
<1>16. CASE UNCHANGED vars
  BY <1>0, <1>3, <1>16 DEF vars, windowVars, Gate, ShiftedAlone
<1> QED
  BY <1>6, <1>7, <1>8, <1>9, <1>10, <1>11, <1>12, <1>13, <1>14, <1>15, <1>16
  DEF Next, Return

LEMMA GateCorrect == QuietSink /\ Spec => []Gate
<1> SUFFICES ASSUME QuietSink PROVE Spec => []Gate
  OBVIOUS
<1>1. Init => Gate
  BY DEF Init, Gate, OneUnackedBatch, ShiftedAlone, GateHeld, Unacked, Message
<1>2. TypeOK /\ Numbered /\ Gate /\ [Next]_vars => Gate'
  BY StepKeepsGate
<1> QED
  BY <1>1, <1>2, TypeCorrect, NumberedCorrect, PTL DEF Spec

\* At most one batch is unacknowledged, whatever acks, preemptions and closes come
\* back from the sink while a flush is suspended in it.
THEOREM OneUnackedBatchCorrect == QuietSink /\ Spec => []OneUnackedBatch
<1>1. Gate => OneUnackedBatch
  BY DEF Gate
<1> QED
  BY <1>1, GateCorrect, PTL

-----------------------------------------------------------------------------
(* The values keep their order and are accounted for, when the sink is quiet *)

Rising(q) == \A i, j \in 1 .. Len(q) : i < j => q[i] < q[j]

\* The values of q are younger than every value handed out.
Younger(q) == \A i \in 1 .. Len(out), j \in 1 .. Len(q) : out[i].value < q[j]

\* The values handed out, the one suspended in the sink and those in the buffer come in
\* this order from the source.
Order ==
  /\ Rising(buffer) /\ Younger(buffer)
  /\ \A j \in 1 .. Len(buffer) : buffer[j] <= emitted
  /\ \A i \in 1 .. Len(out) : out[i].value <= emitted
  /\ \A k \in 1 .. Len(stack) : stack[k].at = "shifted" =>
       /\ stack[k].value \in 1 .. emitted
       /\ \A i \in 1 .. Len(out) : out[i].value < stack[k].value
       /\ \A j \in 1 .. Len(buffer) : stack[k].value < buffer[j]

\* What else accounts for the values: a flush that is suspended in the sink is only
\* ended by a close or a preemption, and a State window never calls the sink.
Accounts ==
  /\ NothingVanishes /\ NewestKept
  /\ accepted \subseteq 1 .. emitted
  /\ concluded /\ ~NoneShifted(stack) => Preempted
  /\ kind = "state" => stack = <<>>
  /\ acked \subseteq BatchNumbers

\* A value that is pending.
LEMMA BufferValues ==
  ASSUME NEW q \in Seq(1 .. MaxValues)
  PROVE  ToSet(q) = {q[i] : i \in 1 .. Len(q)}
BY DEF ToSet

\* One more message.
LEMMA MessageAppended ==
  ASSUME TypeOK, NEW message \in MessageSet, out' = Append(out, message)
  PROVE  /\ Len(out') = Len(out) + 1 /\ Len(out) \in Nat
         /\ \A i \in 1 .. Len(out) : out'[i] = out[i]
         /\ out'[Len(out) + 1] = message
         /\ message.type = "batch" =>
              /\ Delivered' = Delivered \cup {message.value}
              /\ BatchNumbers' = BatchNumbers \cup {message.sequence}
         /\ message.type # "batch" => Delivered' = Delivered /\ BatchNumbers' = BatchNumbers
         /\ Preempted' <=> message.type = "cancelled"
<1>1. out \in Seq(MessageSet)
  BY DEF TypeOK, MessageSet
<1>2. /\ Len(out') = Len(out) + 1 /\ Len(out) \in Nat
      /\ \A i \in 1 .. Len(out) : out'[i] = out[i]
      /\ out'[Len(out) + 1] = message
  BY <1>1, Appended
<1>3. \A i : i \in 1 .. Len(out') <=> i \in 1 .. Len(out) \/ i = Len(out) + 1
  BY <1>2
<1>4. \A v : /\ v \in Delivered <=>
                  \E i \in 1 .. Len(out) : out[i].type = "batch" /\ out[i].value = v
             /\ v \in BatchNumbers <=>
                  \E i \in 1 .. Len(out) : out[i].type = "batch" /\ out[i].sequence = v
             /\ v \in Delivered' <=>
                  \E i \in 1 .. Len(out') : out'[i].type = "batch" /\ out'[i].value = v
             /\ v \in BatchNumbers' <=>
                  \E i \in 1 .. Len(out') : out'[i].type = "batch" /\ out'[i].sequence = v
  BY DEF Delivered, BatchNumbers
<1>5. \A v : /\ v \in Delivered' <=>
                  v \in Delivered \/ (message.type = "batch" /\ v = message.value)
             /\ v \in BatchNumbers' <=>
                  v \in BatchNumbers \/ (message.type = "batch" /\ v = message.sequence)
  BY <1>2, <1>3, <1>4
<1>6. Preempted' <=> message.type = "cancelled"
  BY <1>2 DEF Preempted
<1> QED
  BY <1>2, <1>5, <1>6

\* What the sink holds.
LEMMA SinkEmpty ==
  ASSUME NoneShifted(stack)
  PROVE  InSink = {}
BY DEF NoneShifted, InSink

LEMMA SinkTop ==
  ASSUME TypeOK, ShiftedAlone, stack # <<>>, Top.at = "shifted"
  PROVE  InSink = {Top.value}
<1>1. stack \in Seq(FrameSet)
  BY DEF TypeOK, FrameSet
<1>2. Len(stack) \in 1 .. Len(stack)
  BY <1>1, StackParts
<1>3. \A i \in 1 .. Len(stack) : stack[i].at = "shifted" => i = Len(stack)
  BY DEF ShiftedAlone
<1> QED
  BY <1>2, <1>3 DEF InSink, Top

LEMMA SinkTaken ==
  ASSUME NEW below \in Seq(FrameSet), NoneShifted(below),
         NEW frame \in FrameSet, stack' = Append(below, frame)
  PROVE  /\ frame.at = "shifted" => InSink' = {frame.value}
         /\ frame.at # "shifted" => InSink' = {} /\ NoneShifted(stack')
         /\ \A i \in 1 .. Len(stack') : stack'[i].at = "shifted" => stack'[i] = frame
<1>1. /\ Len(stack') = Len(below) + 1 /\ Len(below) \in Nat
      /\ \A i \in 1 .. Len(below) : stack'[i] = below[i]
      /\ stack'[Len(below) + 1] = frame
  BY Appended
<1>2. \A i : i \in 1 .. Len(stack') <=> i \in 1 .. Len(below) \/ i = Len(below) + 1
  BY <1>1
<1>3. \A i \in 1 .. Len(stack') : stack'[i].at = "shifted" => i = Len(below) + 1
  BY <1>1, <1>2 DEF NoneShifted
<1>4. \A v : v \in InSink' <=>
               \E i \in 1 .. Len(stack') : stack'[i].at = "shifted" /\ stack'[i].value = v
  BY DEF InSink
<1> QED
  BY <1>1, <1>2, <1>3, <1>4 DEF NoneShifted

\* A window that is not concluded was not preempted.
LEMMA NotPreempted ==
  ASSUME TypeOK, Numbered, ~concluded
  PROVE  ~Preempted
<1>1. Len(out) \in 1 .. Len(out)
  BY DEF TypeOK, Numbered
<1>2. "cancelled" \in Terminals
  BY DEF Terminals
<1> QED
  BY <1>1, <1>2 DEF Numbered, Preempted

-----------------------------------------------------------------------------
\* A younger value at the end, the oldest taken from the front.
LEMMA RisingAppended ==
  ASSUME NEW q \in Seq(1 .. MaxValues), NEW v \in 1 .. MaxValues, Rising(q),
         \A j \in 1 .. Len(q) : q[j] < v
  PROVE  Rising(Append(q, v))
<1>1. /\ Len(Append(q, v)) = Len(q) + 1 /\ Len(q) \in Nat
      /\ \A i \in 1 .. Len(q) : Append(q, v)[i] = q[i]
      /\ Append(q, v)[Len(q) + 1] = v
  BY Appended
<1>2. ASSUME NEW i \in 1 .. Len(q) + 1, NEW j \in 1 .. Len(q) + 1, i < j
      PROVE  i \in 1 .. Len(q) /\ (j \in 1 .. Len(q) \/ j = Len(q) + 1)
  BY <1>1, <1>2
<1> QED
  BY <1>1, <1>2 DEF Rising

LEMMA RisingTail ==
  ASSUME NEW q \in Seq(1 .. MaxValues), q # <<>>, Rising(q)
  PROVE  /\ Rising(Tail(q))
         /\ \A j \in 1 .. Len(Tail(q)) : \E i \in 1 .. Len(q) : Tail(q)[j] = q[i]
         /\ \A j \in 1 .. Len(Tail(q)) : Head(q) < Tail(q)[j]
         /\ \E i \in 1 .. Len(q) : Head(q) = q[i]
         /\ ToSet(q) = ToSet(Tail(q)) \cup {Head(q)}
<1>1. /\ Head(q) \in 1 .. MaxValues /\ Head(q) = q[1] /\ Tail(q) \in Seq(1 .. MaxValues)
      /\ Len(Tail(q)) = Len(q) - 1
      /\ \A i \in 1 .. Len(Tail(q)) : Tail(q)[i] = q[i + 1]
      /\ Len(q) \in Nat \ {0}
  BY QueueParts, EmptySeq
<1>2. \A i \in 1 .. Len(Tail(q)) : i + 1 \in 1 .. Len(q) /\ 1 < i + 1
  BY <1>1
<1>3. 1 \in 1 .. Len(q)
  BY <1>1
<1>4. Rising(Tail(q))
  <2>1. \A i, j \in 1 .. Len(Tail(q)) : i < j => i + 1 < j + 1
    BY <1>1
  <2> QED
    BY <1>1, <1>2, <2>1 DEF Rising
<1>5. \A j \in 1 .. Len(Tail(q)) : Head(q) < Tail(q)[j]
  BY <1>1, <1>2, <1>3 DEF Rising
<1>6. \A j \in 1 .. Len(q) : j = 1 \/ (j - 1 \in 1 .. Len(Tail(q)) /\ q[j] = Tail(q)[j - 1])
  BY <1>1
<1>7. \A v : v \in ToSet(q) <=> v \in ToSet(Tail(q)) \/ v = Head(q)
  <2>1. /\ \A v : v \in ToSet(q) <=> \E i \in 1 .. Len(q) : q[i] = v
        /\ \A v : v \in ToSet(Tail(q)) <=> \E i \in 1 .. Len(Tail(q)) : Tail(q)[i] = v
    <3>1. PICK t : t = Tail(q)
      OBVIOUS
    <3>2. PICK S : S = 1 .. MaxValues
      OBVIOUS
    <3>3. q \in Seq(S) /\ t \in Seq(S)
      BY <1>1, <3>1, <3>2
    <3>4. \A v : v \in ToSet(q) <=> \E i \in 1 .. Len(q) : q[i] = v
      BY ONLY <3>3, Values
    <3>5. \A v : v \in ToSet(t) <=> \E i \in 1 .. Len(t) : t[i] = v
      BY ONLY <3>3, Values
    <3> QED
      BY <3>1, <3>4, <3>5
  <2> QED
    BY <1>1, <1>2, <1>3, <1>6, <2>1
<1> QED
  BY <1>1, <1>2, <1>3, <1>4, <1>5, <1>7

\* A push loses no value but those it names.
LEMMA PushedValues ==
  ASSUME NEW q \in Seq(1 .. MaxValues), Rising(q), Len(q) <= Capacity,
         NEW v \in 1 .. MaxValues, \A j \in 1 .. Len(q) : q[j] < v, NEW policy
  PROVE  /\ Rising(PushedContents(q, v, policy))
         /\ \A j \in 1 .. Len(PushedContents(q, v, policy)) :
              \/ PushedContents(q, v, policy)[j] = v
              \/ \E i \in 1 .. Len(q) : PushedContents(q, v, policy)[j] = q[i]
         /\ ToSet(PushedContents(q, v, policy)) \cup PushVictims(q, v, policy)
              = ToSet(q) \cup {v}
<1>0. Capacity \in Nat \ {0}
  BY CapacityAssumption
<1>1. ASSUME NEW p \in Seq(1 .. MaxValues), Rising(p), \A j \in 1 .. Len(p) : p[j] < v
      PROVE  /\ Rising(Append(p, v))
             /\ \A j \in 1 .. Len(Append(p, v)) :
                  Append(p, v)[j] = v \/ \E i \in 1 .. Len(p) : Append(p, v)[j] = p[i]
             /\ ToSet(Append(p, v)) = ToSet(p) \cup {v}
  <2>1. Rising(Append(p, v))
    BY <1>1, RisingAppended
  <2>2. ToSet(Append(p, v)) = ToSet(p) \cup {v}
    <3>1. PICK s : s = Append(p, v)
      OBVIOUS
    <3>2. Pushed(p, s, v)
      BY <3>1 DEF Pushed
    <3>3. ToSet(s) = ToSet(p) \cup {v}
      <4>1. PICK S : S = 1 .. MaxValues
        OBVIOUS
      <4>2. p \in Seq(S) /\ v \in S
        BY <4>1
      <4> QED
        BY ONLY <3>2, <4>2, ValuesAppended
    <3> QED
      BY <3>1, <3>3
  <2>3. \A j \in 1 .. Len(Append(p, v)) :
          Append(p, v)[j] = v \/ \E i \in 1 .. Len(p) : Append(p, v)[j] = p[i]
    <3>1. /\ Len(Append(p, v)) = Len(p) + 1 /\ Len(p) \in Nat
          /\ \A i \in 1 .. Len(p) : Append(p, v)[i] = p[i]
          /\ Append(p, v)[Len(p) + 1] = v
      BY Appended
    <3>2. \A j \in 1 .. Len(p) + 1 : j \in 1 .. Len(p) \/ j = Len(p) + 1
      BY <3>1
    <3> QED
      BY <3>1, <3>2
  <2> QED
    BY <2>1, <2>2, <2>3
<1>2. CASE ~Full(q)
  <2>1. PushedContents(q, v, policy) = Append(q, v) /\ PushVictims(q, v, policy) = {}
    BY <1>2 DEF PushedContents, PushVictims
  <2> QED
    BY <1>1, <2>1
<1>3. CASE Full(q) /\ policy = "drop-oldest"
  <2>1. PushedContents(q, v, policy) = Append(Tail(q), v)
        /\ PushVictims(q, v, policy) = {Head(q)}
    BY <1>3 DEF PushedContents, PushVictims
  <2>2. q # <<>>
    BY <1>0, <1>3 DEF Full
  <2>3. /\ Tail(q) \in Seq(1 .. MaxValues) /\ Rising(Tail(q))
        /\ \A j \in 1 .. Len(Tail(q)) : \E i \in 1 .. Len(q) : Tail(q)[j] = q[i]
        /\ ToSet(q) = ToSet(Tail(q)) \cup {Head(q)}
    BY <2>2, QueueParts, RisingTail
  <2>4. \A j \in 1 .. Len(Tail(q)) : Tail(q)[j] < v
    BY <2>3
  <2>5. PICK t : t = Tail(q)
    OBVIOUS
  <2>6. /\ Rising(Append(t, v))
        /\ \A j \in 1 .. Len(Append(t, v)) :
             Append(t, v)[j] = v \/ \E i \in 1 .. Len(t) : Append(t, v)[j] = t[i]
        /\ ToSet(Append(t, v)) = ToSet(t) \cup {v}
    BY <1>1, <2>3, <2>4, <2>5
  <2> QED
    BY <2>1, <2>3, <2>5, <2>6
<1>4. CASE Full(q) /\ policy # "drop-oldest"
  BY <1>4 DEF PushedContents, PushVictims
<1> QED
  BY <1>2, <1>3, <1>4

-----------------------------------------------------------------------------
LEMMA MessageValues ==
  ASSUME TypeOK
  PROVE  \A i \in 1 .. Len(out) : out[i].value \in 0 .. MaxValues
<1>1. out \in Seq(MessageSet)
  BY DEF TypeOK, MessageSet
<1>2. \A i \in 1 .. Len(out) : out[i] \in MessageSet
  BY ONLY <1>1
<1> QED
  BY <1>2 DEF MessageSet

LEMMA Elements ==
  ASSUME NEW S, NEW q \in Seq(S)
  PROVE  \A i \in 1 .. Len(q) : q[i] \in S
OBVIOUS

\* HandOutBatch(value) with younger values behind it.
LEMMA HandOutKeepsOrder ==
  ASSUME TypeOK, emitted' \in 0 .. MaxValues,
         NEW value \in 1 .. MaxValues, value <= emitted',
         \A i \in 1 .. Len(out) : out[i].value < value,
         NEW rest \in Seq(1 .. MaxValues), Rising(rest),
         \A j \in 1 .. Len(rest) : value < rest[j] /\ rest[j] <= emitted',
         buffer' = rest, HandOutBatch(value), NoneShifted(stack')
  PROVE  /\ Order'
         /\ Delivered' = Delivered \cup {value}
         /\ BatchNumbers' = BatchNumbers \cup {sequence + 1}
         /\ ~Preempted'
<1>0. MaxValues \in Nat /\ sequence \in Nat
  BY BoundsAssumption DEF TypeOK
<1>1. PICK message : message = Message("batch", sequence + 1, value)
  OBVIOUS
<1>2. /\ message \in MessageSet /\ message.type = "batch" /\ message.value = value
      /\ message.sequence = sequence + 1
  BY <1>0, <1>1 DEF Message, MessageSet
<1>3. out' = Append(out, message)
  BY <1>1 DEF HandOutBatch
<1>4. /\ Len(out') = Len(out) + 1 /\ Len(out) \in Nat
      /\ \A i \in 1 .. Len(out) : out'[i] = out[i]
      /\ out'[Len(out) + 1] = message
      /\ Delivered' = Delivered \cup {message.value}
      /\ BatchNumbers' = BatchNumbers \cup {message.sequence}
      /\ ~Preempted'
  BY <1>2, <1>3, MessageAppended
<1>5. \A i \in 1 .. Len(out) : out[i].value \in 0 .. MaxValues
  BY MessageValues
<1>6. \A i \in 1 .. Len(out') : out'[i].value \in 0 .. MaxValues /\ out'[i].value <= value
  <2>1. \A i \in 1 .. Len(out') : i \in 1 .. Len(out) \/ i = Len(out) + 1
    BY ONLY <1>4
  <2>2. \A i \in 1 .. Len(out) : out[i].value <= value
    BY <1>0, <1>5
  <2>3. value \in 0 .. MaxValues
    BY <1>0
  <2> QED
    BY ONLY <1>2, <1>4, <1>5, <2>1, <2>2, <2>3
<1>7. \A i \in 1 .. Len(out') : out'[i].value <= emitted'
  BY <1>0, <1>6
<1>8. \A i \in 1 .. Len(out'), j \in 1 .. Len(rest) : out'[i].value < rest[j]
  <2>1. \A j \in 1 .. Len(rest) : rest[j] \in 1 .. MaxValues
    BY Elements
  <2> QED
    BY <1>0, <1>6, <2>1
<1>9. /\ Rising(buffer)' /\ Younger(buffer)'
      /\ \A j \in 1 .. Len(buffer') : buffer'[j] <= emitted'
  BY <1>8 DEF Rising, Younger
<1>10. \A k \in 1 .. Len(stack') : stack'[k].at # "shifted"
  BY DEF NoneShifted
<1> QED
  BY <1>2, <1>4, <1>7, <1>9, <1>10 DEF Order

\* The same values, behind the messages there were, on a stack that holds none.
LEMMA KeepsOrder ==
  ASSUME TypeOK, NEW values \in Seq(1 .. MaxValues), Rising(values), Younger(values),
         \A j \in 1 .. Len(values) : values[j] <= emitted',
         \A i \in 1 .. Len(out) : out[i].value <= emitted',
         buffer' = values, UNCHANGED out, NoneShifted(stack')
  PROVE  Order'
<1>1. /\ Rising(buffer)' /\ Younger(buffer)'
      /\ \A j \in 1 .. Len(buffer') : buffer'[j] <= emitted'
  BY DEF Rising, Younger
<1>2. \A k \in 1 .. Len(stack') : stack'[k].at # "shifted"
  BY DEF NoneShifted
<1> QED
  BY <1>1, <1>2 DEF Order

\* flush() hands out, or takes into the sink, the oldest of the values it is given, and
\* keeps the others.
LEMMA FlushKeepsOrder ==
  ASSUME TypeOK, Numbered, ~concluded, emitted' \in 0 .. MaxValues,
         NEW values \in Seq(1 .. MaxValues), Rising(values), Younger(values),
         \A j \in 1 .. Len(values) : values[j] <= emitted',
         \A i \in 1 .. Len(out) : out[i].value <= emitted',
         NEW gate, NEW terminal \in Terminals \cup {NoTerminal},
         NEW below \in Seq(FrameSet), NoneShifted(below),
         Flush(values, gate, terminal, below)
  PROVE  /\ Order'
         /\ Delivered' \cup ToSet(buffer') \cup InSink' = Delivered \cup ToSet(values)
         /\ kind = "state" => stack' = below
         /\ concluded' => NoneShifted(stack')
         /\ BatchNumbers \subseteq BatchNumbers'
<1>0. MaxValues \in Nat /\ sequence \in Nat
  BY BoundsAssumption DEF TypeOK
<1>e. ASSUME stack' = below
      PROVE  NoneShifted(stack') /\ InSink' = {}
  BY <1>e DEF NoneShifted, InSink
<1>h. ASSUME values # <<>>
      PROVE  /\ Head(values) \in 1 .. MaxValues /\ Tail(values) \in Seq(1 .. MaxValues)
             /\ Head(values) <= emitted'
             /\ \A i \in 1 .. Len(out) : out[i].value < Head(values)
             /\ Rising(Tail(values))
             /\ \A j \in 1 .. Len(Tail(values)) :
                  Head(values) < Tail(values)[j] /\ Tail(values)[j] <= emitted'
             /\ \A i \in 1 .. Len(out), j \in 1 .. Len(Tail(values)) :
                  out[i].value < Tail(values)[j]
             /\ ToSet(values) = ToSet(Tail(values)) \cup {Head(values)}
  <2>1. /\ Head(values) \in 1 .. MaxValues /\ Tail(values) \in Seq(1 .. MaxValues)
        /\ Rising(Tail(values))
        /\ \A j \in 1 .. Len(Tail(values)) : \E i \in 1 .. Len(values) : Tail(values)[j] = values[i]
        /\ \A j \in 1 .. Len(Tail(values)) : Head(values) < Tail(values)[j]
        /\ \E i \in 1 .. Len(values) : Head(values) = values[i]
        /\ ToSet(values) = ToSet(Tail(values)) \cup {Head(values)}
    BY <1>h, QueueParts, RisingTail
  <2>2. Head(values) <= emitted' /\ \A i \in 1 .. Len(out) : out[i].value < Head(values)
    BY <2>1 DEF Younger
  <2>3. \A j \in 1 .. Len(Tail(values)) : Tail(values)[j] <= emitted'
    BY <2>1
  <2>4. \A i \in 1 .. Len(out), j \in 1 .. Len(Tail(values)) : out[i].value < Tail(values)[j]
    BY <2>1 DEF Younger
  <2> QED
    BY <2>1, <2>2, <2>3, <2>4
<1>1. CASE UNCHANGED <<concluded, out>> /\ buffer' = values /\ stack' = below
  <2>1. Order'
    BY <1>e, <1>1, KeepsOrder
  <2>2. Delivered' = Delivered /\ BatchNumbers' = BatchNumbers
    BY <1>1 DEF Delivered, BatchNumbers
  <2> QED
    BY <1>e, <1>1, <2>1, <2>2
<1>2. CASE /\ values # <<>> /\ buffer' = Tail(values) /\ HandOutBatch(Head(values))
           /\ stack' = below /\ UNCHANGED concluded
  <2>1. PICK value : value = Head(values)
    OBVIOUS
  <2>2. PICK rest : rest = Tail(values)
    OBVIOUS
  <2>3. /\ value \in 1 .. MaxValues /\ rest \in Seq(1 .. MaxValues) /\ value <= emitted'
        /\ \A i \in 1 .. Len(out) : out[i].value < value
        /\ Rising(rest)
        /\ \A j \in 1 .. Len(rest) : value < rest[j] /\ rest[j] <= emitted'
        /\ buffer' = rest /\ HandOutBatch(value) /\ NoneShifted(stack')
        /\ ToSet(values) = ToSet(rest) \cup {value}
    BY <1>e, <1>h, <1>2, <2>1, <2>2
  <2>4. /\ Order' /\ Delivered' = Delivered \cup {value}
        /\ BatchNumbers' = BatchNumbers \cup {sequence + 1}
    BY <2>3, HandOutKeepsOrder
  <2> QED
    BY <1>e, <1>2, <2>3, <2>4
<1>3. CASE /\ values # <<>> /\ buffer' = Tail(values) /\ kind = "event"
           /\ stack' = Append(below, Frame("shifted", Head(values), FALSE))
           /\ UNCHANGED <<concluded, out>>
  <2>1. PICK frame : frame = Frame("shifted", Head(values), FALSE)
    OBVIOUS
  <2>2. Head(values) \in 0 .. MaxValues
    BY <1>0, <1>h, <1>3
  <2>3. frame \in FrameSet /\ frame.at = "shifted" /\ frame.value = Head(values)
    BY ONLY <2>1, <2>2 DEF Frame, FrameSet
  <2>4. stack' = Append(below, frame)
    BY <1>3, <2>1
  <2>5. /\ InSink' = {frame.value}
        /\ \A k \in 1 .. Len(stack') : stack'[k].at = "shifted" => stack'[k] = frame
    BY <2>3, <2>4, SinkTaken
  <2>6. /\ Rising(buffer)' /\ Younger(buffer)'
        /\ \A j \in 1 .. Len(buffer') : buffer'[j] <= emitted'
    BY <1>h, <1>3 DEF Rising, Younger
  <2>7. /\ frame.value \in 1 .. emitted'
        /\ \A i \in 1 .. Len(out') : out'[i].value < frame.value
        /\ \A j \in 1 .. Len(buffer') : frame.value < buffer'[j]
    <3>1. PICK value : value = Head(values)
      OBVIOUS
    <3>2. /\ value \in 1 .. MaxValues /\ value <= emitted'
          /\ \A i \in 1 .. Len(out') : out'[i].value < value
          /\ \A j \in 1 .. Len(buffer') : value < buffer'[j]
          /\ frame.value = value
      BY <1>h, <1>3, <2>3, <3>1
    <3>3. value \in 1 .. emitted'
      BY <1>0, <3>2
    <3> QED
      BY ONLY <3>2, <3>3
  <2>8. \A i \in 1 .. Len(out') : out'[i].value <= emitted'
    BY <1>3
  <2>9. Order'
    BY <2>5, <2>6, <2>7, <2>8 DEF Order
  <2>10. Delivered' = Delivered /\ BatchNumbers' = BatchNumbers
    BY <1>3 DEF Delivered, BatchNumbers
  <2> QED
    BY <1>h, <1>3, <2>3, <2>5, <2>9, <2>10
<1>4. CASE /\ values = <<>> /\ terminal # NoTerminal /\ buffer' = values
           /\ concluded' = TRUE /\ stack' = below
           /\ out' = Append(out, Message(terminal, sequence + 1, 0))
  <2>1. PICK message : message = Message(terminal, sequence + 1, 0)
    OBVIOUS
  <2>2. message \in MessageSet /\ message.type = terminal /\ message.value = 0
    BY <1>0, <1>4, <2>1 DEF Message, MessageSet
  <2>3. out' = Append(out, message) /\ message.type # "batch"
    BY <1>4, <2>1, <2>2 DEF Terminals, SourceTerminals
  <2>4. /\ Len(out') = Len(out) + 1 /\ Len(out) \in Nat
        /\ \A i \in 1 .. Len(out) : out'[i] = out[i]
        /\ out'[Len(out) + 1] = message
        /\ Delivered' = Delivered /\ BatchNumbers' = BatchNumbers
    BY <2>2, <2>3, MessageAppended
  <2>5. Len(buffer') = 0
    BY <1>4
  <2>6. \A i \in 1 .. Len(out') : out'[i].value <= emitted'
    <3>1. \A i \in 1 .. Len(out') : i \in 1 .. Len(out) \/ i = Len(out) + 1
      BY ONLY <2>4
    <3>2. 0 <= emitted'
      OBVIOUS
    <3>3. \A i \in 1 .. Len(out) : out[i].value <= emitted'
      OBVIOUS
    <3> QED
      BY ONLY <2>2, <2>4, <3>1, <3>2, <3>3
  <2>7. Rising(buffer)' /\ Younger(buffer)'
    BY <2>5 DEF Rising, Younger
  <2>8. \A k \in 1 .. Len(stack') : stack'[k].at # "shifted"
    BY <1>e, <1>4 DEF NoneShifted
  <2>9. Order'
    BY <2>5, <2>6, <2>7, <2>8 DEF Order
  <2> QED
    BY <1>e, <1>4, <2>4, <2>9
<1> QED
  BY <1>1, <1>2, <1>3, <1>4 DEF Flush

-----------------------------------------------------------------------------
LEMMA PendingValues ==
  ASSUME NEW q \in Seq(1 .. MaxValues)
  PROVE  /\ buffer = q => Pending = ToSet(q)
         /\ buffer' = q => Pending' = ToSet(q)
BY BufferValues DEF Pending

\* A step that hands nothing out and takes nothing from the buffer.
LEMMA QuietKeepsValues ==
  ASSUME TypeOK, Order, Accounts,
         UNCHANGED <<kind, buffer, concluded, accepted, dropped, out>>,
         emitted' \in Nat, emitted <= emitted', closed => closed',
         acked' \subseteq BatchNumbers,
         \/ UNCHANGED stack
         \/ /\ NoneShifted(stack) \/ closed \/ Preempted
            /\ NoneShifted(stack') /\ kind # "state"
  PROVE  Order' /\ Accounts'
<1>0. /\ emitted \in Nat /\ buffer \in Seq(1 .. MaxValues)
      /\ \A j \in 1 .. Len(buffer) : buffer[j] \in 1 .. MaxValues
      /\ \A i \in 1 .. Len(out) : out[i].value \in 0 .. MaxValues
      /\ MaxValues \in Nat
  <2>1. emitted \in 0 .. MaxValues /\ buffer \in Seq(1 .. MaxValues) /\ MaxValues \in Nat
    BY BoundsAssumption DEF TypeOK
  <2>2. \A j \in 1 .. Len(buffer) : buffer[j] \in 1 .. MaxValues
    BY ONLY <2>1, Elements
  <2>3. \A i \in 1 .. Len(out) : out[i].value \in 0 .. MaxValues
    BY MessageValues
  <2> QED
    BY <2>1, <2>2, <2>3
<1>1. /\ Rising(buffer)' /\ Younger(buffer)'
      /\ \A j \in 1 .. Len(buffer) : buffer[j] <= emitted'
      /\ \A i \in 1 .. Len(out) : out[i].value <= emitted'
  <2>1. \A j \in 1 .. Len(buffer) : buffer[j] <= emitted
    BY DEF Order
  <2>2. \A i \in 1 .. Len(out) : out[i].value <= emitted
    BY DEF Order
  <2>3. \A j \in 1 .. Len(buffer) : buffer[j] <= emitted'
    BY <1>0, <2>1
  <2>4. \A i \in 1 .. Len(out) : out[i].value <= emitted'
    BY <1>0, <2>2
  <2>5. Rising(buffer)' /\ Younger(buffer)'
    BY DEF Order, Rising, Younger
  <2> QED
    BY <2>3, <2>4, <2>5
<1>2. Order'
  <2>1. CASE UNCHANGED stack
    <3>1. \A k \in 1 .. Len(stack) : stack[k].at = "shifted" =>
            /\ stack[k].value \in 1 .. emitted
            /\ \A i \in 1 .. Len(out) : out[i].value < stack[k].value
            /\ \A j \in 1 .. Len(buffer) : stack[k].value < buffer[j]
      BY DEF Order
    <3>2. \A n \in 1 .. emitted : n \in 1 .. emitted'
      BY <1>0
    <3> QED
      BY <1>1, <2>1, <3>1, <3>2 DEF Order
  <2>2. CASE NoneShifted(stack')
    BY <1>1, <2>2 DEF Order, NoneShifted
  <2> QED
    BY <2>1, <2>2
<1>3. /\ Pending' = Pending /\ Delivered' = Delivered /\ BatchNumbers' = BatchNumbers
      /\ Preempted' = Preempted
  BY DEF Pending, Delivered, BatchNumbers, Preempted
<1>4. NothingVanishes'
  <2>1. CASE UNCHANGED stack
    <3>1. InSink' = InSink
      BY <2>1 DEF InSink
    <3> QED
      BY <1>3, <3>1 DEF Accounts, NothingVanishes
  <2>2. CASE NoneShifted(stack) /\ NoneShifted(stack')
    <3>1. InSink = {} /\ InSink' = {}
      BY <2>2 DEF InSink, NoneShifted
    <3> QED
      BY <1>3, <3>1 DEF Accounts, NothingVanishes
  <2>3. CASE closed \/ Preempted
    BY <1>3, <2>3 DEF NothingVanishes
  <2> QED
    BY <2>1, <2>2, <2>3
<1>5. NewestKept'
  BY <1>3 DEF Accounts, NewestKept
<1>6. accepted' \subseteq 1 .. emitted'
  <2>1. \A n \in 1 .. emitted : n \in 1 .. emitted'
    BY <1>0
  <2> QED
    BY <2>1 DEF Accounts
<1>7. concluded' /\ ~NoneShifted(stack') => Preempted'
  BY <1>3 DEF Accounts
<1>8. kind' = "state" => stack' = <<>>
  BY DEF Accounts
<1> QED
  BY <1>2, <1>3, <1>4, <1>5, <1>6, <1>7, <1>8 DEF Accounts

\* flush() of the values that account for those accepted.
LEMMA FlushKeepsValues ==
  ASSUME TypeOK, Numbered, ~concluded, emitted' \in 0 .. MaxValues,
         NEW values \in Seq(1 .. MaxValues), Rising(values), Younger(values),
         \A j \in 1 .. Len(values) : values[j] <= emitted',
         \A i \in 1 .. Len(out) : out[i].value <= emitted',
         NEW gate, NEW terminal \in Terminals \cup {NoTerminal},
         NEW below \in Seq(FrameSet), NoneShifted(below),
         kind = "state" => below = <<>>,
         UNCHANGED kind,
         accepted' \subseteq 1 .. emitted', acked' \subseteq BatchNumbers,
         kind = "event" => accepted' = Delivered \cup ToSet(values) \cup dropped',
         kind = "state" => \A v \in accepted' :
           (\A w \in accepted' : w <= v) => v \in Delivered \cup ToSet(values),
         TypeOK',
         Flush(values, gate, terminal, below)
  PROVE  Order' /\ Accounts'
<1>1. /\ Order'
      /\ Delivered' \cup ToSet(buffer') \cup InSink' = Delivered \cup ToSet(values)
      /\ kind = "state" => stack' = below
      /\ concluded' => NoneShifted(stack')
      /\ BatchNumbers \subseteq BatchNumbers'
  BY FlushKeepsOrder
<1>2. Pending' = ToSet(buffer')
  <2>1. PICK q : q = buffer'
    OBVIOUS
  <2>2. q \in Seq(1 .. MaxValues)
    BY <2>1 DEF TypeOK
  <2> QED
    BY <2>1, <2>2, PendingValues
<1>3. NothingVanishes'
  BY <1>1, <1>2 DEF NothingVanishes
<1>4. NewestKept'
  <2>1. ASSUME kind' = "state"
        PROVE  InSink' = {}
    <3>1. stack' = <<>>
      BY <1>1, <2>1
    <3> QED
      BY <3>1 DEF InSink
  <2> QED
    BY <1>1, <1>2, <2>1 DEF NewestKept
<1> QED
  BY <1>1, <1>3, <1>4 DEF Accounts

LEMMA StepKeepsValues ==
  ASSUME QuietSink, TypeOK, TypeOK', Numbered, Gate, Order, Accounts, [Next]_vars
  PROVE  Order' /\ Accounts'
<1>0. /\ MaxValues \in Nat /\ sequence \in Nat
      /\ buffer \in Seq(1 .. MaxValues) /\ Len(buffer) <= BufferLimit
      /\ emitted \in 0 .. MaxValues /\ emitted \in Nat
      /\ pendingTerminal \in Terminals \cup {NoTerminal}
      /\ stack \in Seq(FrameSet)
      /\ ShiftedAlone
  BY BoundsAssumption DEF TypeOK, FrameSet, Gate, BufferLimit
<1>p. Pending = ToSet(buffer)
  BY <1>0, PendingValues
<1>v. \A j \in 1 .. Len(buffer) : buffer[j] \in 1 .. MaxValues
  BY ONLY <1>0, Elements
<1>o. \A i \in 1 .. Len(out) : out[i].value \in 0 .. MaxValues
  BY MessageValues
<1>1. ASSUME stack # <<>>
      PROVE  /\ Top \in FrameSet /\ Rest \in Seq(FrameSet) /\ NoneShifted(Rest)
             /\ inFlight # NoBatch \/ Top.at # "shifted" => NoneShifted(stack)
             /\ kind # "state"
  <2>1. kind # "state"
    BY <1>1 DEF Accounts
  <2> QED
    BY <1>0, <1>1, <2>1, StackParts, ShiftedParts DEF Top, Rest
<1>2. ASSUME MayCall("accept") \/ MayCall("end")
      PROVE  stack = <<>> /\ NoneShifted(stack)
  BY <1>2 DEF MayCall, QuietSink, NoneShifted
<1>q. acked \subseteq BatchNumbers /\ accepted \subseteq 1 .. emitted
  BY DEF Accounts
\* flush() of the buffer as it is.
<1>3. ASSUME ~concluded, ~closed, NoneShifted(stack), NEW gate,
             NEW terminal \in Terminals \cup {NoTerminal},
             NEW below \in Seq(FrameSet), NoneShifted(below), below = stack \/ stack # <<>>,
             UNCHANGED <<kind, emitted, accepted, dropped>>, acked' \subseteq BatchNumbers,
             Flush(buffer, gate, terminal, below)
      PROVE  Order' /\ Accounts'
  <2>1. ~Preempted /\ InSink = {}
    BY <1>3, NotPreempted, SinkEmpty
  <2>2. kind = "event" => accepted' = Delivered \cup ToSet(buffer) \cup dropped'
    BY <1>3, <1>p, <2>1 DEF Accounts, NothingVanishes
  <2>3. kind = "state" => \A v \in accepted' :
          (\A w \in accepted' : w <= v) => v \in Delivered \cup ToSet(buffer)
    BY <1>3, <1>p, <2>1 DEF Accounts, NewestKept
  <2>4. kind = "state" => below = <<>>
    BY <1>3 DEF Accounts
  <2>5. /\ Rising(buffer) /\ Younger(buffer)
        /\ \A j \in 1 .. Len(buffer) : buffer[j] <= emitted'
        /\ \A i \in 1 .. Len(out) : out[i].value <= emitted'
    BY <1>3 DEF Order
  <2>6. accepted' \subseteq 1 .. emitted' /\ emitted' \in 0 .. MaxValues /\ UNCHANGED kind
    BY <1>0, <1>3, <1>q
  <2> QED
    BY <1>0, <1>3, <2>2, <2>3, <2>4, <2>5, <2>6, FlushKeepsValues
<1>4. CASE AcceptState
  <2>1. /\ emitted + 1 \in 1 .. MaxValues /\ emitted' = emitted + 1
        /\ Flush(<<emitted + 1>>, inFlight, pendingTerminal, stack)
        /\ ~concluded /\ kind = "state" /\ UNCHANGED <<kind, acked>>
        /\ accepted' = accepted \cup {emitted + 1}
    BY <1>0, <1>4 DEF AcceptState, Accepting
  <2>2. PICK values : values = <<emitted + 1>>
    OBVIOUS
  <2>3. values \in Seq(1 .. MaxValues) /\ Len(values) = 1 /\ values[1] = emitted + 1
    BY <2>1, <2>2
  <2>4. \A j \in 1 .. Len(values) : j = 1
    BY <2>3
  <2>5. \A i \in 1 .. Len(out) : out[i].value <= emitted
    BY DEF Order
  <2>6. \A i \in 1 .. Len(out) : out[i].value <= emitted' /\ out[i].value < emitted + 1
    BY <1>0, <1>o, <2>1, <2>5
  <2>7. Rising(values) /\ Younger(values) /\ \A j \in 1 .. Len(values) : values[j] <= emitted'
    BY <1>0, <2>1, <2>3, <2>4, <2>6 DEF Rising, Younger
  <2>8. emitted + 1 \in ToSet(values)
    BY <2>3 DEF ToSet
  <2>9. accepted' \subseteq 1 .. emitted'
    BY <1>0, <1>q, <2>1
  <2>10. ASSUME NEW v \in accepted', \A w \in accepted' : w <= v
         PROVE  v \in Delivered \cup ToSet(values)
    <3>1. emitted + 1 <= v /\ v \in 1 .. emitted'
      BY <2>1, <2>9, <2>10
    <3>2. v = emitted + 1
      BY <1>0, <2>1, <3>1
    <3> QED
      BY <2>8, <3>2
  <2>11. stack = <<>> /\ NoneShifted(stack)
    BY <1>2, <1>4 DEF AcceptState
  <2>12. Flush(values, inFlight, pendingTerminal, stack)
    BY <2>1, <2>2
  <2>13. /\ emitted' \in 0 .. MaxValues /\ acked' \subseteq BatchNumbers
         /\ kind # "event"
    BY <1>0, <1>q, <2>1
  <2> QED
    BY <1>0, <2>1, <2>3, <2>6, <2>7, <2>9, <2>10, <2>11, <2>12, <2>13, FlushKeepsValues
<1>5. CASE AcceptEvent
  <2> DEFINE v == emitted + 1
  <2>1. /\ v \in 1 .. MaxValues /\ emitted' = v /\ kind = "event" /\ ~concluded /\ ~closed
        /\ UNCHANGED <<kind, concluded, closed, out, acked>>
        /\ accepted' = accepted \cup {v}
        /\ dropped' = dropped \cup PushVictims(buffer, v, overflow)
        /\ buffer' = PushedContents(buffer, v, overflow)
        /\ Len(buffer) <= Capacity
    BY <1>0, <1>5 DEF AcceptEvent, Accepting, BufferLimit
  <2>2. stack = <<>> /\ NoneShifted(stack)
    BY <1>2, <1>5 DEF AcceptEvent
  <2>3. PICK frame : frame = Frame(IF Full(buffer) THEN "dropped" ELSE "pushed", 0,
                                   PushOverflows(buffer, overflow))
    OBVIOUS
  <2>4. stack' = Append(stack, frame)
    BY <1>5, <2>3 DEF AcceptEvent
  <2>5. frame \in FrameSet /\ frame.at # "shifted"
    BY <1>0, <2>3 DEF Frame, FrameSet, PushOverflows
  <2>6. InSink' = {} /\ NoneShifted(stack')
    BY <1>0, <2>2, <2>4, <2>5, SinkTaken
  <2>7. \A j \in 1 .. Len(buffer) : buffer[j] < v /\ buffer[j] <= v
    <3>1. \A j \in 1 .. Len(buffer) : buffer[j] <= emitted
      BY DEF Order
    <3> QED
      BY <1>0, <1>v, <3>1
  <2>8. \A i \in 1 .. Len(out) : out[i].value < v /\ out[i].value <= v
    <3>1. \A i \in 1 .. Len(out) : out[i].value <= emitted
      BY DEF Order
    <3> QED
      BY <1>0, <1>o, <3>1
  <2> HIDE DEF v
  <2>9. PICK q : q = PushedContents(buffer, v, overflow)
    OBVIOUS
  <2>10. /\ Rising(q)
         /\ \A j \in 1 .. Len(q) : q[j] = v \/ \E i \in 1 .. Len(buffer) : q[j] = buffer[i]
         /\ ToSet(q) \cup PushVictims(buffer, v, overflow) = ToSet(buffer) \cup {v}
    <3>1. Rising(buffer) /\ \A j \in 1 .. Len(buffer) : buffer[j] < v
      BY <2>7 DEF Order
    <3> QED
      BY <1>0, <2>1, <2>9, <3>1, PushedValues
  <2>11. q \in Seq(1 .. MaxValues) /\ buffer' = q
    BY <2>1, <2>9 DEF TypeOK
  <2>12. Younger(q) /\ \A j \in 1 .. Len(q) : q[j] <= emitted'
    <3>1. \A i \in 1 .. Len(out), j \in 1 .. Len(buffer) : out[i].value < buffer[j]
      BY DEF Order, Younger
    <3>2. \A i \in 1 .. Len(out), j \in 1 .. Len(q) : out[i].value < q[j]
      BY <2>8, <2>10, <3>1
    <3>3. v <= v
      BY <2>1
    <3> QED
      BY <2>1, <2>7, <2>10, <3>2, <3>3 DEF Younger
  <2>13. Order'
    <3>1. /\ \A i \in 1 .. Len(out) : out[i].value <= emitted'
          /\ UNCHANGED out /\ Rising(q)
      BY <2>1, <2>8, <2>10
    <3> QED
      BY <2>6, <2>11, <2>12, <3>1, KeepsOrder
  <2>14. /\ Pending' = ToSet(q) /\ Delivered' = Delivered /\ BatchNumbers' = BatchNumbers
         /\ ~Preempted /\ InSink = {}
    BY <2>1, <2>2, <2>11, NotPreempted, PendingValues, SinkEmpty DEF Delivered, BatchNumbers
  <2>15. NothingVanishes'
    <3>1. accepted = Delivered \cup Pending \cup InSink \cup dropped
      BY <2>1, <2>14 DEF Accounts, NothingVanishes
    <3>2. accepted' = Delivered \cup ToSet(buffer) \cup {v} \cup dropped
      BY <1>p, <2>1, <2>14, <3>1
    <3>3. accepted' = Delivered' \cup Pending' \cup InSink' \cup dropped'
      BY <2>1, <2>6, <2>10, <2>14, <3>2
    <3> QED
      BY <3>3 DEF NothingVanishes
  <2>16. NewestKept' /\ ~(kind' = "state")
    BY <2>1 DEF NewestKept
  <2>17. accepted' \subseteq 1 .. emitted'
    BY <1>0, <1>q, <2>1 DEF v
  <2> QED
    BY <1>q, <2>1, <2>6, <2>13, <2>14, <2>15, <2>16, <2>17 DEF Accounts
<1>6. CASE AcceptIgnored
  <2>1. /\ UNCHANGED <<kind, buffer, concluded, accepted, dropped, out>>
        /\ UNCHANGED <<closed, stack, acked>> /\ emitted' = emitted + 1
    BY <1>6 DEF AcceptIgnored, windowVars
  <2>2. emitted' \in Nat /\ emitted <= emitted' /\ acked' \subseteq BatchNumbers
    BY <1>0, <1>q, <2>1
  <2> QED
    BY <2>1, <2>2, QuietKeepsValues
<1>7. CASE ReturnDropped
  <2>1. /\ UNCHANGED <<kind, buffer, concluded, accepted, dropped, out>>
        /\ UNCHANGED <<closed, emitted, acked>>
        /\ stack # <<>> /\ Top.at # "shifted"
    BY <1>7 DEF ReturnDropped
  <2>2. NoneShifted(stack')
    <3>1. PICK frame : frame = Frame("pushed", 0, Top.overflows)
      OBVIOUS
    <3>2. frame \in FrameSet /\ frame.at # "shifted"
      <4>1. Top.overflows \in BOOLEAN /\ 0 \in 0 .. MaxValues
        BY <1>0, <1>1, <2>1 DEF FrameSet
      <4> QED
        BY ONLY <3>1, <4>1 DEF Frame, FrameSet
    <3>3. stack' = Rest \/ stack' = Append(Rest, frame)
      BY <1>7, <3>1 DEF ReturnDropped
    <3> QED
      BY <1>1, <2>1, <3>2, <3>3, SinkTaken
  <2>3. /\ emitted' \in Nat /\ emitted <= emitted' /\ acked' \subseteq BatchNumbers
        /\ NoneShifted(stack) /\ kind # "state"
    BY <1>0, <1>1, <1>q, <2>1
  <2> QED
    BY <2>1, <2>2, <2>3, QuietKeepsValues
<1>8. CASE ReturnPushed
  <2>1. /\ UNCHANGED <<kind, closed, emitted, accepted, dropped, acked>>
        /\ stack # <<>> /\ Top.at # "shifted"
    BY <1>8 DEF ReturnPushed
  <2>2. /\ NoneShifted(stack) /\ NoneShifted(Rest) /\ Rest \in Seq(FrameSet)
        /\ kind # "state"
    BY <1>1, <2>1
  <2>3. CASE closed \/ concluded
    <3>1. stack' = Rest /\ UNCHANGED <<kind, buffer, concluded, accepted, dropped, out>>
      BY <1>8, <2>3 DEF ReturnPushed
    <3>2. emitted' \in Nat /\ emitted <= emitted' /\ acked' \subseteq BatchNumbers
      BY <1>0, <1>q, <2>1
    <3> QED
      BY <2>1, <2>2, <3>1, <3>2, QuietKeepsValues
  <2>4. CASE ~(closed \/ concluded)
    <3>1. PICK terminal : terminal = IF Top.overflows /\ pendingTerminal = NoTerminal
                                     THEN "overflow" ELSE pendingTerminal
      OBVIOUS
    <3>2. terminal \in Terminals \cup {NoTerminal}
      BY <1>0, <3>1 DEF Terminals
    <3>3. Flush(buffer, inFlight, terminal, Rest)
      BY <1>8, <2>4, <3>1 DEF ReturnPushed
    <3>4. UNCHANGED <<kind, emitted, accepted, dropped>> /\ acked' \subseteq BatchNumbers
      BY <1>q, <2>1
    <3> QED
      BY <1>3, <2>1, <2>2, <2>4, <3>2, <3>3, <3>4
  <2> QED
    BY <2>3, <2>4
<1>9. CASE ReturnShifted
  <2>1. /\ stack # <<>> /\ Top.at = "shifted" /\ stack' = Rest
        /\ UNCHANGED <<kind, buffer, concluded, closed, emitted, accepted, dropped, acked>>
    BY <1>9 DEF ReturnShifted
  <2>2. NoneShifted(stack') /\ kind # "state"
    BY <1>1, <2>1
  <2>3. CASE closed \/ concluded
    <3>1. UNCHANGED <<kind, buffer, concluded, accepted, dropped, out>>
      BY <1>9, <2>1, <2>3 DEF ReturnShifted
    <3>2. emitted' \in Nat /\ emitted <= emitted' /\ acked' \subseteq BatchNumbers
      BY <1>0, <1>q, <2>1
    <3>3. closed \/ Preempted
      <4>1. ~NoneShifted(stack)
        <5>1. Len(stack) \in 1 .. Len(stack)
          BY <1>0, <2>1, StackParts
        <5> QED
          BY <2>1, <5>1 DEF NoneShifted, Top
      <4> QED
        BY <2>3, <4>1 DEF Accounts
    <3> QED
      BY <2>1, <2>2, <3>1, <3>2, <3>3, QuietKeepsValues
  <2>4. CASE ~(closed \/ concluded)
    <3>1. PICK value : value = Top.value
      OBVIOUS
    <3>2. Len(stack) \in 1 .. Len(stack)
      BY <1>0, <2>1, StackParts
    <3>3. /\ value \in 1 .. emitted
          /\ \A i \in 1 .. Len(out) : out[i].value < value
          /\ \A j \in 1 .. Len(buffer) : value < buffer[j]
      BY <2>1, <3>1, <3>2 DEF Order, Top
    <3>4. HandOutBatch(value)
      BY <1>9, <2>4, <3>1 DEF ReturnShifted
    <3>5. /\ Rising(buffer) /\ buffer' = buffer
          /\ \A j \in 1 .. Len(buffer) : value < buffer[j] /\ buffer[j] <= emitted'
      BY <2>1, <3>3 DEF Order
    <3>6. value \in 1 .. MaxValues /\ value <= emitted' /\ emitted' \in 0 .. MaxValues
      BY <1>0, <2>1, <3>3
    <3>7. /\ Order' /\ Delivered' = Delivered \cup {value}
          /\ BatchNumbers' = BatchNumbers \cup {sequence + 1} /\ ~Preempted'
      BY <1>0, <2>2, <3>3, <3>4, <3>5, <3>6, HandOutKeepsOrder
    <3>8. ~Preempted /\ InSink = {value}
      BY <1>0, <2>1, <2>4, <3>1, NotPreempted, SinkTop
    <3>9. InSink' = {} /\ Pending' = Pending
      BY <2>1, <2>2 DEF InSink, NoneShifted, Pending
    <3>10. NothingVanishes' /\ NewestKept'
      BY <2>1, <2>2, <2>4, <3>7, <3>8, <3>9 DEF Accounts, NothingVanishes, NewestKept
    <3> QED
      BY <1>q, <2>1, <2>2, <2>4, <3>7, <3>10 DEF Accounts
  <2> QED
    BY <2>3, <2>4
<1>10. ASSUME NEW s \in 0 .. sequence + 1, Ack(s)
       PROVE  Order' /\ Accounts'
  <2>1. /\ UNCHANGED <<kind, closed, emitted, accepted, dropped>>
        /\ acked' = acked \cup ({s} \cap BatchNumbers)
    BY <1>10 DEF Ack
  <2>2. acked' \subseteq BatchNumbers
    BY <1>q, <2>1
  <2>3. CASE ~closed /\ ~concluded /\ s = inFlight
    <3>1. Flush(buffer, NoBatch, pendingTerminal, stack)
      BY <1>10, <2>3 DEF Ack
    <3>2. NoneShifted(stack)
      <4>1. inFlight # NoBatch
        BY <1>0, <2>3 DEF NoBatch
      <4>2. CASE stack = <<>>
        BY <4>2 DEF NoneShifted
      <4> QED
        BY <1>1, <4>1, <4>2
    <3> QED
      BY <1>0, <1>3, <2>1, <2>2, <2>3, <3>1, <3>2
  <2>4. CASE ~(~closed /\ ~concluded /\ s = inFlight)
    <3>1. UNCHANGED <<kind, buffer, concluded, accepted, dropped, out>> /\ UNCHANGED stack
      BY <1>10, <2>1, <2>4 DEF Ack
    <3>2. emitted' \in Nat /\ emitted <= emitted'
      BY <1>0, <2>1
    <3> QED
      BY <2>1, <2>2, <3>1, <3>2, QuietKeepsValues
  <2> QED
    BY <2>3, <2>4
<1>11. ASSUME NEW terminal \in SourceTerminals, End(terminal)
       PROVE  Order' /\ Accounts'
  <2>1. /\ Flush(buffer, inFlight, terminal, stack) /\ ~concluded /\ ~closed
        /\ UNCHANGED <<kind, emitted, accepted, dropped>> /\ acked' \subseteq BatchNumbers
        /\ NoneShifted(stack)
    BY <1>2, <1>11, <1>q DEF End, Accepting
  <2>2. terminal \in Terminals \cup {NoTerminal}
    BY DEF Terminals
  <2> QED
    BY <1>0, <1>3, <2>1, <2>2
<1>12. CASE Preempt
  <2>1. /\ UNCHANGED <<kind, stack, emitted, accepted, acked>> /\ buffer' = <<>>
        /\ out' = Append(out, Message("cancelled", sequence + 1, 0))
    BY <1>12 DEF Preempt
  <2>2. PICK message : message = Message("cancelled", sequence + 1, 0)
    OBVIOUS
  <2>3. message \in MessageSet /\ message.type = "cancelled" /\ message.value = 0
    BY <1>0, <2>2 DEF Message, MessageSet, Terminals
  <2>4. /\ Len(out') = Len(out) + 1 /\ Len(out) \in Nat
        /\ \A i \in 1 .. Len(out) : out'[i] = out[i]
        /\ out'[Len(out) + 1] = message
        /\ BatchNumbers' = BatchNumbers /\ Preempted'
    BY <2>1, <2>2, <2>3, MessageAppended
  <2>5. \A i \in 1 .. Len(out') : i \in 1 .. Len(out) \/ i = Len(out) + 1
    BY ONLY <2>4
  <2>6. \A i \in 1 .. Len(out') : out'[i].value <= emitted'
    <3>1. 0 <= emitted' /\ \A i \in 1 .. Len(out) : out[i].value <= emitted'
      BY <1>0, <2>1 DEF Order
    <3> QED
      BY ONLY <2>3, <2>4, <2>5, <3>1
  <2>7. /\ Len(buffer') = 0 /\ Rising(buffer)' /\ Younger(buffer)'
    BY <2>1 DEF Rising, Younger
  <2>8. ASSUME NEW k \in 1 .. Len(stack), stack[k].at = "shifted"
        PROVE  /\ stack[k].value \in 1 .. emitted
               /\ \A i \in 1 .. Len(out') : out'[i].value < stack[k].value
    <3>1. PICK value : value = stack[k].value
      OBVIOUS
    <3>2. value \in 1 .. emitted /\ \A i \in 1 .. Len(out) : out[i].value < value
      BY <2>8, <3>1 DEF Order
    <3>3. 0 < value
      BY <3>2
    <3> QED
      BY ONLY <2>3, <2>4, <2>5, <3>1, <3>2, <3>3
  <2>9. Order'
    BY <2>1, <2>6, <2>7, <2>8 DEF Order
  <2>10. NothingVanishes' /\ NewestKept'
    BY <2>4 DEF NothingVanishes, NewestKept
  <2> QED
    BY <1>q, <2>1, <2>4, <2>9, <2>10 DEF Accounts
<1>13. CASE Close
  <2>1. /\ UNCHANGED <<kind, buffer, concluded, accepted, dropped, out>>
        /\ UNCHANGED <<stack, emitted, acked>> /\ closed'
    BY <1>13 DEF Close
  <2>2. emitted' \in Nat /\ emitted <= emitted' /\ acked' \subseteq BatchNumbers
    BY <1>0, <1>q, <2>1
  <2> QED
    BY <2>1, <2>2, QuietKeepsValues
<1>14. CASE UNCHANGED vars
  <2>1. /\ UNCHANGED <<kind, buffer, concluded, accepted, dropped, out>>
        /\ UNCHANGED <<closed, stack, emitted, acked>>
    BY <1>14 DEF vars, windowVars
  <2>2. emitted' \in Nat /\ emitted <= emitted' /\ acked' \subseteq BatchNumbers
    BY <1>0, <1>q, <2>1
  <2> QED
    BY <2>1, <2>2, QuietKeepsValues
<1> QED
  BY <1>4, <1>5, <1>6, <1>7, <1>8, <1>9, <1>10, <1>11, <1>12, <1>13, <1>14
  DEF Next, Return

LEMMA OrderCorrect == QuietSink /\ Spec => [](Order /\ Accounts)
<1> SUFFICES ASSUME QuietSink PROVE Spec => [](Order /\ Accounts)
  OBVIOUS
<1>1. Init => Order /\ Accounts
  <2> SUFFICES ASSUME Init PROVE Order /\ Accounts
    OBVIOUS
  <2>1. /\ buffer = <<>> /\ stack = <<>> /\ emitted = 0 /\ accepted = {} /\ acked = {}
        /\ dropped = {} /\ Len(out) = 1
        /\ out[1].type = "subscribed" /\ out[1].value = 0 /\ concluded = FALSE
    BY DEF Init, Message
  <2>2. \A i \in 1 .. Len(out) : i = 1
    BY <2>1
  <2>3. Order
    BY <2>1, <2>2 DEF Order, Rising, Younger
  <2>4. Delivered = {} /\ Pending = {} /\ InSink = {}
    BY <2>1, <2>2 DEF Delivered, Pending, InSink
  <2> QED
    BY <2>1, <2>3, <2>4 DEF Accounts, NothingVanishes, NewestKept
<1>2. TypeOK /\ TypeOK' /\ Numbered /\ Gate /\ Order /\ Accounts /\ [Next]_vars
        => (Order /\ Accounts)'
  BY StepKeepsValues
<1>3. Spec => []TypeOK
  BY TypeCorrect
<1> QED
  BY <1>1, <1>2, <1>3, NumberedCorrect, GateCorrect, PTL DEF Spec

\* Until a close or a preemption every value pushed into an Event buffer is delivered,
\* pending, in the sink or given up by the overflow policy, and the newest value of a
\* State is delivered or pending, whatever acks, closes and preemptions the sink makes.
THEOREM ValuesKeptCorrect == QuietSink /\ Spec => []ValuesKept
<1>1. Accounts => ValuesKept
  BY DEF Accounts, ValuesKept
<1> QED
  BY <1>1, OrderCorrect, PTL

-----------------------------------------------------------------------------
(***************************************************************************)
(* The refinement of AckedStream.  Every step hands nothing out, and then  *)
(* at most an acknowledgement is seen; or it hands out the next message.   *)
(***************************************************************************)

\* A batch handed out with every batch before it acknowledged.
LEMMA HandOutDelivers ==
  ASSUME TypeOK, Numbered, ~closed, ~concluded, UNCHANGED <<closed, concluded>>,
         NEW value \in 1 .. MaxValues,
         \A i \in 1 .. Len(out) : out[i].value < value,
         HandOutBatch(value), acked \subseteq acked', acked' = BatchNumbers
  PROVE  Promise!Deliver
<1>1. Len(out) = sequence + 1
  BY DEF Numbered
<1>2. out' = Append(out, Promise!Message("batch", Len(out), value))
  BY <1>1 DEF HandOutBatch, Message, Promise!Message
<1>3. acked' = Promise!Batches(out)
  BY DEF BatchNumbers, Promise!Batches
<1> QED
  BY <1>2, <1>3 DEF Promise!Deliver

\* flush() hands out the next message of the stream, or none.
LEMMA FlushImplements ==
  ASSUME TypeOK, Numbered, ~closed, ~concluded, UNCHANGED closed,
         NEW values \in Seq(1 .. MaxValues), Younger(values),
         NEW gate, NEW terminal \in Terminals \cup {NoTerminal}, NEW below,
         acked \subseteq acked', gate = NoBatch => acked' = BatchNumbers,
         Flush(values, gate, terminal, below)
  PROVE  Promise!Deliver \/ Promise!Finish \/ UNCHANGED <<out, concluded>>
<1>1. Len(out) = sequence + 1
  BY DEF Numbered
<1>2. CASE gate = NoBatch /\ values # <<>> /\ HandOutBatch(Head(values)) /\ UNCHANGED concluded
  <2>1. PICK value : value = Head(values)
    OBVIOUS
  <2>2. value \in 1 .. MaxValues /\ \A i \in 1 .. Len(out) : out[i].value < value
    <3>1. values # <<>>
      BY <1>2
    <3>2. Len(values) \in Nat \ {0}
      BY ONLY <3>1, EmptySeq
    <3>3. Head(values) = values[1] /\ Head(values) \in 1 .. MaxValues
      BY ONLY <3>1, QueueParts
    <3>4. 1 \in 1 .. Len(values)
      BY <3>2
    <3> QED
      BY <2>1, <3>3, <3>4 DEF Younger
  <2>3. HandOutBatch(value)
    BY <1>2, <2>1
  <2> QED
    BY <1>2, <2>2, <2>3, HandOutDelivers
<1>3. CASE /\ gate = NoBatch /\ terminal # NoTerminal /\ concluded' = TRUE
           /\ out' = Append(out, Message(terminal, sequence + 1, 0))
  <2>1. out' = Append(out, Promise!Message(terminal, Len(out), 0))
    BY <1>1, <1>3 DEF Message, Promise!Message
  <2>2. acked' = Promise!Batches(out)
    BY <1>3 DEF BatchNumbers, Promise!Batches
  <2>3. terminal \in Promise!Terminals
    BY <1>3 DEF Terminals, SourceTerminals, Promise!Terminals
  <2> QED
    BY <1>3, <2>1, <2>2, <2>3 DEF Promise!Finish
<1>4. CASE UNCHANGED <<concluded, out>>
  BY <1>4
<1> QED
  BY <1>2, <1>3, <1>4 DEF Flush

\* A step that hands nothing out.
LEMMA AckImplements ==
  ASSUME UNCHANGED <<out, concluded, closed>>,
         NEW s, acked' = acked \/ acked' = acked \cup ({s} \cap BatchNumbers)
  PROVE  Promise!Acknowledge \/ UNCHANGED Promise!streamVars
<1>1. BatchNumbers = Promise!Batches(out)
  BY DEF BatchNumbers, Promise!Batches
<1>2. CASE acked' = acked
  BY <1>2 DEF Promise!streamVars
<1>3. CASE acked' # acked
  <2>1. s \in Promise!Batches(out) \ acked /\ acked' = acked \cup {s}
    BY <1>1, <1>3
  <2> QED
    BY <2>1 DEF Promise!Acknowledge
<1> QED
  BY <1>2, <1>3

LEMMA StepImplements ==
  ASSUME TypeOK, Numbered, Gate, Order, Accounts, [Next]_vars
  PROVE  [Promise!Next]_(Promise!streamVars)
<1>0. /\ MaxValues \in Nat /\ sequence \in Nat
      /\ buffer \in Seq(1 .. MaxValues) /\ Younger(buffer)
      /\ emitted \in 0 .. MaxValues
      /\ pendingTerminal \in Terminals \cup {NoTerminal}
      /\ stack \in Seq(FrameSet)
      /\ ShiftedAlone /\ GateHeld
      /\ acked \subseteq BatchNumbers
  BY BoundsAssumption DEF TypeOK, FrameSet, Gate, Order, Accounts
\* When the gate is open everything handed out was acknowledged.
<1>g. ASSUME inFlight = NoBatch, ~concluded
      PROVE  acked = BatchNumbers
  <2>1. \A i \in 1 .. Len(out) : out[i].sequence # NoBatch
    BY DEF Numbered, Gapless, NoBatch
  <2>2. \A i \in 1 .. Len(out) : ~Unacked(i)
    BY <1>0, <1>g, <2>1 DEF GateHeld
  <2> QED
    BY <1>0, <2>2 DEF Unacked, BatchNumbers
<1>s. ASSUME UNCHANGED <<out, concluded, closed, acked>>
      PROVE  UNCHANGED Promise!streamVars
  BY <1>s DEF Promise!streamVars
\* flush() through the gate as it is.
<1>f. ASSUME ~closed, ~concluded, UNCHANGED <<closed, acked>>,
             NEW values \in Seq(1 .. MaxValues), Younger(values),
             NEW terminal \in Terminals \cup {NoTerminal}, NEW below,
             Flush(values, inFlight, terminal, below)
      PROVE  Promise!Next \/ UNCHANGED Promise!streamVars
  <2>1. acked \subseteq acked' /\ (inFlight = NoBatch => acked' = BatchNumbers)
    BY <1>f, <1>g
  <2>2. Promise!Deliver \/ Promise!Finish \/ UNCHANGED <<out, concluded>>
    BY <1>f, <2>1, FlushImplements
  <2> QED
    BY <1>f, <1>s, <2>2 DEF Promise!Next
<1>1. CASE AcceptState
  <2>1. PICK values : values = <<emitted + 1>>
    OBVIOUS
  <2>2. /\ emitted + 1 \in 1 .. MaxValues /\ ~concluded /\ ~closed
        /\ UNCHANGED <<closed, acked>>
        /\ Flush(values, inFlight, pendingTerminal, stack)
    BY <1>0, <1>1, <2>1 DEF AcceptState, Accepting
  <2>3. values \in Seq(1 .. MaxValues) /\ Len(values) = 1 /\ values[1] = emitted + 1
    BY <2>1, <2>2
  <2>4. Younger(values)
    <3>1. \A i \in 1 .. Len(out) : out[i].value <= emitted /\ out[i].value \in 0 .. MaxValues
      BY MessageValues DEF Order
    <3>2. \A i \in 1 .. Len(out) : out[i].value < emitted + 1
      BY <1>0, <3>1
    <3>3. \A j \in 1 .. Len(values) : j = 1
      BY <2>3
    <3> QED
      BY <2>3, <3>2, <3>3 DEF Younger
  <2> QED
    BY <1>0, <1>f, <2>2, <2>3, <2>4
<1>2. CASE AcceptEvent
  BY <1>2, <1>s DEF AcceptEvent
<1>3. CASE AcceptIgnored
  BY <1>3, <1>s DEF AcceptIgnored, windowVars
<1>4. CASE ReturnDropped
  BY <1>4, <1>s DEF ReturnDropped
<1>5. CASE ReturnPushed
  <2>1. CASE closed \/ concluded
    BY <1>5, <1>s, <2>1 DEF ReturnPushed
  <2>2. CASE ~(closed \/ concluded)
    <3>1. PICK terminal : terminal = IF Top.overflows /\ pendingTerminal = NoTerminal
                                     THEN "overflow" ELSE pendingTerminal
      OBVIOUS
    <3>2. terminal \in Terminals \cup {NoTerminal}
      BY <1>0, <3>1 DEF Terminals
    <3>3. Flush(buffer, inFlight, terminal, Rest) /\ UNCHANGED <<closed, acked>>
      BY <1>5, <2>2, <3>1 DEF ReturnPushed
    <3> QED
      BY <1>0, <1>f, <2>2, <3>2, <3>3
  <2> QED
    BY <2>1, <2>2
<1>6. CASE ReturnShifted
  <2>1. CASE closed \/ concluded
    BY <1>6, <1>s, <2>1 DEF ReturnShifted
  <2>2. CASE ~(closed \/ concluded)
    <3>1. PICK value : value = Top.value
      OBVIOUS
    <3>2. /\ stack # <<>> /\ Top.at = "shifted" /\ HandOutBatch(value)
          /\ UNCHANGED <<closed, concluded, acked>>
      BY <1>6, <2>2, <3>1 DEF ReturnShifted
    <3>3. Len(stack) \in 1 .. Len(stack)
      BY <1>0, <3>2, StackParts
    <3>4. inFlight = NoBatch
      BY <1>0, <3>2, <3>3 DEF ShiftedAlone, Top
    <3>5. value \in 1 .. emitted /\ \A i \in 1 .. Len(out) : out[i].value < value
      BY <3>1, <3>2, <3>3 DEF Order, Top
    <3>6. value \in 1 .. MaxValues /\ acked' = BatchNumbers /\ acked \subseteq acked'
      BY <1>0, <1>g, <2>2, <3>2, <3>4, <3>5
    <3>7. Promise!Deliver
      BY <2>2, <3>2, <3>5, <3>6, HandOutDelivers
    <3> QED
      BY <3>7 DEF Promise!Next
  <2> QED
    BY <2>1, <2>2
<1>7. ASSUME NEW s \in 0 .. sequence + 1, Ack(s)
      PROVE  Promise!Next \/ UNCHANGED Promise!streamVars
  <2>1. acked' = acked \cup ({s} \cap BatchNumbers) /\ UNCHANGED closed
    BY <1>7 DEF Ack
  <2>2. ASSUME UNCHANGED <<out, concluded>>
        PROVE  Promise!Next \/ UNCHANGED Promise!streamVars
    BY <2>1, <2>2, AckImplements DEF Promise!Next
  <2>3. CASE ~closed /\ ~concluded /\ s = inFlight
    <3>1. Flush(buffer, NoBatch, pendingTerminal, stack)
      BY <1>7, <2>3 DEF Ack
    <3>2. \A n \in BatchNumbers : n \in acked'
      <4>1. ASSUME NEW n \in BatchNumbers, n \notin acked
            PROVE  n = s
        <5>1. PICK i \in 1 .. Len(out) : out[i].type = "batch" /\ out[i].sequence = n
          BY <4>1 DEF BatchNumbers
        <5> QED
          BY <1>0, <2>3, <4>1, <5>1 DEF GateHeld, Unacked
      <4> QED
        BY <2>1, <4>1
    <3>3. acked' = BatchNumbers /\ acked \subseteq acked'
      BY <1>0, <2>1, <3>2
    <3>4. Promise!Deliver \/ Promise!Finish \/ UNCHANGED <<out, concluded>>
      BY <1>0, <2>1, <2>3, <3>1, <3>3, FlushImplements
    <3> QED
      BY <2>2, <3>4 DEF Promise!Next
  <2>4. CASE ~(~closed /\ ~concluded /\ s = inFlight)
    BY <1>7, <2>2, <2>4 DEF Ack
  <2> QED
    BY <2>3, <2>4
<1>8. ASSUME NEW terminal \in SourceTerminals, End(terminal)
      PROVE  Promise!Next \/ UNCHANGED Promise!streamVars
  <2>1. /\ Flush(buffer, inFlight, terminal, stack) /\ ~concluded /\ ~closed
        /\ UNCHANGED <<closed, acked>>
    BY <1>8 DEF End, Accepting
  <2>2. terminal \in Terminals \cup {NoTerminal}
    BY DEF Terminals
  <2> QED
    BY <1>0, <1>f, <2>1, <2>2
<1>9. CASE Preempt
  <2>1. /\ out' = Append(out, Message("cancelled", sequence + 1, 0))
        /\ ~concluded /\ ~closed /\ concluded' = TRUE /\ UNCHANGED acked
    BY <1>9 DEF Preempt
  <2>2. out' = Append(out, Promise!Message("cancelled", Len(out), 0))
    BY <2>1 DEF Numbered, Message, Promise!Message
  <2> QED
    BY <2>1, <2>2 DEF Promise!Preempt, Promise!Next
<1>10. CASE Close
  BY <1>10 DEF Close, Promise!Close, Promise!Next
<1>11. CASE UNCHANGED vars
  BY <1>11, <1>s DEF vars, windowVars
<1> QED
  BY <1>1, <1>2, <1>3, <1>4, <1>5, <1>6, <1>7, <1>8, <1>9, <1>10, <1>11
  DEF Next, Return

\* The window is the stream the Renderer is promised: values in order, numbered without
\* gaps, each after the acknowledgement of those before, and nothing after a terminal,
\* whatever acks, closes and preemptions the sink makes.
THEOREM WindowImplementsStream == QuietSink /\ Spec => ImplementsAckedStream
<1> SUFFICES ASSUME QuietSink PROVE Spec => ImplementsAckedStream
  OBVIOUS
<1>1. Init => Promise!Init
  BY DEF Init, Message, Promise!Init, Promise!Message
<1>2. TypeOK /\ Numbered /\ Gate /\ Order /\ Accounts /\ [Next]_vars
        => [Promise!Next]_(Promise!streamVars)
  BY StepImplements
<1> QED
  BY <1>1, <1>2, TypeCorrect, NumberedCorrect, GateCorrect, OrderCorrect, PTL
  DEF Spec, ImplementsAckedStream, Promise!Spec

-----------------------------------------------------------------------------
(* The ring: wrapping *)

\* An index that goes past the last slot comes back once.
LEMMA Wrapped ==
  ASSUME NEW h \in Slots, NEW n \in 0 .. Capacity
  PROVE  (h + n) % Capacity = IF h + n < Capacity THEN h + n ELSE h + n - Capacity
<1> USE CapacityAssumption DEF Slots
<1>1. CASE h + n < Capacity
  BY <1>1
<1>2. CASE h + n >= Capacity
  BY <1>2
<1> QED
  BY <1>1, <1>2

\* How far a slot is behind another one.
LEMMA Distance ==
  ASSUME NEW h \in Slots, NEW s \in Slots
  PROVE  (s - h) % Capacity = IF h <= s THEN s - h ELSE s - h + Capacity
<1> USE CapacityAssumption DEF Slots
<1>1. CASE h <= s
  BY <1>1
<1>2. CASE h > s
  BY <1>2
<1> QED
  BY <1>1, <1>2

\* The slot at a distance, and the distance of a slot.
LEMMA SlotAtDistance ==
  ASSUME NEW h \in Slots, NEW n \in 0 .. Capacity - 1
  PROVE  /\ (h + n) % Capacity \in Slots
         /\ (((h + n) % Capacity) - h) % Capacity = n
<1> USE CapacityAssumption
<1>1. (h + n) % Capacity = IF h + n < Capacity THEN h + n ELSE h + n - Capacity
  BY Wrapped
<1>2. (h + n) % Capacity \in Slots
  BY <1>1 DEF Slots
<1> DEFINE s == (h + n) % Capacity
<1> HIDE DEF s
<1>3. s \in Slots /\ s = IF h + n < Capacity THEN h + n ELSE h + n - Capacity
  BY <1>1, <1>2 DEF s
<1>4. (s - h) % Capacity = IF h <= s THEN s - h ELSE s - h + Capacity
  BY <1>3, Distance
<1>5. (s - h) % Capacity = n
  BY <1>3, <1>4 DEF Slots
<1> QED
  BY <1>2, <1>5 DEF s

\* A step of the head brings every slot but the head one nearer.
LEMMA HeadMoved ==
  ASSUME NEW h \in Slots, NEW s \in Slots
  PROVE  /\ (h + 1) % Capacity \in Slots
         /\ (s - ((h + 1) % Capacity)) % Capacity =
              IF s = h THEN Capacity - 1 ELSE ((s - h) % Capacity) - 1
<1> USE CapacityAssumption
<1> DEFINE g == (h + 1) % Capacity
<1>1. g = IF h + 1 < Capacity THEN h + 1 ELSE h + 1 - Capacity
  BY Wrapped
<1> HIDE DEF g
<1>2. g \in Slots
  BY <1>1 DEF Slots
<1>3. (s - g) % Capacity = IF g <= s THEN s - g ELSE s - g + Capacity
  BY <1>2, Distance
<1>4. (s - h) % Capacity = IF h <= s THEN s - h ELSE s - h + Capacity
  BY Distance
<1>5. (s - g) % Capacity = IF s = h THEN Capacity - 1 ELSE ((s - h) % Capacity) - 1
  BY <1>1, <1>3, <1>4 DEF Slots
<1> QED
  BY <1>2, <1>5 DEF g

\* How far a slot is behind the head is the number of a slot.
LEMMA DistanceType ==
  ASSUME NEW h \in Slots, NEW s \in Slots
  PROVE  (s - h) % Capacity \in 0 .. Capacity - 1
<1>1. (s - h) % Capacity = IF h <= s THEN s - h ELSE s - h + Capacity
  BY Distance
<1> QED
  BY <1>1, CapacityAssumption DEF Slots

\* No two slots are at the same distance.
LEMMA SlotOfDistance ==
  ASSUME NEW h \in Slots, NEW s \in Slots, NEW n \in 0 .. Capacity - 1,
         (s - h) % Capacity = n
  PROVE  s = (h + n) % Capacity
<1> USE CapacityAssumption
<1>1. (s - h) % Capacity = IF h <= s THEN s - h ELSE s - h + Capacity
  BY Distance
<1>2. (h + n) % Capacity = IF h + n < Capacity THEN h + n ELSE h + n - Capacity
  BY Wrapped
<1> QED
  BY <1>1, <1>2 DEF Slots

-----------------------------------------------------------------------------
(* The ring *)

\* The empty ring is in order.
LEMMA RingInit == QueueInit => IndicesAndSlots
<1> SUFFICES ASSUME QueueInit PROVE IndicesAndSlots
  OBVIOUS
<1> USE CapacityAssumption, QueueBoundAssumption DEF QueueInit
<1>1. QueueTypeOK
  BY DEF QueueTypeOK, Slots, NoValue, Result
<1>2. NoRetention
  <2> SUFFICES ASSUME NEW s \in Slots
               PROVE  ~(items[s] # NoValue) /\ ~((s - head) % Capacity < length)
    BY DEF NoRetention
  <2>1. (s - head) % Capacity \in 0 .. Capacity - 1
    BY DistanceType DEF Slots
  <2> QED
    BY <2>1
<1> QED
  BY <1>1, <1>2 DEF IndicesAndSlots

\* push() with room: the slot behind the youngest value was free, and is the only one
\* that changes.
LEMMA RingPushStored ==
  ASSUME IndicesAndSlots, Push, PushStored
  PROVE  IndicesAndSlots'
<1> USE CapacityAssumption, QueueBoundAssumption
<1>1. QueueTypeOK /\ NoRetention
  BY DEF IndicesAndSlots
<1>2. /\ length \in 0 .. Capacity - 1 /\ head \in Slots
      /\ items' = [items EXCEPT ![TailSlot] = pushed + 1]
      /\ length' = length + 1 /\ head' = head
      /\ pushed \in Nat /\ pushed < MaxPushed /\ pushed' = pushed + 1
  BY <1>1 DEF QueueTypeOK, Push, PushStored, HasRoom
<1>3. TailSlot \in Slots /\ (TailSlot - head) % Capacity = length
  BY <1>2, SlotAtDistance DEF TailSlot
<1>4. QueueTypeOK'
  BY <1>1, <1>2, <1>3 DEF QueueTypeOK, Push, PushStored, Result, NoValue
<1>5. ASSUME NEW s \in Slots
      PROVE  (items'[s] # NoValue) <=> ((s - head) % Capacity < length + 1)
  <2>1. (s - head) % Capacity \in 0 .. Capacity - 1
    BY <1>2, DistanceType
  <2>2. CASE s = TailSlot
    BY <1>1, <1>2, <1>3, <2>2 DEF QueueTypeOK, NoValue
  <2>3. CASE s # TailSlot
    <3>1. (s - head) % Capacity # length
      BY <1>2, <2>3, SlotOfDistance DEF TailSlot
    <3>2. items'[s] = items[s]
      BY <1>1, <1>2, <2>3 DEF QueueTypeOK
    <3>3. (items[s] # NoValue) <=> ((s - head) % Capacity < length)
      BY <1>1 DEF NoRetention
    <3> QED
      BY <1>2, <2>1, <3>1, <3>2, <3>3
  <2> QED
    BY <2>2, <2>3
<1>6. NoRetention'
  BY <1>2, <1>5 DEF NoRetention
<1> QED
  BY <1>4, <1>6 DEF IndicesAndSlots

\* push() without room: every slot is taken, and stays so.
LEMMA RingPushFull ==
  ASSUME IndicesAndSlots, Push, PushFull
  PROVE  IndicesAndSlots'
<1> USE CapacityAssumption, QueueBoundAssumption
<1>1. QueueTypeOK /\ NoRetention
  BY DEF IndicesAndSlots
<1>2. /\ length = Capacity /\ length' = Capacity /\ head \in Slots
      /\ pushed \in Nat /\ pushed < MaxPushed /\ pushed' = pushed + 1
  BY <1>1 DEF QueueTypeOK, Push, PushFull, HasRoom
<1>3. (head + 1) % Capacity \in Slots
  BY <1>2, HeadMoved
<1>4. QueueTypeOK'
  BY <1>1, <1>2, <1>3 DEF QueueTypeOK, Push, PushFull, Result, NoValue
<1>5. ASSUME NEW s \in Slots
      PROVE  items'[s] # NoValue /\ (s - head') % Capacity < Capacity
  <2>1. (s - head) % Capacity \in 0 .. Capacity - 1
    BY <1>2, DistanceType
  <2>2. items[s] # NoValue
    BY <1>1, <1>2, <2>1 DEF NoRetention
  <2>3. items'[s] # NoValue
    BY <1>1, <1>2, <2>2 DEF QueueTypeOK, PushFull, NoValue
  <2>4. (s - head') % Capacity \in 0 .. Capacity - 1
    BY <1>4, DistanceType DEF QueueTypeOK
  <2> QED
    BY <2>3, <2>4
<1>6. NoRetention'
  BY <1>2, <1>5 DEF NoRetention
<1> QED
  BY <1>4, <1>6 DEF IndicesAndSlots

\* shift(): the slot that is emptied is the one that leaves the occupied arc.
LEMMA RingShiftOldest ==
  ASSUME IndicesAndSlots, ShiftOldest
  PROVE  IndicesAndSlots'
<1> USE CapacityAssumption, QueueBoundAssumption
<1>1. QueueTypeOK /\ NoRetention
  BY DEF IndicesAndSlots
<1>2. /\ length \in 1 .. Capacity /\ length' = length - 1 /\ head \in Slots
      /\ head' = (head + 1) % Capacity
      /\ items' = [items EXCEPT ![head] = NoValue]
  BY <1>1 DEF QueueTypeOK, ShiftOldest, HeadCleared
<1>3. head' \in Slots
  BY <1>2, HeadMoved
<1>4. QueueTypeOK'
  BY <1>1, <1>2, <1>3 DEF QueueTypeOK, ShiftOldest, Result, NoValue
<1>5. ASSUME NEW s \in Slots
      PROVE  (items'[s] # NoValue) <=> ((s - head') % Capacity < length - 1)
  <2>1. (s - head') % Capacity = IF s = head THEN Capacity - 1
                                ELSE ((s - head) % Capacity) - 1
    BY <1>2, HeadMoved
  <2>2. (s - head) % Capacity \in 0 .. Capacity - 1
    BY <1>2, DistanceType
  <2>3. (items[s] # NoValue) <=> ((s - head) % Capacity < length)
    BY <1>1 DEF NoRetention
  <2>4. items'[s] = IF s = head THEN NoValue ELSE items[s]
    BY <1>1, <1>2 DEF QueueTypeOK
  <2> QED
    BY <1>2, <2>1, <2>2, <2>3, <2>4
<1>6. NoRetention'
  BY <1>2, <1>5 DEF NoRetention
<1> QED
  BY <1>4, <1>6 DEF IndicesAndSlots

\* Every call of the queue keeps it so.
LEMMA RingStep == IndicesAndSlots /\ [QueueNext]_queueVars => IndicesAndSlots'
<1> SUFFICES ASSUME IndicesAndSlots, [QueueNext]_queueVars PROVE IndicesAndSlots'
  OBVIOUS
<1>1. CASE Push
  BY <1>1, RingPushStored, RingPushFull DEF Push
<1>2. CASE ShiftEmpty
  BY <1>2, QueueBoundAssumption
     DEF IndicesAndSlots, QueueTypeOK, NoRetention, ShiftEmpty, Result, NoValue
<1>3. CASE ShiftOldest
  BY <1>3, RingShiftOldest
<1>4. CASE UNCHANGED queueVars
  BY <1>4 DEF IndicesAndSlots, QueueTypeOK, NoRetention, queueVars
<1> QED
  BY <1>1, <1>2, <1>3, <1>4 DEF QueueNext

\* The ring holds its values in the slots from its head on, and nothing in any other
\* slot, for every capacity: both indices stay in range through every wrap, and no
\* reference is kept to a value that was given away.
THEOREM RingCorrect == QueueSpec => []IndicesAndSlots
<1>1. QueueInit => IndicesAndSlots
  BY RingInit
<1>2. IndicesAndSlots /\ [QueueNext]_queueVars => IndicesAndSlots'
  BY RingStep
<1> QED
  BY <1>1, <1>2, PTL DEF QueueSpec

-----------------------------------------------------------------------------
(* The ring as a FIFO *)

\* What is read from slots x, n of them from h on; Contents is such a reading.
Reading(x, h, n) == [i \in 1 .. n |-> x[(h + i - 1) % Capacity]]

\* Slots x and y agree everywhere but at t.
AgreeBut(x, y, t) == \A s \in Slots : s # t => y[s] = x[s]

\* A reading is a sequence of n values.
LEMMA ReadingParts ==
  ASSUME NEW S, NEW x \in [Slots -> S], NEW h \in Slots, NEW n \in 0 .. Capacity
  PROVE  /\ Reading(x, h, n) \in Seq(S)
         /\ Len(Reading(x, h, n)) = n
<1> USE CapacityAssumption
<1>1. ASSUME NEW i \in 1 .. n
      PROVE  (h + (i - 1)) % Capacity \in Slots /\ h + (i - 1) = h + i - 1
  <2>1. i - 1 \in 0 .. Capacity - 1
    OBVIOUS
  <2>2. (h + (i - 1)) % Capacity \in Slots
    BY <2>1, SlotAtDistance
  <2>3. h + (i - 1) = h + i - 1
    BY DEF Slots
  <2> QED
    BY <2>2, <2>3
<1>2. Reading(x, h, n) = [i \in 1 .. n |-> x[(h + (i - 1)) % Capacity]]
  BY <1>1, Zenon DEF Reading
<1>3. \A i \in 1 .. n : x[(h + (i - 1)) % Capacity] \in S
  BY <1>1
<1>4. Reading(x, h, n) \in [1 .. n -> S]
  BY <1>2, <1>3
<1> QED
  BY <1>4

\* The value at a place of the reading is the one in the slot at that distance.
LEMMA ReadingAt ==
  ASSUME NEW x, NEW h \in Slots, NEW n \in 0 .. Capacity, NEW m \in 0 .. n - 1
  PROVE  Reading(x, h, n)[m + 1] = x[(h + m) % Capacity]
<1> USE CapacityAssumption
<1>1. m + 1 \in 1 .. n /\ h + (m + 1) - 1 = h + m
  BY DEF Slots
<1> QED
  BY <1>1, Zenon DEF Reading

\* y is x with v in t, the slot behind n values from h on.
StoresBehind(S, x, y, h, n, v, t, k) ==
  /\ x \in [Slots -> S] /\ y \in [Slots -> S] /\ v \in S
  /\ h \in Slots /\ n \in 0 .. Capacity - 1 /\ k = n + 1
  /\ t = (h + n) % Capacity /\ y[t] = v /\ AgreeBut(x, y, t)

\* What push() with room does to the reading: the value comes at the end.
LEMMA ReadingAppended ==
  ASSUME NEW S, NEW x, NEW y, NEW h, NEW n, NEW v, NEW t, NEW k,
         StoresBehind(S, x, y, h, n, v, t, k)
  PROVE  Reading(y, h, k) = Append(Reading(x, h, n), v)
<1> DEFINE q == Reading(x, h, n)
           r == Reading(y, h, k)
<1>0. /\ x \in [Slots -> S] /\ y \in [Slots -> S] /\ v \in S
      /\ h \in Slots /\ n \in 0 .. Capacity - 1 /\ k = n + 1
      /\ t = (h + n) % Capacity /\ y[t] = v /\ AgreeBut(x, y, t)
  BY DEF StoresBehind
<1>1. t \in Slots /\ (t - h) % Capacity = n
  BY <1>0, SlotAtDistance
<1>2. n \in 0 .. Capacity /\ n + 1 \in 0 .. Capacity
  BY <1>0, CapacityAssumption
<1>3. q \in Seq(S) /\ Len(q) = n
  BY <1>0, <1>2, ReadingParts
<1>4. r \in Seq(S) /\ Len(r) = n + 1
  BY <1>0, <1>2, ReadingParts
<1>5. r[n + 1] = v
  <2>1. n \in 0 .. (n + 1) - 1
    BY <1>0, CapacityAssumption
  <2>2. r[n + 1] = y[t]
    BY <1>0, <1>2, <2>1, ReadingAt
  <2> QED
    BY <1>0, <1>1, <2>2
<1>6. ASSUME NEW m \in 0 .. n - 1
      PROVE  r[m + 1] = q[m + 1]
  <2>1. m \in 0 .. Capacity - 1 /\ m # n /\ m \in 0 .. (n + 1) - 1
    BY <1>0, CapacityAssumption
  <2>2. (h + m) % Capacity \in Slots /\ (((h + m) % Capacity) - h) % Capacity = m
    BY <1>0, <2>1, SlotAtDistance
  <2>3. (h + m) % Capacity # t
    BY <1>0, <1>1, <2>1, <2>2
  <2>4. r[m + 1] = y[(h + m) % Capacity]
    BY <1>0, <1>2, <2>1, ReadingAt
  <2>5. q[m + 1] = x[(h + m) % Capacity]
    BY <1>0, <1>2, ReadingAt
  <2>6. y[(h + m) % Capacity] = x[(h + m) % Capacity]
    BY <1>0, <2>2, <2>3 DEF AgreeBut
  <2> QED
    BY <1>0, <2>4, <2>5, <2>6
<1> HIDE DEF q, r
<1>7. r = Append(q, v)
  <2>1. /\ Append(q, v) \in Seq(S) /\ Len(Append(q, v)) = n + 1
        /\ Append(q, v)[n + 1] = v
        /\ \A i \in 1 .. n : Append(q, v)[i] = q[i]
    BY <1>0, <1>3
  <2>2. ASSUME NEW i \in 1 .. n + 1
        PROVE  r[i] = Append(q, v)[i]
    <3>1. CASE i = n + 1
      BY <1>0, <1>5, <2>1, <3>1
    <3>2. CASE i \in 1 .. n
      <4>1. i - 1 \in 0 .. n - 1 /\ (i - 1) + 1 = i
        BY <1>0, <3>2
      <4>2. r[(i - 1) + 1] = q[(i - 1) + 1]
        BY <1>0, <4>1, <1>6
      <4> QED
        BY <1>0, <2>1, <3>2, <4>1, <4>2
    <3>3. i = n + 1 \/ i \in 1 .. n
      BY <1>0, CapacityAssumption
    <3> QED
      BY <1>0, <3>1, <3>2, <3>3, Zenon
  <2> QED
    BY <1>0, <1>4, <2>1, <2>2, SeqEqual
<1> QED
  BY <1>7 DEF q, r

\* y is x but for slot h, the first of n values; the others are read from g on.
LeavesOut(S, x, y, h, n, g, k) ==
  /\ x \in [Slots -> S] /\ y \in [Slots -> S] /\ AgreeBut(x, y, h)
  /\ h \in Slots /\ n \in 1 .. Capacity /\ k = n - 1
  /\ g = (h + 1) % Capacity

\* What shift() does to it: the first value goes.  The head slot is free for any value.
LEMMA ReadingShifted ==
  ASSUME NEW S, NEW x, NEW y, NEW h, NEW n, NEW g, NEW k,
         LeavesOut(S, x, y, h, n, g, k)
  PROVE  /\ Reading(x, h, n) \in Seq(S) /\ Reading(x, h, n) # <<>>
         /\ Head(Reading(x, h, n)) = x[h]
         /\ Reading(y, g, k) = Tail(Reading(x, h, n))
<1> DEFINE q == Reading(x, h, n)
           r == Reading(y, g, k)
<1>0. /\ x \in [Slots -> S] /\ y \in [Slots -> S] /\ AgreeBut(x, y, h)
      /\ h \in Slots /\ n \in 1 .. Capacity /\ k = n - 1
      /\ g = (h + 1) % Capacity
  BY DEF LeavesOut
<1>1. g \in Slots
  BY <1>0, HeadMoved
<1>2. n - 1 \in 0 .. Capacity /\ n \in 0 .. Capacity
  BY <1>0, CapacityAssumption
<1>3. q \in Seq(S) /\ Len(q) = n
  BY <1>0, <1>2, ReadingParts
<1>4. r \in Seq(S) /\ Len(r) = n - 1
  BY <1>0, <1>1, <1>2, ReadingParts
<1>5. q[1] = x[h]
  <2>1. 0 \in 0 .. n - 1 /\ 0 + 1 = 1 /\ 0 \in 0 .. Capacity
    BY <1>0, CapacityAssumption
  <2>2. (h + 0) % Capacity = h
    <3>1. (h + 0) % Capacity = IF h + 0 < Capacity THEN h + 0 ELSE h + 0 - Capacity
      BY <1>0, <2>1, Wrapped
    <3> QED
      BY <1>0, <3>1, CapacityAssumption DEF Slots
  <2>3. q[0 + 1] = x[(h + 0) % Capacity]
    BY <1>0, <1>2, <2>1, ReadingAt
  <2> QED
    BY <1>0, <2>1, <2>2, <2>3
<1>6. ASSUME NEW m \in 0 .. n - 2
      PROVE  r[m + 1] = q[(m + 1) + 1]
  <2>1. /\ m + 1 \in 0 .. n - 1 /\ m + 1 \in 0 .. Capacity - 1 /\ m \in 0 .. (n - 1) - 1
        /\ m \in 0 .. Capacity /\ 1 \in 0 .. Capacity /\ m + 1 \in 0 .. Capacity
    BY <1>0, CapacityAssumption
  <2>2. (g + m) % Capacity = (h + (m + 1)) % Capacity
    <3>1. g = IF h + 1 < Capacity THEN h + 1 ELSE h + 1 - Capacity
      BY <1>0, <2>1, Wrapped
    <3>2. (g + m) % Capacity = IF g + m < Capacity THEN g + m ELSE g + m - Capacity
      BY <1>0, <1>1, <2>1, Wrapped
    <3>3. (h + (m + 1)) % Capacity =
             IF h + (m + 1) < Capacity THEN h + (m + 1) ELSE h + (m + 1) - Capacity
      BY <1>0, <2>1, Wrapped
    <3> DEFINE a == (g + m) % Capacity
               b == (h + (m + 1)) % Capacity
    <3> HIDE DEF a, b
    <3>4. a = IF g + m < Capacity THEN g + m ELSE g + m - Capacity
      BY <3>2 DEF a
    <3>5. b = IF h + (m + 1) < Capacity THEN h + (m + 1) ELSE h + (m + 1) - Capacity
      BY <3>3 DEF b
    <3>6. h \in 0 .. Capacity - 1
      BY <1>0, CapacityAssumption DEF Slots
    <3>7. a = b
      <4>1. CASE h + 1 < Capacity
        <5>1. g = h + 1
          BY <1>0, <3>1, <4>1
        <5> QED
          BY <1>0, <3>4, <3>5, <3>6, <5>1, CapacityAssumption
      <4>2. CASE ~(h + 1 < Capacity)
        <5>1. g = 0 /\ h = Capacity - 1
          BY <1>0, <3>1, <3>6, <4>2, CapacityAssumption
        <5> QED
          BY <1>0, <2>1, <3>4, <3>5, <5>1, CapacityAssumption
      <4> QED
        BY <4>1, <4>2
    <3> QED
      BY <3>7 DEF a, b
  <2>3. (h + (m + 1)) % Capacity \in Slots
        /\ (((h + (m + 1)) % Capacity) - h) % Capacity = m + 1
    BY <1>0, <2>1, SlotAtDistance
  <2>4. (h + (m + 1)) % Capacity # h
    <3>1. (h - h) % Capacity = IF h <= h THEN h - h ELSE h - h + Capacity
      BY <1>0, Distance
    <3>2. (h - h) % Capacity = 0
      BY <1>0, <3>1, CapacityAssumption DEF Slots
    <3> QED
      BY <1>0, <2>1, <2>3, <3>2
  <2>5. r[m + 1] = y[(g + m) % Capacity]
    BY <1>0, <1>1, <1>2, <2>1, ReadingAt
  <2>6. q[(m + 1) + 1] = x[(h + (m + 1)) % Capacity]
    BY <1>0, <1>2, <2>1, ReadingAt
  <2>7. y[(h + (m + 1)) % Capacity] = x[(h + (m + 1)) % Capacity]
    BY <1>0, <2>3, <2>4 DEF AgreeBut
  <2> QED
    BY <1>0, <2>2, <2>5, <2>6, <2>7
<1> HIDE DEF q, r
<1>7. q # <<>> /\ Head(q) = x[h]
  BY <1>0, <1>3, <1>5
<1>8. r = Tail(q)
  <2>1. /\ Tail(q) \in Seq(S) /\ Len(Tail(q)) = n - 1
        /\ \A i \in 1 .. n - 1 : Tail(q)[i] = q[i + 1]
    BY <1>0, <1>3, <1>7
  <2>2. ASSUME NEW i \in 1 .. n - 1
        PROVE  r[i] = Tail(q)[i]
    <3>1. i - 1 \in 0 .. n - 2 /\ (i - 1) + 1 = i
      BY <1>0
    <3>2. r[(i - 1) + 1] = q[((i - 1) + 1) + 1]
      BY <1>0, <3>1, <1>6
    <3> QED
      BY <1>0, <2>1, <3>1, <3>2
  <2> QED
    BY <1>0, <1>4, <2>1, <2>2, SeqEqual
<1> QED
  BY <1>3, <1>7, <1>8 DEF q, r

\* y is x with v in slot h, in a full ring that is read from the next slot, g, on.
StoresLast(S, x, y, h, v, g) ==
  /\ x \in [Slots -> S] /\ y \in [Slots -> S] /\ v \in S
  /\ h \in Slots /\ y[h] = v /\ AgreeBut(x, y, h)
  /\ g = (h + 1) % Capacity

\* push() into a full ring that drops its oldest value: the new value takes the head
\* slot, which is then the last one.
LEMMA ReadingTurned ==
  ASSUME NEW S, NEW x, NEW y, NEW h, NEW v, NEW g,
         StoresLast(S, x, y, h, v, g)
  PROVE  Reading(y, g, Capacity) = Append(Tail(Reading(x, h, Capacity)), v)
<1>0. /\ x \in [Slots -> S] /\ y \in [Slots -> S] /\ v \in S
      /\ h \in Slots /\ y[h] = v /\ AgreeBut(x, y, h)
      /\ g = (h + 1) % Capacity
  BY DEF StoresLast
<1>1. Capacity \in 1 .. Capacity /\ Capacity - 1 \in 0 .. Capacity - 1
      /\ Capacity = (Capacity - 1) + 1
  BY CapacityAssumption
<1>2. g \in Slots
  BY <1>0, HeadMoved
<1>3. Reading(y, g, Capacity - 1) = Tail(Reading(x, h, Capacity))
  <2>1. LeavesOut(S, x, y, h, Capacity, g, Capacity - 1)
    BY <1>0, <1>1 DEF LeavesOut
  <2> QED
    BY <2>1, ReadingShifted
<1>4. h = (g + (Capacity - 1)) % Capacity
  <2>1. (h - g) % Capacity = Capacity - 1
    BY <1>0, HeadMoved
  <2> QED
    BY <1>0, <1>1, <1>2, <2>1, SlotOfDistance
<1>5. Reading(y, g, Capacity) = Append(Reading(y, g, Capacity - 1), v)
  <2>1. AgreeBut(y, y, h)
    BY DEF AgreeBut
  <2>2. StoresBehind(S, y, y, g, Capacity - 1, v, h, Capacity)
    BY <1>0, <1>1, <1>2, <1>4, <2>1 DEF StoresBehind
  <2> QED
    BY <2>2, ReadingAppended
<1> QED
  BY <1>3, <1>5

-----------------------------------------------------------------------------
(* The refinement *)

\* The refinement mapping reads the ring from its head.
LEMMA ContentsRead == Contents = Reading(items, head, length)
BY DEF Contents, Reading

\* The empty ring is the empty queue.
LEMMA FifoInit == QueueInit => Fifo!Init
<1> SUFFICES ASSUME QueueInit PROVE Fifo!Init
  OBVIOUS
<1>1. Contents = <<>>
  BY DEF QueueInit, Contents
<1> QED
  BY <1>1 DEF QueueInit, Fifo!Init, Policies, Fifo!Policies, NoValue, Fifo!NoValue,
              Result, Fifo!Result

\* What the ring knows of its contents: as many values as it counts.
LEMMA ContentsType ==
  ASSUME IndicesAndSlots
  PROVE  Contents \in Seq(0 .. MaxPushed) /\ Len(Contents) = length
<1>1. items \in [Slots -> 0 .. MaxPushed] /\ head \in Slots /\ length \in 0 .. Capacity
  BY DEF IndicesAndSlots, QueueTypeOK
<1> QED
  BY <1>1, ReadingParts, ContentsRead

\* Each call of the ring is the call of the queue.
LEMMA FifoPushStored ==
  ASSUME IndicesAndSlots, Push, PushStored
  PROVE  Fifo!Push
<1>1. /\ items \in [Slots -> 0 .. MaxPushed] /\ head \in Slots
      /\ length \in 0 .. Capacity - 1
      /\ items' = [items EXCEPT ![TailSlot] = pushed + 1]
      /\ length' = length + 1 /\ head' = head
      /\ pushed + 1 \in 0 .. MaxPushed
  BY CapacityAssumption, QueueBoundAssumption
     DEF IndicesAndSlots, QueueTypeOK, Push, PushStored, HasRoom
<1>2. TailSlot \in Slots /\ TailSlot = (head + length) % Capacity
  BY <1>1, SlotAtDistance DEF TailSlot
<1>3. /\ items' \in [Slots -> 0 .. MaxPushed] /\ items'[TailSlot] = pushed + 1
      /\ AgreeBut(items, items', TailSlot)
  BY <1>1, <1>2 DEF AgreeBut
<1>4. Reading(items', head, length + 1) = Append(Reading(items, head, length), pushed + 1)
  <2>1. StoresBehind(0 .. MaxPushed, items, items', head, length, pushed + 1, TailSlot,
                     length + 1)
    BY <1>1, <1>2, <1>3 DEF StoresBehind
  <2> QED
    BY <2>1, ReadingAppended
<1>5. Contents' = Append(Contents, pushed + 1)
  BY <1>1, <1>4, ContentsRead DEF Contents, Reading
<1>6. Len(Contents) # Capacity
  BY <1>1, ContentsType, CapacityAssumption
<1> QED
  BY <1>5, <1>6 DEF Push, PushStored, Fifo!Push, Fifo!PushedContents, Fifo!Full,
                    Fifo!PushOverflows, Result, Fifo!Result, NoValue, Fifo!NoValue

LEMMA FifoPushFull ==
  ASSUME IndicesAndSlots, Push, PushFull
  PROVE  Fifo!Push
<1>1. /\ items \in [Slots -> 0 .. MaxPushed] /\ head \in Slots
      /\ length = Capacity /\ length' = length
      /\ pushed + 1 \in 0 .. MaxPushed
  BY CapacityAssumption, QueueBoundAssumption
     DEF IndicesAndSlots, QueueTypeOK, Push, PushFull, HasRoom
<1>2. Len(Contents) = Capacity
  BY <1>1, ContentsType
<1>3. CASE overflowPolicy = "drop-oldest"
  <2>1. /\ items' = [items EXCEPT ![head] = pushed + 1]
        /\ head' = (head + 1) % Capacity
    BY <1>3 DEF PushFull
  <2>2. /\ items' \in [Slots -> 0 .. MaxPushed] /\ items'[head] = pushed + 1
        /\ AgreeBut(items, items', head)
    BY <1>1, <2>1 DEF AgreeBut
  <2>3. Reading(items', head', Capacity)
          = Append(Tail(Reading(items, head, Capacity)), pushed + 1)
    <3>1. StoresLast(0 .. MaxPushed, items, items', head, pushed + 1, head')
      BY <1>1, <2>1, <2>2 DEF StoresLast
    <3> QED
      BY <3>1, ReadingTurned
  <2>4. Contents' = Append(Tail(Contents), pushed + 1)
    BY <1>1, <2>3, ContentsRead DEF Contents, Reading
  <2> QED
    BY <1>2, <1>3, <2>4 DEF Push, PushFull, Fifo!Push, Fifo!PushedContents, Fifo!Full,
                    Fifo!PushOverflows, Result, Fifo!Result, NoValue, Fifo!NoValue
<1>4. CASE overflowPolicy # "drop-oldest"
  <2>1. Contents' = Contents
    BY <1>4 DEF PushFull, Contents
  <2> QED
    BY <1>2, <1>4, <2>1 DEF Push, PushFull, Fifo!Push, Fifo!PushedContents, Fifo!Full,
                    Fifo!PushOverflows, Result, Fifo!Result, NoValue, Fifo!NoValue
<1> QED
  BY <1>3, <1>4

LEMMA FifoShiftOldest ==
  ASSUME IndicesAndSlots, ShiftOldest
  PROVE  Fifo!Shift
<1>1. /\ items \in [Slots -> 0 .. MaxPushed] /\ head \in Slots
      /\ length \in 1 .. Capacity /\ length' = length - 1
      /\ items' = [items EXCEPT ![head] = NoValue]
      /\ head' = (head + 1) % Capacity
  BY CapacityAssumption
     DEF IndicesAndSlots, QueueTypeOK, ShiftOldest, HeadCleared
<1>2. /\ items' \in [Slots -> 0 .. MaxPushed]
      /\ AgreeBut(items, items', head)
  BY <1>1, QueueBoundAssumption DEF NoValue, AgreeBut
<1>3. /\ Reading(items, head, length) # <<>>
      /\ Head(Reading(items, head, length)) = items[head]
      /\ Reading(items', head', length - 1) = Tail(Reading(items, head, length))
  <2>1. LeavesOut(0 .. MaxPushed, items, items', head, length, head', length - 1)
    BY <1>1, <1>2 DEF LeavesOut
  <2> QED
    BY <2>1, ReadingShifted
<1>4. /\ Contents # <<>> /\ Head(Contents) = items[head]
  BY <1>3, ContentsRead
<1>5. Contents' = Tail(Contents)
  BY <1>1, <1>3, ContentsRead DEF Contents, Reading
<1> QED
  BY <1>4, <1>5 DEF ShiftOldest, Fifo!Shift, Result, Fifo!Result, Fifo!NoValue

LEMMA FifoShiftEmpty ==
  ASSUME IndicesAndSlots, ShiftEmpty
  PROVE  Fifo!Shift
<1>1. Contents = <<>>
  BY DEF ShiftEmpty, Contents
<1>2. Contents' = Contents
  BY DEF ShiftEmpty, Contents
<1> QED
  BY <1>1, <1>2 DEF ShiftEmpty, Fifo!Shift, Result, Fifo!Result, NoValue, Fifo!NoValue

\* No step of the ring is anything else for the queue.
LEMMA FifoStep == IndicesAndSlots /\ [QueueNext]_queueVars => [Fifo!Next]_(Fifo!fifoVars)
<1> SUFFICES ASSUME IndicesAndSlots, [QueueNext]_queueVars PROVE [Fifo!Next]_(Fifo!fifoVars)
  OBVIOUS
<1>1. CASE Push
  BY <1>1, FifoPushStored, FifoPushFull DEF Push, Fifo!Next
<1>2. CASE ShiftEmpty
  BY <1>2, FifoShiftEmpty DEF Fifo!Next
<1>3. CASE ShiftOldest
  BY <1>3, FifoShiftOldest DEF Fifo!Next
<1>4. CASE UNCHANGED queueVars
  BY <1>4 DEF queueVars, Fifo!fifoVars, Contents
<1> QED
  BY <1>1, <1>2, <1>3, <1>4 DEF QueueNext

\* Every push() and shift() of the ring is the push or shift of the bounded FIFO the
\* delivery window is modelled over: the same values in the same order, the same victim,
\* the same return value, wherever the two indices have wrapped to.
THEOREM RingImplementsFifo == QueueSpec => ImplementsFifo
<1>1. QueueInit => Fifo!Init
  BY FifoInit
<1>2. IndicesAndSlots /\ [QueueNext]_queueVars => [Fifo!Next]_(Fifo!fifoVars)
  BY FifoStep
<1> QED
  BY <1>1, <1>2, RingCorrect, PTL DEF QueueSpec, ImplementsFifo, Fifo!Spec
=============================================================================
