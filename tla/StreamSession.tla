---------------------------- MODULE StreamSession -----------------------------
(***************************************************************************)
(* The streams of one document, end to end: the StreamMultiplexer of its   *)
(* Renderer, the `control' channel to Main, Main's Subscriptions for its   *)
(* session, and the `stream' channel back.  Electron keeps the order of    *)
(* the messages of a channel, and so does the loopback transport of tests. *)
(*                                                                         *)
(* Each end is reduced to what the other one sees: the sharing of a        *)
(* generation is in RendererStreams, the life of a subscription inside     *)
(* Main in Subscriptions and DeliveryWindow.  What they take for granted   *)
(* of each other is checked here: a subscription is known to both ends or  *)
(* to none, its messages arrive numbered and in order, and an acknowledge  *)
(* is always on its way to a Main that waits for one.                      *)
(***************************************************************************)
EXTENDS Integers, Sequences, FiniteSets, SequencesExt

CONSTANTS
  Keys,              \* the operations that are subscribed to
  NumSubscriptions,  \* bound: the subscription ids the document makes
  MaxValues,         \* bound: the values of a source
  MaxSubscriptions,  \* resourceLimits.maxSubscriptions
  SinkCalls          \* what the diagnostics sink calls for `subscription-opened'

ASSUME KeysAssumption == SinkCalls \subseteq {"open", "close", "dispose"}
ASSUME BoundAssumption ==
  NumSubscriptions \in Nat /\ MaxValues \in Nat /\ MaxSubscriptions \in Nat \ {0}

Ids == 1 .. NumSubscriptions
None == 0

VARIABLES
  generations,  \* Renderer: each id, in the order of their sequence
  opening,      \* the ids the sink is being told of, the innermost last
  handling,     \* the batch whose values are with the subscribers, or None
  disposed,     \* dispose() of the API
  control,      \* the commands on their way to Main
  stream,       \* the messages on their way to the Renderer
  retired,      \* the session of the document was retired by a detach
  watermark,    \* the greatest id that was let in
  consumers     \* Main: what it has for each id

channelVars == <<control, stream>>
rendererVars == <<generations, opening, handling, disposed>>
mainVars == <<retired, watermark, consumers>>
vars == <<rendererVars, channelVars, mainVars>>

\* A generation is in the map until it has ended; `heard' is lastSequence.
Generation(key) == [key |-> key, at |-> "opening", heard |-> -1]

\* A subscription of Main: the sequence of its next message, whether a value and the
\* terminal of its source wait, and the batch that is not acknowledged.
Unknown ==
  [at |-> "unknown", next |-> 0, value |-> FALSE, ended |-> FALSE, inFlight |-> None, values |-> 0]

Init ==
  /\ generations = <<>> /\ opening = <<>> /\ handling = <<>> /\ disposed = FALSE
  /\ control = <<>> /\ stream = <<>>
  /\ retired = FALSE /\ watermark = 0
  /\ consumers = [id \in Ids |-> Unknown]

Command(type, id, sequence) == [type |-> type, id |-> id, sequence |-> sequence]
Message(type, id, sequence) == [type |-> type, id |-> id, sequence |-> sequence]

Mapped == {id \in DOMAIN generations : generations[id].at # "ended"}
Held == {id \in Ids : consumers[id].at \in {"pending", "open"}}

\* The session is retired and has subscriptions that were not told.
Retiring == retired /\ Held # {}

-----------------------------------------------------------------------------
(* Renderer *)

\* The user calls at any time, also from a subscriber; the sink as SinkCalls says.
MayCall(call) == opening = <<>> \/ call \in SinkCalls

\* StreamMultiplexer.open for a key without a generation: the id, the map, the sink.
Open(key) ==
  LET id == Len(generations) + 1 IN
  /\ MayCall("open")
  /\ ~disposed /\ id \in Ids
  /\ \A other \in Mapped : generations[other].key # key
  /\ generations' = Append(generations, Generation(key))
  /\ opening' = Append(opening, id)
  /\ UNCHANGED <<handling, disposed, channelVars, mainVars>>

\* Mutant: subscribe is sent whatever the sink did.
OpenedAlways ==
  /\ opening # <<>>
  /\ generations' = [generations EXCEPT ![Last(opening)].at =
                       IF @ = "ended" THEN @ ELSE "waiting"]
  /\ control' = Append(control, Command("subscribe", Last(opening), None))
  /\ opening' = Front(opening)
  /\ UNCHANGED <<handling, disposed, stream, mainVars>>

\* The sink returns: subscribe is sent unless the generation was closed; when sending
\* fails the generation ends.
Opened ==
  LET id == Last(opening) IN
  /\ opening # <<>>
  /\ opening' = Front(opening)
  /\ \/ id \notin Mapped /\ UNCHANGED <<generations, control>>
     \/ /\ id \in Mapped
        /\ generations' = [generations EXCEPT ![id].at = "waiting"]
        /\ control' = Append(control, Command("subscribe", id, None))
     \/ /\ id \in Mapped
        /\ generations' = [generations EXCEPT ![id].at = "ended"]
        /\ UNCHANGED control
  /\ UNCHANGED <<handling, disposed, stream, mainVars>>

\* close(): the last local subscriber left.
Close(id) ==
  /\ MayCall("close")
  /\ ~disposed /\ id \in Mapped
  /\ generations' = [generations EXCEPT ![id].at = "ended"]
  /\ control' = Append(control, Command("unsubscribe", id, None))
  /\ UNCHANGED <<opening, handling, disposed, stream, mainVars>>

\* Mutant: a generation that Main has not answered yet is forgotten.
DisposedAnswered == {id \in Mapped : generations[id].at = "active"}

\* What dispose() unsubscribes: every generation in the map.
Disposed == Mapped

\* The ids of a set in the order of the map, in which they were made.
InOrder(ids) ==
  {seq \in SetToSeqs(ids) : \A i, j \in DOMAIN seq : i < j => seq[i] < seq[j]}

Unsubscribes(seq) == [i \in DOMAIN seq |-> Command("unsubscribe", seq[i], None)]

\* dispose() of the API and closeAll().
Dispose ==
  /\ MayCall("dispose")
  /\ ~disposed
  /\ disposed' = TRUE
  /\ generations' = [id \in DOMAIN generations |-> [generations[id] EXCEPT !.at = "ended"]]
  /\ \E seq \in InOrder(Disposed) : control' = control \o Unsubscribes(seq)
  /\ UNCHANGED <<opening, handling, stream, mainVars>>

\* #dispatch lets a message of a generation in the map pass: `subscribed' once, the
\* others after it, each with a greater sequence than the last.
Passes(message) ==
  LET generation == generations[message.id] IN
  /\ ~disposed /\ message.id \in Mapped
  /\ message.sequence > generation.heard
  /\ (message.type = "subscribed") = (generation.at = "waiting")

\* The next message of the stream channel; a batch goes to the subscribers.
Receive ==
  LET message == Head(stream) IN
  /\ opening = <<>> /\ handling = <<>> /\ stream # <<>>
  /\ stream' = Tail(stream)
  /\ IF Passes(message)
     THEN /\ generations' = [generations EXCEPT
               ![message.id].heard = message.sequence,
               ![message.id].at = IF message.type = "end" THEN "ended" ELSE "active"]
          /\ handling' = IF message.type = "batch" THEN <<message>> ELSE <<>>
     ELSE UNCHANGED <<generations, handling>>
  /\ UNCHANGED <<opening, disposed, control, mainVars>>

\* The subscribers have the values: the batch is acknowledged, also when they made the
\* generation end, unless dispose() came meanwhile.
Handled ==
  LET batch == Head(handling) IN
  /\ opening = <<>> /\ handling # <<>>
  /\ handling' = <<>>
  /\ control' = IF disposed THEN control
                ELSE Append(control, Command("acknowledge", batch.id, batch.sequence))
  /\ UNCHANGED <<generations, opening, disposed, stream, mainVars>>

-----------------------------------------------------------------------------
(* Main *)

\* Mutant: a subscription that does not start is refused without `subscribed'.
RefusalBare(id) == <<Message("end", id, 0)>>

\* #endUnstarted.
Refusal(id) == <<Message("subscribed", id, 0), Message("end", id, 1)>>

\* Mutant: an id has to be more than one above the watermark.
LateByOne(id) == id <= watermark + 1

Late(id) == id <= watermark

Refuse(id) ==
  /\ stream' = stream \o Refusal(id)
  /\ consumers' = [consumers EXCEPT ![id].at = "closed"]

\* #start, up to the source.
Start(id) ==
  /\ stream' = Append(stream, Message("subscribed", id, 0))
  /\ consumers' = [consumers EXCEPT ![id].at = "open", ![id].next = 1]

\* subscribe(): refused without a session, without an operation or a slot, or by
\* authorize; started at once, or when authorize has decided.
Subscribe(id) ==
  \/ retired /\ Refuse(id) /\ UNCHANGED watermark
  \/ ~retired /\ Late(id) /\ UNCHANGED <<watermark, stream, consumers>>
  \/ /\ ~retired /\ ~Late(id)
     /\ watermark' = id
     /\ \/ Refuse(id)
        \/ Cardinality(Held) < MaxSubscriptions /\ Start(id)
        \/ /\ Cardinality(Held) < MaxSubscriptions
           /\ consumers' = [consumers EXCEPT ![id].at = "pending"]
           /\ UNCHANGED stream

\* unsubscribe: nothing is sent for it.
Unsubscribe(id) ==
  /\ consumers' = IF id \in Held THEN [consumers EXCEPT ![id].at = "closed"] ELSE consumers
  /\ UNCHANGED <<watermark, stream>>

\* The window: a value, then the terminal, while no batch is in flight.
Flushed(id, consumer) ==
  IF consumer.inFlight # None \/ ~(consumer.value \/ consumer.ended)
  THEN /\ consumers' = [consumers EXCEPT ![id] = consumer]
       /\ UNCHANGED stream
  ELSE IF consumer.value
  THEN /\ consumers' = [consumers EXCEPT ![id] =
            [consumer EXCEPT !.value = FALSE, !.inFlight = consumer.next, !.next = @ + 1]]
       /\ stream' = Append(stream, Message("batch", id, consumer.next))
  ELSE /\ consumers' = [consumers EXCEPT ![id] =
            [consumer EXCEPT !.at = "closed", !.next = @ + 1]]
       /\ stream' = Append(stream, Message("end", id, consumer.next))

Acknowledge(command) ==
  LET id == command.id IN
  /\ IF consumers[id].at = "open" /\ consumers[id].inFlight = command.sequence
     THEN Flushed(id, [consumers[id] EXCEPT !.inFlight = None])
     ELSE UNCHANGED <<stream, consumers>>
  /\ UNCHANGED watermark

\* controlStream(): the next command of the control channel.
Arrive ==
  LET command == Head(control) IN
  /\ ~Retiring /\ control # <<>>
  /\ control' = Tail(control)
  /\ \/ command.type = "subscribe" /\ Subscribe(command.id)
     \/ command.type = "unsubscribe" /\ Unsubscribe(command.id)
     \/ command.type = "acknowledge" /\ Acknowledge(command)
  /\ UNCHANGED <<rendererVars, retired>>

\* authorize decides.
Decide(id) ==
  /\ ~Retiring /\ consumers[id].at = "pending"
  /\ Start(id) \/ Refuse(id)
  /\ UNCHANGED <<rendererVars, control, retired, watermark>>

\* A source emits; a State keeps the newest value, an Event as many as its buffer has.
Emit(id) ==
  /\ consumers[id].at = "open" /\ ~consumers[id].ended /\ consumers[id].values < MaxValues
  /\ Flushed(id, [consumers[id] EXCEPT !.value = TRUE, !.values = @ + 1])
  /\ UNCHANGED <<rendererVars, control, retired, watermark>>

\* A source completes, fails, or its value does.
End(id) ==
  /\ consumers[id].at = "open" /\ ~consumers[id].ended
  /\ Flushed(id, [consumers[id] EXCEPT !.ended = TRUE])
  /\ UNCHANGED <<rendererVars, control, retired, watermark>>

\* What a retirement sends for a subscription: a terminal ahead of all that waits.
Notice(id) ==
  IF consumers[id].at = "pending" THEN Refusal(id)
  ELSE <<Message("end", id, consumers[id].next)>>

\* The webContents is detached: no command finds a session any more, as its clientId
\* does not come back.
Retire ==
  /\ ~retired
  /\ retired' = TRUE
  /\ UNCHANGED <<rendererVars, channelVars, watermark, consumers>>

\* onSessionAbort: the subscriptions of the session are told one after the other, in the
\* order they were registered in; in between sources may emit and end.
Tell(id) ==
  /\ Retiring /\ id \in Held
  /\ stream' = stream \o Notice(id)
  /\ consumers' = [consumers EXCEPT ![id].at = "closed"]
  /\ UNCHANGED <<rendererVars, control, retired, watermark>>

-----------------------------------------------------------------------------
Next ==
  \/ \E key \in Keys : Open(key)
  \/ Opened \/ Receive \/ Handled \/ Dispose
  \/ \E id \in Mapped : Close(id)
  \/ Arrive \/ Retire
  \/ \E id \in Ids : Decide(id) \/ Emit(id) \/ End(id) \/ Tell(id)

Spec == Init /\ [][Next]_vars

\* Calls return, loops end and channels deliver; nothing makes authorize decide.
FairSpec ==
  /\ Spec
  /\ WF_vars(Opened) /\ WF_vars(Receive) /\ WF_vars(Handled) /\ WF_vars(Arrive)
  /\ WF_vars(\E id \in Ids : Tell(id))

-----------------------------------------------------------------------------
TypeOK ==
  /\ \A id \in DOMAIN generations :
       /\ id \in Ids /\ generations[id].key \in Keys
       /\ generations[id].at \in {"opening", "waiting", "active", "ended"}
  /\ \A i \in DOMAIN opening : opening[i] \in DOMAIN generations
  /\ Len(handling) <= 1
  /\ watermark \in 0 .. NumSubscriptions
  /\ \A id \in Ids :
       /\ consumers[id].at \in {"unknown", "pending", "open", "closed"}
       /\ consumers[id].next \in 0 .. MaxValues + 2
       /\ consumers[id].inFlight \in 0 .. MaxValues

\* The places on the stream channel of the messages of a subscription.
Coming(id) == {i \in DOMAIN stream : stream[i].id = id}

\* The Renderer never has a message of a generation it still has to drop as out of
\* order: what is on its way to it starts with `subscribed' unless that has arrived,
\* goes on with the sequences that follow the last one heard, without a gap or a
\* repetition, and ends with at most one terminal
\* (docs/design/07-renderer-streams.md:143, 06-stream-delivery.md, 3).
StreamInOrder ==
  \A id \in Mapped : \A i \in Coming(id) :
    /\ stream[i].sequence > generations[id].heard
    /\ \A n \in generations[id].heard + 1 .. stream[i].sequence :
         \E j \in Coming(id) : j <= i /\ stream[j].sequence = n
    /\ \A j \in Coming(id) : i < j => stream[i].sequence < stream[j].sequence
    /\ (stream[i].type = "subscribed") = (stream[i].sequence = 0)
    /\ stream[i].type = "end" => \A j \in Coming(id) : j <= i

\* docs/design/06-stream-delivery.md:113: commands arrive in the order in which their
\* ids were made, which is what the watermark rests on.
ArrivesInOrder ==
  \A i \in DOMAIN control : control[i].type = "subscribe" =>
    /\ control[i].id > watermark
    /\ \A j \in DOMAIN control :
         control[j].type = "subscribe" /\ i < j => control[i].id < control[j].id

\* Both channels carry what their ends count on.
MessagesArrive == TypeOK /\ StreamInOrder /\ ArrivesInOrder

\* When nothing is on its way the two ends agree: what Main has for the document is
\* what the Renderer has in its map, so no subscription goes on for nobody, whatever
\* was closed or disposed while it was being opened, decided or ended, and no
\* generation waits for a subscription there is not.
Quiet ==
  opening = <<>> /\ handling = <<>> /\ control = <<>> /\ stream = <<>> /\ ~Retiring
InSync == Quiet => Held = Mapped

\* A batch that Main holds values back for is always answered: it is still on its way,
\* with the subscribers, acknowledged, or its subscription is being left.
NeverStalls ==
  \A id \in Held :
    consumers[id].inFlight # None =>
      \/ \E i \in DOMAIN stream :
           stream[i] = Message("batch", id, consumers[id].inFlight) /\ id \in Mapped
      \/ handling = <<Message("batch", id, consumers[id].inFlight)>> /\ ~disposed
      \/ \E i \in DOMAIN control :
           control[i] \in {Command("acknowledge", id, consumers[id].inFlight),
                           Command("unsubscribe", id, None)}

\* Whoever subscribed hears of it, `subscribed' or a terminal, or leaves, unless
\* authorize is still asked: no refusal, retirement or late decision, and no order in
\* which they and the commands of the other streams come, leaves a generation waiting.
Answered(id) == id \notin DOMAIN generations \/ generations[id].at \in {"active", "ended"}
AnsweredOrAsked(id) == Answered(id) \/ consumers[id].at = "pending"
EveryoneHears == \A id \in Ids : ~AnsweredOrAsked(id) ~> AnsweredOrAsked(id)

=============================================================================
