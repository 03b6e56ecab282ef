------------------------------ MODULE Upstreams ------------------------------
(***************************************************************************)
(* main/upstreams.ts: the consumers of one key and their connections to    *)
(* the user's source.  A State and a broadcast Event share one upstream    *)
(* among all their consumers; every consumer of a scoped Event has one of  *)
(* its own.  Keys do not touch each other.                                 *)
(*                                                                         *)
(* A consumer (a token of the code) connects once.  Consumers are numbered *)
(* in the order they connect, which is the order of the member map of a    *)
(* share; the members are the consumers whose record says they are in it.  *)
(*                                                                         *)
(* Source code (a factory, getValue, the subscribe function and what it    *)
(* returned), the sinks of consumers and what runs while a consumer closes *)
(* may call connect, close and the source again.  `stack' holds the calls  *)
(* in progress, the innermost last.                                        *)
(***************************************************************************)
EXTENDS Integers, Sequences, FiniteSets

CONSTANTS
  Kinds,         \* the kinds of source to check
  NumConsumers,  \* how many consumers connect
  MaxValues,     \* bound: how many values the source emits
  SourceCalls,   \* the calls made while source code runs
  SinkCalls,     \* the calls made while a sink receives a value
  EndingCalls,   \* the calls made while a sink sends a terminal
  ClosingCalls,  \* the calls made while a consumer closes
  MaxDepth       \* bound: no call is made inside this many outside calls

AllKinds == {"state", "broadcast", "scoped"}
AllCalls == {"connect", "close", "emit", "end"}

ASSUME KindsAssumption == Kinds \subseteq AllKinds
ASSUME CallsAssumption ==
  SourceCalls \cup SinkCalls \cup EndingCalls \cup ClosingCalls \subseteq AllCalls
ASSUME BoundAssumption ==
  NumConsumers \in Nat /\ MaxValues \in Nat /\ MaxDepth \in Nat

Consumers == 1 .. NumConsumers
None == 0
Connecting == -1

VARIABLES
  kind,        \* the kind of the source
  value,       \* the current value: how many were emitted
  nested,      \* history: the current value was emitted inside the fan-out of an older one
  consumers,   \* consumer -> how far its subscription is
  connection,  \* consumer -> its upstream, Connecting or None: the token records
  seen,        \* consumer -> the last value its sink was given
  shared,      \* the upstream of the share in the map, or None
  upstreams,   \* the Subscribers that were made, and their producers
  escaped,     \* an exception of a teardown left the module
  stack        \* the calls in progress

source == <<kind, value, nested>>
vars == <<source, consumers, connection, seen, shared, upstreams, escaped, stack>>

\* A Subscriber takes notifications until it is stopped and runs the teardown of
\* its producer when it is closed, or when it gets one later (rxjs).
NewUpstream == [stopped |-> FALSE, closed |-> FALSE, producer |-> "subscribing"]

Init ==
  /\ kind \in Kinds
  /\ value = 0
  /\ nested = FALSE
  /\ consumers = [t \in Consumers |-> "unused"]
  /\ connection = [t \in Consumers |-> None]
  /\ seen = [t \in Consumers |-> None]
  /\ shared = None
  /\ upstreams = <<>>
  /\ escaped = FALSE
  /\ stack = <<>>

Members(u) == {t \in Consumers : connection[t] = u}

\* A call in progress: of consumer `who', or about upstream `up'; `rest' are the
\* members a fan-out has still to call, of its snapshot, and `hands' the value it hands
\* out; `what' tells a value from a terminal, and which call of unsubscribe runs a teardown.
Frame(at, who, up, what, rest) ==
  [at |-> at, who |-> who, up |-> up, what |-> what, rest |-> rest, hands |-> None]
Call(at, who, up) == Frame(at, who, up, "none", {})
Sink(t, what) == Frame("sink", t, None, what, {})
FanOut(u, what, hands) ==
  [Frame("fanOut", None, u, what, Members(u)) EXCEPT !.hands = hands]

Top == stack[Len(stack)]
Rest == SubSeq(stack, 1, Len(stack) - 1)
At(point) == stack # <<>> /\ Top.at = point

Outside == {"factory", "getValue", "subscribing", "teardown", "sink", "closing"}

CallsAt(frame) ==
  CASE frame.at = "sink" /\ frame.what = "value"    -> SinkCalls
    [] frame.at = "sink" /\ frame.what = "terminal" -> EndingCalls
    [] frame.at = "closing"                         -> ClosingCalls
    [] frame.at \in {"fanOut", "failing"}           -> AllCalls
    [] OTHER                                        -> SourceCalls

\* Calls come from outside when nothing is going on, or from the innermost outside
\* call, and all those around it have to be ones that make such calls.
MayCall(call) ==
  \/ stack = <<>>
  \/ /\ stack # <<>> /\ Top.at \in Outside
     /\ Cardinality({i \in DOMAIN stack : stack[i].at \in Outside}) < MaxDepth
     /\ \A i \in DOMAIN stack : call \in CallsAt(stack[i])

-----------------------------------------------------------------------------
\* Subscriber.unsubscribe, and the teardown it runs.
Unsubscribed(up) ==
  [stopped |-> TRUE, closed |-> TRUE,
   producer |-> IF up.producer = "attached" THEN "done" ELSE up.producer]

WithTeardown(u, by, below) ==
  IF ~upstreams[u].closed /\ upstreams[u].producer = "attached"
  THEN Append(below, Frame("teardown", None, u, by, {}))
  ELSE below

Unsubscribe(u, by, below) ==
  /\ upstreams' = [upstreams EXCEPT ![u] = Unsubscribed(@)]
  /\ stack' = WithTeardown(u, by, below)

\* Mutant: the share stays in the map.
DisconnectKeepingShare(t, below) ==
  LET u == connection[t] IN
  /\ connection' = [connection EXCEPT ![t] = None]
  /\ IF u \in DOMAIN upstreams /\ Members(u) = {t}
     THEN Unsubscribe(u, "release", below)
     ELSE stack' = below /\ UNCHANGED upstreams
  /\ UNCHANGED shared

\* disconnect: the last member of a share takes it out of the map before the
\* upstream is unsubscribed.  A consumer without a connection changes nothing.
Disconnect(t, below) ==
  LET u == connection[t] IN
  /\ connection' = [connection EXCEPT ![t] = None]
  /\ IF u \in DOMAIN upstreams /\ Members(u) = {t}
     THEN /\ shared' = IF shared = u THEN None ELSE shared
          /\ Unsubscribe(u, "release", below)
     ELSE stack' = below /\ UNCHANGED <<shared, upstreams>>

\* A Subscriber is made and stored, and the source subscribed with it.
Open(t, below) ==
  LET u == Len(upstreams) + 1 IN
  /\ upstreams' = Append(upstreams, NewUpstream)
  /\ connection' = [connection EXCEPT ![t] = u]
  /\ shared' = IF kind = "scoped" THEN None ELSE u
  /\ stack' = Append(below, Call("subscribing", t, u))

\* A consumer joins the share; one of a State reads the current value.
Join(t) ==
  /\ connection' = [connection EXCEPT ![t] = shared]
  /\ stack' = IF kind = "state" THEN Append(stack, Call("getValue", t, shared)) ELSE stack
  /\ UNCHANGED <<shared, upstreams>>

\* connect, up to the first outside call.
Connect(t) ==
  /\ MayCall("connect")
  /\ consumers[t] = "unused"
  /\ \A s \in 1 .. t - 1 : consumers[s] # "unused"
  /\ consumers' = [consumers EXCEPT ![t] = "live"]
  /\ IF kind = "scoped"
     THEN /\ connection' = [connection EXCEPT ![t] = Connecting]
          /\ stack' = Append(stack, Call("factory", t, None))
          /\ UNCHANGED <<shared, upstreams>>
     ELSE IF shared = None THEN Open(t, stack) ELSE Join(t)
  /\ UNCHANGED <<source, seen, escaped>>

-----------------------------------------------------------------------------
\* Something connect called has thrown: the consumer is disconnected, then connect
\* throws in its turn.
Fail(t) == Disconnect(t, Append(Rest, Call("failing", t, None)))

\* Mutant: #start does not end the subscription.
FailingSilent ==
  /\ At("failing")
  /\ stack' = Rest
  /\ UNCHANGED <<source, consumers, connection, seen, shared, upstreams, escaped>>

\* connect has thrown: #start ends the subscription, if it was not closed.
Failing ==
  /\ At("failing")
  /\ IF consumers[Top.who] = "live"
     THEN /\ consumers' = [consumers EXCEPT ![Top.who] = "ended"]
          /\ stack' = Append(Rest, Sink(Top.who, "terminal"))
     ELSE stack' = Rest /\ UNCHANGED consumers
  /\ UNCHANGED <<source, connection, seen, shared, upstreams, escaped>>

\* Mutant: the consumer may have been closed by the factory.
FactoryUnchecked ==
  /\ At("factory")
  /\ Open(Top.who, Rest) \/ Fail(Top.who)
  /\ UNCHANGED <<source, consumers, seen, escaped>>

\* The factory of a scoped Event returns an Observable, or something else, or throws.
Factory ==
  /\ At("factory")
  /\ IF connection[Top.who] = Connecting
     THEN Open(Top.who, Rest) \/ Fail(Top.who)
     ELSE stack' = Rest /\ UNCHANGED <<connection, shared, upstreams>>
  /\ UNCHANGED <<source, consumers, seen, escaped>>

\* getValue returns the current value, for a consumer that is still in the share.
GetValue ==
  /\ At("getValue")
  /\ IF connection[Top.who] = Top.up
     THEN /\ seen' = [seen EXCEPT ![Top.who] = value]
          /\ stack' = Append(Rest, Sink(Top.who, "value"))
     ELSE stack' = Rest /\ UNCHANGED seen
  /\ UNCHANGED <<source, consumers, connection, shared, upstreams, escaped>>

GetValueThrows ==
  /\ At("getValue")
  /\ Fail(Top.who)
  /\ UNCHANGED <<source, consumers, seen, escaped>>

\* The source of a State emits its current value while it is subscribed.
FirstValue ==
  /\ At("subscribing") /\ kind = "state" /\ Top.what = "none"
  /\ ~upstreams[Top.up].stopped
  /\ stack' = Append(Append(Rest, [Top EXCEPT !.what = "emitted"]),
                     FanOut(Top.up, "value", value))
  /\ UNCHANGED <<source, consumers, connection, seen, shared, upstreams, escaped>>

\* The subscribe function returns its teardown, which runs at once when the
\* upstream is closed already.
Subscribed ==
  LET u == Top.up IN
  /\ At("subscribing")
  /\ kind = "state" => Top.what = "emitted" \/ upstreams[u].stopped
  /\ upstreams' = [upstreams EXCEPT
       ![u].producer = IF upstreams[u].closed THEN "done" ELSE "attached"]
  /\ stack' = IF upstreams[u].closed
              THEN Append(Rest, Frame("teardown", None, u, "subscribe", {}))
              ELSE Rest
  /\ UNCHANGED <<source, consumers, connection, seen, shared, escaped>>

\* A source that is beyond use throws before it has called anybody.
SubscribeThrows ==
  LET u == Top.up IN
  /\ At("subscribing") /\ Top.what = "none"
  /\ Members(u) = {Top.who} /\ ~upstreams[u].stopped
  /\ connection' = [connection EXCEPT ![Top.who] = None]
  /\ shared' = None
  /\ upstreams' = [upstreams EXCEPT ![u] =
                     [stopped |-> TRUE, closed |-> TRUE, producer |-> "done"]]
  /\ stack' = Append(Rest, Call("failing", Top.who, None))
  /\ UNCHANGED <<source, consumers, seen, escaped>>

-----------------------------------------------------------------------------
\* The upstreams whose producer can still notify.
Active == {u \in DOMAIN upstreams : ~upstreams[u].stopped /\ upstreams[u].producer # "done"}

\* The source emits, also while it hands out a value: the newer one is fanned out first,
\* then the members that are left are handed the older one.
Emit(u) ==
  /\ MayCall("emit")
  /\ value < MaxValues
  /\ value' = value + 1
  /\ nested' = \E i \in DOMAIN stack : stack[i].at = "fanOut" /\ stack[i].up = u
  /\ stack' = Append(stack, FanOut(u, "value", value + 1))
  /\ UNCHANGED <<kind, consumers, connection, seen, shared, upstreams, escaped>>

\* A State changes while nobody is connected.
Change ==
  /\ MayCall("emit")
  /\ kind = "state" /\ Active = {} /\ value < MaxValues
  /\ value' = value + 1 /\ nested' = FALSE
  /\ UNCHANGED <<kind, consumers, connection, seen, shared, upstreams, escaped, stack>>

\* The source completes or fails: the Subscriber is stopped, then it fans out.
End(u) ==
  /\ MayCall("end")
  /\ upstreams' = [upstreams EXCEPT ![u].stopped = TRUE]
  /\ stack' = Append(stack, FanOut(u, "terminal", None))
  /\ UNCHANGED <<source, consumers, connection, seen, shared, escaped>>

\* Those of the snapshot that the fan-out will call: they are connected, and their
\* window takes what comes.  They are called in the order of the map.
Left == {t \in Top.rest : connection[t] = Top.up /\ consumers[t] = "live"}
NextLeft(t) == t \in Left /\ \A other \in Left : t <= other
Going(t) == Append(Rest, [Top EXCEPT !.rest = Left \ {t}])

\* #next of the next member.
DeliverValue ==
  /\ At("fanOut") /\ Top.what = "value"
  /\ \E t \in Consumers :
       /\ NextLeft(t)
       /\ seen' = [seen EXCEPT ![t] = Top.hands]
       /\ stack' = Append(Going(t), Sink(t, "value"))
  /\ UNCHANGED <<source, consumers, connection, shared, upstreams, escaped>>

\* #terminate of the next member: disconnect, then send.
DeliverTerminal ==
  /\ At("fanOut") /\ Top.what = "terminal"
  /\ \E t \in Consumers :
       /\ NextLeft(t)
       /\ consumers' = [consumers EXCEPT ![t] = "ended"]
       /\ Disconnect(t, Append(Going(t), Sink(t, "terminal")))
  /\ UNCHANGED <<source, seen, escaped>>

\* The fan-out is over; after a terminal the Subscriber unsubscribes itself.
FannedOut ==
  /\ At("fanOut") /\ Left = {}
  /\ IF Top.what = "terminal"
     THEN Unsubscribe(Top.up, "terminal", Rest)
     ELSE stack' = Rest /\ UNCHANGED upstreams
  /\ UNCHANGED <<source, consumers, connection, seen, shared, escaped>>

\* A teardown returns or throws.  What it throws is caught where #release or
\* #subscribe called it.
TornDown ==
  /\ At("teardown")
  /\ escaped' \in {escaped, escaped \/ Top.what = "terminal"}
  /\ stack' = Rest
  /\ UNCHANGED <<source, consumers, connection, seen, shared, upstreams>>

\* A sink returns.
Sunk ==
  /\ At("sink")
  /\ stack' = Rest
  /\ UNCHANGED <<source, consumers, connection, seen, shared, upstreams, escaped>>

\* #close of a subscription (unsubscribe, retirement, a send that failed): the
\* window closes first, then the diagnostics and the abort listeners run, then the
\* consumer is disconnected.
Close(t) ==
  /\ MayCall("close")
  /\ consumers[t] = "live"
  /\ consumers' = [consumers EXCEPT ![t] = "ended"]
  /\ stack' = Append(stack, Call("closing", t, None))
  /\ UNCHANGED <<source, connection, seen, shared, upstreams, escaped>>

Closed ==
  /\ At("closing")
  /\ Disconnect(Top.who, Rest)
  /\ UNCHANGED <<source, consumers, seen, escaped>>

-----------------------------------------------------------------------------
Return ==
  \/ Failing \/ Factory \/ GetValue \/ GetValueThrows
  \/ FirstValue \/ Subscribed \/ SubscribeThrows
  \/ DeliverValue \/ DeliverTerminal \/ FannedOut
  \/ TornDown \/ Sunk \/ Closed

Next ==
  \/ Return
  \/ \E t \in Consumers : Connect(t) \/ Close(t)
  \/ \E u \in Active : Emit(u) \/ End(u)
  \/ Change

Spec == Init /\ [][Next]_vars

-----------------------------------------------------------------------------
Idle == stack = <<>>

TypeOK ==
  /\ kind \in AllKinds
  /\ value \in 0 .. MaxValues /\ nested \in BOOLEAN
  /\ consumers \in [Consumers -> {"unused", "live", "ended"}]
  /\ connection \in [Consumers -> {Connecting, None} \cup DOMAIN upstreams]
  /\ seen \in [Consumers -> 0 .. value]
  /\ shared \in {None} \cup DOMAIN upstreams
  /\ kind = "scoped" => shared = None
  /\ \A u \in DOMAIN upstreams :
       /\ upstreams[u].stopped \in BOOLEAN /\ upstreams[u].closed \in BOOLEAN
       /\ upstreams[u].producer \in {"subscribing", "attached", "done"}
  /\ escaped \in BOOLEAN
  /\ \A i \in DOMAIN stack :
       stack[i].at \in Outside \cup {"fanOut", "failing"}

\* A key has one upstream at a time, however consumers leave, join again and tear
\* down inside one another: whoever shares is in the share of the map, that share
\* has members, and every other upstream is closed.
OneShare ==
  kind # "scoped" =>
    /\ \A t \in Consumers : connection[t] \in {None, shared}
    /\ shared # None => Members(shared) # {}
    /\ \A u \in DOMAIN upstreams : u # shared => upstreams[u].closed

\* When nothing is going on, every subscription that is not over is connected to
\* an upstream that can still notify: none joined one that had ended, and none was
\* forgotten by a connect that threw.
Served ==
  Idle => \A t \in Consumers : consumers[t] = "live" => connection[t] \in Active

\* When nothing is going on, the source is subscribed for somebody: a subscription
\* that is over has no connection, and an upstream without one is torn down, also
\* one that lost its consumers while it was being subscribed.
NothingLeaks ==
  Idle =>
    /\ \A t \in Consumers : consumers[t] # "live" => connection[t] = None
    /\ \A u \in DOMAIN upstreams :
         Members(u) = {} => upstreams[u].closed /\ upstreams[u].producer = "done"

\* Every consumer of a State converges to its last value, whether it came with the
\* subscription of the source, with getValue or with a fan-out
\* (docs/design/06-stream-delivery.md).  #fanOut does not keep this when a member's sink
\* makes the source emit.
LastValueReaches ==
  Idle /\ kind = "state" =>
    \A t \in Consumers : consumers[t] = "live" => seen[t] = value

\* That is the only case: every sink of a State was last given the current value, however
\* fan-outs, getValue and subscriptions interleave, unless the value was emitted while an
\* older one was handed out; and the next one that was not repairs it.
UpToDate == ~nested => LastValueReaches

\* The exception of a teardown never leaves the module.
TeardownContained == ~escaped

\* There is one upstream per key, of the members the map says.
OneUpstream == TypeOK /\ OneShare

\* Nobody who is still subscribed is forgotten or left with an old value.
ConsumersServed == Served /\ UpToDate

\* Nothing runs for nobody, and what tearing it down throws stays inside.
UpstreamsReleased == NothingLeaks /\ TeardownContained
=============================================================================
