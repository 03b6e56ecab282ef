-------------------------- MODULE Upstreams_proofs ---------------------------
(***************************************************************************)
(* Theorems about Upstreams.tla, for every kind of source, every number of *)
(* consumers and values and every depth of calls back.                     *)
(***************************************************************************)
EXTENDS Upstreams, SequenceLemmas

-----------------------------------------------------------------------------
(* The invariant *)

\* The places a call in progress can be at, what it can be about, and its frame.
Points == Outside \cup {"fanOut", "failing"}
Whats == {"none", "emitted", "value", "terminal", "release", "subscribe"}
FrameSet == [at : Points, who : Consumers \cup {None}, up : Nat, what : Whats,
             rest : SUBSET Consumers, hands : Nat]
UpstreamSet == [stopped : BOOLEAN, closed : BOOLEAN,
                producer : {"subscribing", "attached", "done"}]

\* Which frames there can be: calls of a consumer name one, calls about an upstream
\* name one that was made, and a fan-out or a sink has a value or a terminal.
FrameOK(f) ==
  /\ f.at \notin {"fanOut", "teardown"} => f.who \in Consumers
  /\ f.at \in {"fanOut", "teardown", "getValue", "subscribing"} => f.up \in DOMAIN upstreams
  /\ f.at = "fanOut" => f.what \in {"value", "terminal"}
  /\ f.hands \in 0 .. value

\* The calls in progress, in no order.
Frames == ToSet(stack)

Typed ==
  /\ kind \in AllKinds
  /\ value \in 0 .. MaxValues /\ nested \in BOOLEAN
  /\ consumers \in [Consumers -> {"unused", "live", "ended"}]
  /\ upstreams \in Seq(UpstreamSet)
  /\ connection \in [Consumers -> {Connecting, None} \cup DOMAIN upstreams]
  /\ seen \in [Consumers -> 0 .. value]
  /\ shared \in {None} \cup DOMAIN upstreams
  /\ kind = "scoped" => shared = None
  /\ escaped \in BOOLEAN
  /\ stack \in Seq(FrameSet)
  /\ \A f \in Frames : FrameOK(f)

\* How far an upstream is: a Subscriber is stopped before or when it is closed, its
\* producer is torn down when it is closed and at no other time, and it has no producer
\* yet only while the source is being subscribed.
Living(u) ==
  /\ upstreams[u].closed => upstreams[u].stopped /\ upstreams[u].producer # "attached"
  /\ upstreams[u].producer = "done" => upstreams[u].closed
  /\ upstreams[u].producer = "subscribing" =>
       \E f \in Frames : f.at = "subscribing" /\ f.up = u
  /\ Members(u) = {} => upstreams[u].closed

UpstreamLife == \A u \in DOMAIN upstreams : Living(u)

\* A call `at' of consumer t is in progress.
Held(at, t) == \E f \in Frames : f.at = at /\ f.who = t

\* How far a consumer is: who is not subscribed any more and still connected is in the
\* middle of being closed; who waits for its upstream is in its factory; who has none
\* is being told that its connect failed.
Settled(t) ==
  /\ consumers[t] = "unused" => connection[t] = None
  /\ consumers[t] = "ended" /\ connection[t] # None => Held("closing", t)
  /\ consumers[t] = "live" /\ connection[t] = Connecting => Held("factory", t)
  /\ consumers[t] = "live" /\ connection[t] = None => Held("failing", t)

ConsumerLife == \A t \in Consumers : Settled(t)

\* Who is being closed is not subscribed any more, and who is told that its connect
\* failed has no connection and gets none.
KnownCaller(f) ==
  /\ f.at = "closing" => consumers[f.who] = "ended"
  /\ f.at = "getValue" => consumers[f.who] # "unused"
  /\ f.at = "failing" => consumers[f.who] # "unused" /\ connection[f.who] = None

CallersKnown == \A f \in Frames : KnownCaller(f)

\* A frame of the fan-out of a terminal.
Ending(f) == f.at = "fanOut" /\ f.what = "terminal"

\* No consumer is being closed around the fan-out of a terminal, and what is called
\* from it directly is a sink.
EndingPlaced(s) ==
  \A i \in 1 .. Len(s) :
    Ending(s[i]) =>
      /\ \A j \in 1 .. i - 1 : s[j].at # "closing"
      /\ i < Len(s) => s[i + 1].at = "sink" /\ s[i + 1].what = "terminal"

\* While an upstream ends it still has to call every member that is subscribed.
EndingCallsAll ==
  \A f \in Frames :
    Ending(f) =>
      \A t \in Consumers : connection[t] = f.up /\ consumers[t] = "live" => t \in f.rest

\* An upstream that has stopped and has members is telling them.
StoppedTells ==
  \A t \in Consumers :
    connection[t] \in DOMAIN upstreams /\ upstreams[connection[t]].stopped =>
      \E f \in Frames : Ending(f) /\ f.up = connection[t]

\* No teardown is run by the Subscriber that ended.
TeardownCaught ==
  /\ ~escaped
  /\ \A f \in Frames : f.at = "teardown" => f.what # "terminal"

\* A consumer that is connected to an upstream that can still notify.
Listening(t) ==
  /\ consumers[t] = "live"
  /\ connection[t] \in DOMAIN upstreams
  /\ ~upstreams[connection[t]].stopped

\* The call f gives consumer t of upstream u the current value: t reads it, or is in the
\* snapshot of a fan-out, or the source is about to emit while it is subscribed.
Informs(f, t, u) ==
  /\ f.up = u
  /\ \/ f.at = "getValue" /\ f.who = t
     \/ f.at = "fanOut" /\ f.what = "value" /\ f.hands = value /\ t \in f.rest
     \/ f.at = "subscribing" /\ f.what = "none"

\* A consumer of a State that has not seen the current value is about to.
Informed(t) == seen[t] = value \/ \E f \in Frames : Informs(f, t, connection[t])

StateFollowed ==
  kind = "state" /\ ~nested => \A t \in Consumers : Listening(t) => Informed(t)

\* A fan-out hands out the current value, or nobody listens to it any more.
Current(f) ==
  f.at = "fanOut" /\ f.what = "value" => f.hands = value \/ upstreams[f.up].stopped

\* No older value is on its way, unless the current one was emitted inside its fan-out.
NoOldValue == kind = "state" /\ ~nested => \A f \in Frames : Current(f)

\* The invariant whatever is called.
Basics == /\ Typed /\ OneShare /\ UpstreamLife /\ ConsumerLife /\ CallersKnown
          /\ NoOldValue /\ StateFollowed
\* The invariant for the calls that are made.
Endings == EndingPlaced(stack) /\ EndingCallsAll /\ StoppedTells /\ TeardownCaught

-----------------------------------------------------------------------------
(* What the steps do to the calls in progress *)

\* The calls around the innermost one.
Below == ToSet(Rest)

LEMMA TopPopped ==
  ASSUME Typed, stack # <<>>
  PROVE  /\ Rest \in Seq(FrameSet) /\ Top \in FrameSet
         /\ Top \in Frames /\ Frames = Below \cup {Top}
         /\ FrameOK(Top)
<1>1. stack \in Seq(FrameSet) /\ \A f \in Frames : FrameOK(f)
  BY DEF Typed
<1>2. Popped(stack, Rest, Top)
  BY DEF Popped, Rest, Top
<1>3. /\ Rest \in Seq(FrameSet) /\ Top \in ToSet(stack)
      /\ ToSet(stack) = ToSet(Rest) \cup {Top}
  BY <1>1, <1>2, ValuesPopped
<1>4. ToSet(stack) \subseteq FrameSet
  BY <1>1, Values
<1> QED
  BY <1>1, <1>3, <1>4 DEF Frames, Below

LEMMA OnePushed ==
  ASSUME NEW s \in Seq(FrameSet), NEW f \in FrameSet
  PROVE  Append(s, f) \in Seq(FrameSet) /\ ToSet(Append(s, f)) = ToSet(s) \cup {f}
<1>1. Pushed(s, Append(s, f), f)
  BY DEF Pushed
<1> QED
  BY <1>1, ValuesAppended

\* Every frame the steps make is one.
LEMMA FramesMade ==
  ASSUME Typed
  PROVE  /\ \A t \in Consumers, u \in Nat, p \in Points : Call(p, t, u) \in FrameSet
         /\ \A t \in Consumers, w \in Whats : Sink(t, w) \in FrameSet
         /\ \A u \in Nat, w \in Whats, h \in Nat : FanOut(u, w, h) \in FrameSet
         /\ \A u \in Nat, w \in Whats : Frame("teardown", None, u, w, {}) \in FrameSet
<1>1. {} \in SUBSET Consumers /\ 0 \in Nat
      /\ \A u : Members(u) \in SUBSET Consumers
  BY DEF Members
<1>2. {"sink", "fanOut", "teardown"} \subseteq Points /\ "none" \in Whats
  BY DEF Points, Outside, Whats
<1>3. \A u \in Nat, w \in Whats, h \in Nat : FanOut(u, w, h) \in FrameSet
  <2> SUFFICES ASSUME NEW u \in Nat, NEW w \in Whats, NEW h \in Nat
               PROVE  FanOut(u, w, h) \in FrameSet
    OBVIOUS
  <2>1. FanOut(u, w, h) = [at |-> "fanOut", who |-> None, up |-> u, what |-> w,
                           rest |-> Members(u), hands |-> h]
    BY DEF FanOut, Frame
  <2> QED
    BY <1>1, <1>2, <2>1 DEF FrameSet, None
<1> QED
  BY <1>1, <1>2, <1>3 DEF Call, Sink, Frame, FrameSet, None

LEMMA ValueNumber ==
  ASSUME Typed
  PROVE  /\ value \in Nat /\ value + 1 \in Nat /\ MaxValues \in Nat
         /\ None \in 0 .. value /\ None \in Nat
BY BoundAssumption DEF Typed, None

\* The frames that stay are what they were while upstreams are only added.
LEMMA FramesStayOK ==
  ASSUME Typed, DOMAIN upstreams \subseteq DOMAIN upstreams', value' = value,
         \A f \in Frames' : f \in Frames \/ FrameOK(f)'
  PROVE  \A f \in Frames' : FrameOK(f)'
<1> SUFFICES ASSUME NEW f \in Frames', f \in Frames PROVE FrameOK(f)'
  OBVIOUS
<1>1. FrameOK(f)
  BY DEF Typed
<1> QED
  BY <1>1 DEF FrameOK

-----------------------------------------------------------------------------
(* What the operations do *)

LEMMA UnsubscribeDoes ==
  ASSUME Typed, NEW u \in DOMAIN upstreams, NEW by \in {"release", "terminal"},
         NEW below \in Seq(FrameSet), Unsubscribe(u, by, below)
  PROVE  /\ upstreams' \in Seq(UpstreamSet) /\ DOMAIN upstreams' = DOMAIN upstreams
         /\ \A v \in DOMAIN upstreams :
              upstreams'[v] = IF v = u THEN Unsubscribed(upstreams[v]) ELSE upstreams[v]
         /\ stack' \in Seq(FrameSet)
         /\ \/ stack' = below /\ Frames' = ToSet(below)
            \/ /\ ~upstreams[u].closed /\ upstreams[u].producer = "attached"
               /\ stack' = Append(below, Frame("teardown", None, u, by, {}))
               /\ Frames' = ToSet(below) \cup {Frame("teardown", None, u, by, {})}
<1> DEFINE f == Frame("teardown", None, u, by, {})
<1>1. /\ upstreams \in Seq(UpstreamSet) /\ DOMAIN upstreams = 1 .. Len(upstreams)
      /\ u \in Nat
  BY DEF Typed
<1>2. upstreams' = [upstreams EXCEPT ![u] = Unsubscribed(upstreams[u])]
  BY DEF Unsubscribe
<1>3. Unsubscribed(upstreams[u]) \in UpstreamSet
  <2>1. upstreams[u] \in UpstreamSet
    BY <1>1
  <2> QED
    BY <2>1 DEF Unsubscribed, UpstreamSet
<1>4. upstreams' \in Seq(UpstreamSet) /\ DOMAIN upstreams' = DOMAIN upstreams
  <2> DEFINE n == Unsubscribed(upstreams[u])
  <2>1. n \in UpstreamSet /\ upstreams' = [upstreams EXCEPT ![u] = n]
    BY <1>2, <1>3
  <2> HIDE DEF n
  <2>2. upstreams \in [1 .. Len(upstreams) -> UpstreamSet] /\ Len(upstreams) \in Nat
    BY <1>1
  <2>3. upstreams' \in [1 .. Len(upstreams) -> UpstreamSet]
    BY <2>1, <2>2
  <2> QED
    BY <1>1, <2>2, <2>3
<1>5. \A v \in DOMAIN upstreams :
        upstreams'[v] = IF v = u THEN Unsubscribed(upstreams[v]) ELSE upstreams[v]
  BY <1>2
<1>6. f \in FrameSet
  BY <1>1, FramesMade DEF Whats
<1> HIDE DEF f
<1>7. Append(below, f) \in Seq(FrameSet) /\ ToSet(Append(below, f)) = ToSet(below) \cup {f}
  BY <1>6, OnePushed
<1>8. CASE ~upstreams[u].closed /\ upstreams[u].producer = "attached"
  <2>1. stack' = Append(below, f)
    BY <1>8 DEF Unsubscribe, WithTeardown, f
  <2> QED
    BY <1>4, <1>5, <1>7, <1>8, <2>1 DEF Frames, f
<1>9. CASE ~(~upstreams[u].closed /\ upstreams[u].producer = "attached")
  <2>1. stack' = below
    BY <1>9, Zenon DEF Unsubscribe, WithTeardown
  <2> QED
    BY <1>4, <1>5, <2>1 DEF Frames
<1> QED
  BY <1>8, <1>9, Zenon

\* Whether t is the last member of its upstream.
LastOf(t) == connection[t] \in DOMAIN upstreams /\ Members(connection[t]) = {t}

LEMMA DisconnectDoes ==
  ASSUME Typed, NEW t \in Consumers, NEW below \in Seq(FrameSet), Disconnect(t, below)
  PROVE  /\ connection' = [connection EXCEPT ![t] = None]
         /\ upstreams' \in Seq(UpstreamSet) /\ DOMAIN upstreams' = DOMAIN upstreams
         /\ \A v \in DOMAIN upstreams :
              upstreams'[v] = IF LastOf(t) /\ v = connection[t]
                              THEN Unsubscribed(upstreams[v]) ELSE upstreams[v]
         /\ shared' = IF LastOf(t) /\ shared = connection[t] THEN None ELSE shared
         /\ stack' \in Seq(FrameSet)
         /\ \/ stack' = below /\ Frames' = ToSet(below)
            \/ \E u \in DOMAIN upstreams :
                 /\ stack' = Append(below, Frame("teardown", None, u, "release", {}))
                 /\ Frames' = ToSet(below) \cup {Frame("teardown", None, u, "release", {})}
<1> DEFINE u == connection[t]
<1>1. connection' = [connection EXCEPT ![t] = None]
  BY DEF Disconnect
<1>2. CASE LastOf(t)
  <2>1. u \in DOMAIN upstreams /\ Members(u) = {t}
    BY <1>2 DEF LastOf
  <2>2. /\ shared' = IF shared = u THEN None ELSE shared
        /\ Unsubscribe(u, "release", below)
    BY <2>1 DEF Disconnect
  <2> HIDE DEF u
  <2>3. /\ upstreams' \in Seq(UpstreamSet) /\ DOMAIN upstreams' = DOMAIN upstreams
        /\ \A v \in DOMAIN upstreams :
             upstreams'[v] = IF v = u THEN Unsubscribed(upstreams[v]) ELSE upstreams[v]
        /\ stack' \in Seq(FrameSet)
        /\ \/ stack' = below /\ Frames' = ToSet(below)
           \/ /\ stack' = Append(below, Frame("teardown", None, u, "release", {}))
              /\ Frames' = ToSet(below) \cup {Frame("teardown", None, u, "release", {})}
    BY <2>1, <2>2, UnsubscribeDoes
  <2> QED
    BY <1>1, <1>2, <2>1, <2>2, <2>3 DEF u
<1>3. CASE ~LastOf(t)
  <2>1. stack' = below /\ UNCHANGED <<shared, upstreams>>
    BY <1>3 DEF Disconnect, LastOf
  <2>2. upstreams \in Seq(UpstreamSet)
    BY DEF Typed
  <2> QED
    BY <1>1, <1>3, <2>1, <2>2 DEF Frames
<1> QED
  BY <1>2, <1>3, Zenon

LEMMA OpenDoes ==
  ASSUME Typed, NEW t \in Consumers, NEW below \in Seq(FrameSet), Open(t, below),
         NEW u, u = Len(upstreams) + 1
  PROVE  /\ u \in Nat \ {0} /\ u \notin DOMAIN upstreams
         /\ upstreams' \in Seq(UpstreamSet) /\ DOMAIN upstreams' = DOMAIN upstreams \cup {u}
         /\ \A v \in DOMAIN upstreams : upstreams'[v] = upstreams[v]
         /\ upstreams'[u] = NewUpstream
         /\ connection' = [connection EXCEPT ![t] = u]
         /\ shared' = IF kind = "scoped" THEN None ELSE u
         /\ stack' = Append(below, Call("subscribing", t, u))
         /\ stack' \in Seq(FrameSet)
         /\ Frames' = ToSet(below) \cup {Call("subscribing", t, u)}
<1>1. /\ upstreams \in Seq(UpstreamSet) /\ DOMAIN upstreams = 1 .. Len(upstreams)
      /\ Len(upstreams) \in Nat
  BY DEF Typed
<1>2. /\ upstreams' = Append(upstreams, NewUpstream)
      /\ connection' = [connection EXCEPT ![t] = u]
      /\ shared' = IF kind = "scoped" THEN None ELSE u
      /\ stack' = Append(below, Call("subscribing", t, u))
  BY DEF Open
<1>3. NewUpstream \in UpstreamSet
  BY DEF NewUpstream, UpstreamSet
<1>4. /\ upstreams' \in Seq(UpstreamSet) /\ DOMAIN upstreams' = 1 .. Len(upstreams) + 1
      /\ \A v \in DOMAIN upstreams : upstreams'[v] = upstreams[v]
      /\ upstreams'[u] = NewUpstream
  <2> HIDE DEF NewUpstream
  <2> QED
    BY <1>1, <1>2, <1>3
<1>5. Call("subscribing", t, u) \in FrameSet
  BY <1>1, FramesMade DEF Points, Outside
<1>6. stack' \in Seq(FrameSet) /\ ToSet(stack') = ToSet(below) \cup {Call("subscribing", t, u)}
  BY <1>2, <1>5, OnePushed, Zenon
<1> QED
  BY <1>1, <1>2, <1>4, <1>6 DEF Frames

-----------------------------------------------------------------------------
(* What the actions do to the calls in progress *)

LEMMA StackMoves ==
  ASSUME Typed, NEW f \in FrameSet
  PROVE  /\ stack' = Append(stack, f) => stack' \in Seq(FrameSet) /\ Frames' = Frames \cup {f}
         /\ stack # <<>> /\ stack' = Append(Rest, f) =>
              stack' \in Seq(FrameSet) /\ Frames' = Below \cup {f}
<1>1. ASSUME stack' = Append(stack, f)
      PROVE  stack' \in Seq(FrameSet) /\ Frames' = Frames \cup {f}
  BY <1>1, OnePushed DEF Typed, Frames
<1>2. ASSUME stack # <<>>, stack' = Append(Rest, f)
      PROVE  stack' \in Seq(FrameSet) /\ Frames' = Below \cup {f}
  <2>1. Rest \in Seq(FrameSet)
    BY <1>2, TopPopped
  <2> QED
    BY <1>2, <2>1, OnePushed DEF Frames, Below
<1> QED
  BY <1>1, <1>2

LEMMA StackPopped ==
  ASSUME Typed, stack # <<>>, stack' = Rest
  PROVE  stack' \in Seq(FrameSet) /\ Frames' = Below
BY TopPopped DEF Frames, Below

\* The calls in progress become those of F, and perhaps a teardown whose exceptions are
\* caught.
Calling(F) ==
  /\ F \subseteq Frames'
  /\ \A f \in Frames' : f \in F \/ (f.at = "teardown" /\ f.what # "terminal")

LEMMA DisconnectCalls ==
  ASSUME Typed, NEW t \in Consumers, NEW below \in Seq(FrameSet), Disconnect(t, below)
  PROVE  Calling(ToSet(below))
<1>1. \/ Frames' = ToSet(below)
      \/ \E u : Frames' = ToSet(below) \cup {Frame("teardown", None, u, "release", {})}
  BY DisconnectDoes, Zenon
<1> QED
  BY <1>1 DEF Calling, Frame

LEMMA ConnectCalls ==
  ASSUME Typed, NEW t \in Consumers, Connect(t)
  PROVE  /\ stack' \in Seq(FrameSet)
         /\ MayCall("connect") /\ consumers[t] = "unused"
         /\ consumers' = [consumers EXCEPT ![t] = "live"]
         /\ UNCHANGED <<kind, value, nested, seen, escaped>>
         /\ \/ /\ kind = "scoped" /\ connection' = [connection EXCEPT ![t] = Connecting]
               /\ Frames' = Frames \cup {Call("factory", t, None)}
               /\ stack' = Append(stack, Call("factory", t, None))
               /\ UNCHANGED <<shared, upstreams>>
            \/ /\ kind # "scoped" /\ shared = None /\ Open(t, stack)
               /\ Frames' = Frames \cup {Call("subscribing", t, Len(upstreams) + 1)}
            \/ /\ kind # "scoped" /\ shared \in DOMAIN upstreams
               /\ connection' = [connection EXCEPT ![t] = shared]
               /\ \/ /\ kind = "state"
                     /\ Frames' = Frames \cup {Call("getValue", t, shared)}
                     /\ stack' = Append(stack, Call("getValue", t, shared))
                  \/ kind # "state" /\ Frames' = Frames /\ stack' = stack
               /\ UNCHANGED <<shared, upstreams>>
<1>1. /\ MayCall("connect") /\ consumers[t] = "unused"
      /\ consumers' = [consumers EXCEPT ![t] = "live"]
      /\ UNCHANGED <<kind, value, nested, seen, escaped>>
  BY DEF Connect, source
<1>2. /\ stack \in Seq(FrameSet) /\ shared \in {None} \cup DOMAIN upstreams
      /\ DOMAIN upstreams = 1 .. Len(upstreams) /\ Len(upstreams) \in Nat
  BY DEF Typed
<1>3. CASE kind = "scoped"
  <2>1. /\ connection' = [connection EXCEPT ![t] = Connecting]
        /\ stack' = Append(stack, Call("factory", t, None))
        /\ UNCHANGED <<shared, upstreams>>
    BY <1>3 DEF Connect
  <2>2. Call("factory", t, None) \in FrameSet
    BY FramesMade DEF Points, Outside, None
  <2> QED
    BY <1>1, <1>3, <2>1, <2>2, StackMoves, Zenon
<1>4. CASE kind # "scoped" /\ shared = None
  <2>1. Open(t, stack)
    BY <1>4 DEF Connect
  <2>2. /\ stack' \in Seq(FrameSet)
        /\ Frames' = Frames \cup {Call("subscribing", t, Len(upstreams) + 1)}
    BY <1>2, <2>1, OpenDoes DEF Frames
  <2> QED
    BY <1>1, <1>4, <2>1, <2>2, Zenon
<1>5. CASE kind # "scoped" /\ shared # None
  <2>1. Join(t)
    BY <1>5 DEF Connect
  <2>2. /\ connection' = [connection EXCEPT ![t] = shared] /\ UNCHANGED <<shared, upstreams>>
        /\ shared \in DOMAIN upstreams /\ shared \in Nat
    BY <1>2, <1>5, <2>1 DEF Join
  <2>3. CASE kind = "state"
    <3>1. stack' = Append(stack, Call("getValue", t, shared))
      BY <2>1, <2>3 DEF Join
    <3>2. Call("getValue", t, shared) \in FrameSet
      BY <2>2, FramesMade DEF Points, Outside
    <3> QED
      BY <1>1, <1>5, <2>2, <2>3, <3>1, <3>2, StackMoves, Zenon
  <2>4. CASE kind # "state"
    <3>1. stack' = stack
      BY <2>1, <2>4 DEF Join
    <3> QED
      BY <1>1, <1>2, <1>5, <2>2, <2>4, <3>1 DEF Frames
  <2> QED
    BY <2>3, <2>4
<1> QED
  BY <1>2, <1>3, <1>4, <1>5, Zenon

\* The consumer whose connect has thrown is told next.
LEMMA FailCalls ==
  ASSUME Typed, stack # <<>>, NEW t \in Consumers, Fail(t)
  PROVE  /\ Append(Rest, Call("failing", t, None)) \in Seq(FrameSet)
         /\ Disconnect(t, Append(Rest, Call("failing", t, None)))
         /\ Calling(Below \cup {Call("failing", t, None)})
<1>1. Rest \in Seq(FrameSet) /\ Call("failing", t, None) \in FrameSet
  BY TopPopped, FramesMade DEF Points, None
<1>2. /\ Append(Rest, Call("failing", t, None)) \in Seq(FrameSet)
      /\ ToSet(Append(Rest, Call("failing", t, None))) = Below \cup {Call("failing", t, None)}
  BY <1>1, OnePushed DEF Below
<1>3. Disconnect(t, Append(Rest, Call("failing", t, None)))
  BY DEF Fail
<1> QED
  BY <1>2, <1>3, DisconnectCalls

LEMMA FailingCalls ==
  ASSUME Typed, Failing
  PROVE  /\ stack # <<>> /\ stack' \in Seq(FrameSet) /\ Top.at = "failing"
         /\ Top.who \in Consumers
         /\ \/ /\ consumers[Top.who] = "live"
               /\ consumers' = [consumers EXCEPT ![Top.who] = "ended"]
               /\ Frames' = Below \cup {Sink(Top.who, "terminal")}
               /\ stack' = Append(Rest, Sink(Top.who, "terminal"))
            \/ /\ consumers[Top.who] # "live" /\ consumers' = consumers
               /\ Frames' = Below /\ stack' = Rest
         /\ UNCHANGED <<source, connection, seen, shared, upstreams, escaped>>
<1>1. /\ stack # <<>> /\ Top.at = "failing"
      /\ UNCHANGED <<source, connection, seen, shared, upstreams, escaped>>
  BY DEF Failing, At
<1>2. Top.who \in Consumers
  BY <1>1, TopPopped DEF FrameOK
<1>3. CASE consumers[Top.who] = "live"
  <2>1. /\ consumers' = [consumers EXCEPT ![Top.who] = "ended"]
        /\ stack' = Append(Rest, Sink(Top.who, "terminal"))
    BY <1>3 DEF Failing
  <2>2. Sink(Top.who, "terminal") \in FrameSet
    BY <1>2, FramesMade DEF Whats
  <2> QED
    BY <1>1, <1>2, <1>3, <2>1, <2>2, StackMoves, Zenon
<1>4. CASE consumers[Top.who] # "live"
  <2>1. stack' = Rest /\ consumers' = consumers
    BY <1>4 DEF Failing
  <2> QED
    BY <1>1, <1>2, <1>4, <2>1, StackPopped, Zenon
<1> QED
  BY <1>3, <1>4

LEMMA FactoryCalls ==
  ASSUME Typed, Factory
  PROVE  /\ stack # <<>> /\ Top.at = "factory" /\ Top.who \in Consumers
         /\ \/ connection[Top.who] = Connecting /\ Open(Top.who, Rest)
            \/ connection[Top.who] = Connecting /\ Fail(Top.who)
            \/ /\ connection[Top.who] # Connecting /\ stack' = Rest
               /\ UNCHANGED <<connection, shared, upstreams>>
         /\ UNCHANGED <<source, consumers, seen, escaped>>
<1>1. stack # <<>> /\ Top.at = "factory"
  BY DEF Factory, At
<1>2. Top.who \in Consumers
  BY <1>1, TopPopped DEF FrameOK
<1> QED
  BY <1>1, <1>2 DEF Factory

LEMMA GetValueCalls ==
  ASSUME Typed, GetValue
  PROVE  /\ stack # <<>> /\ stack' \in Seq(FrameSet) /\ Top.at = "getValue"
         /\ Top.who \in Consumers /\ Top.up \in DOMAIN upstreams
         /\ \/ /\ connection[Top.who] = Top.up
               /\ seen' = [seen EXCEPT ![Top.who] = value]
               /\ Frames' = Below \cup {Sink(Top.who, "value")}
               /\ stack' = Append(Rest, Sink(Top.who, "value"))
            \/ /\ connection[Top.who] # Top.up /\ seen' = seen
               /\ Frames' = Below /\ stack' = Rest
         /\ UNCHANGED <<source, consumers, connection, shared, upstreams, escaped>>
<1>1. /\ stack # <<>> /\ Top.at = "getValue"
      /\ UNCHANGED <<source, consumers, connection, shared, upstreams, escaped>>
  BY DEF GetValue, At
<1>2. Top.who \in Consumers /\ Top.up \in DOMAIN upstreams
  BY <1>1, TopPopped DEF FrameOK
<1>3. CASE connection[Top.who] = Top.up
  <2>1. /\ seen' = [seen EXCEPT ![Top.who] = value]
        /\ stack' = Append(Rest, Sink(Top.who, "value"))
    BY <1>3 DEF GetValue
  <2>2. Sink(Top.who, "value") \in FrameSet
    BY <1>2, FramesMade DEF Whats
  <2> QED
    BY <1>1, <1>2, <1>3, <2>1, <2>2, StackMoves, Zenon
<1>4. CASE connection[Top.who] # Top.up
  <2>1. stack' = Rest /\ seen' = seen
    BY <1>4 DEF GetValue
  <2> QED
    BY <1>1, <1>2, <1>4, <2>1, StackPopped, Zenon
<1> QED
  BY <1>3, <1>4

LEMMA GetValueThrowsCalls ==
  ASSUME Typed, GetValueThrows
  PROVE  /\ stack # <<>> /\ Top.at = "getValue" /\ Top.who \in Consumers
         /\ Fail(Top.who) /\ UNCHANGED <<source, consumers, seen, escaped>>
<1>1. /\ stack # <<>> /\ Top.at = "getValue"
      /\ Fail(Top.who) /\ UNCHANGED <<source, consumers, seen, escaped>>
  BY DEF GetValueThrows, At
<1> QED
  BY <1>1, TopPopped DEF FrameOK

LEMMA FirstValueCalls ==
  ASSUME Typed, FirstValue
  PROVE  /\ stack # <<>> /\ stack' \in Seq(FrameSet)
         /\ Top.at = "subscribing" /\ Top.up \in DOMAIN upstreams
         /\ \E g \in FrameSet :
              /\ g.at = "subscribing" /\ g.who = Top.who /\ g.up = Top.up
              /\ g.hands = Top.hands
              /\ stack' = Append(Append(Rest, g), FanOut(Top.up, "value", value))
              /\ Frames' = Below \cup {g, FanOut(Top.up, "value", value)}
         /\ UNCHANGED <<source, consumers, connection, seen, shared, upstreams, escaped>>
<1>1. /\ stack # <<>> /\ Top.at = "subscribing"
      /\ UNCHANGED <<source, consumers, connection, seen, shared, upstreams, escaped>>
  BY DEF FirstValue, At
<1>2. /\ Top \in FrameSet /\ Rest \in Seq(FrameSet) /\ Top.up \in DOMAIN upstreams
  BY <1>1, TopPopped DEF FrameOK
<1> DEFINE g == [Top EXCEPT !.what = "emitted"]
<1>3. /\ g \in FrameSet /\ g.at = "subscribing" /\ g.who = Top.who /\ g.up = Top.up
      /\ g.hands = Top.hands
  BY <1>1, <1>2 DEF FrameSet, Whats
<1>4. FanOut(Top.up, "value", value) \in FrameSet
  BY <1>2, FramesMade, ValueNumber DEF Whats, FrameSet
<1>5. stack' = Append(Append(Rest, g), FanOut(Top.up, "value", value))
  BY DEF FirstValue
<1> HIDE DEF g
<1>6. Append(Rest, g) \in Seq(FrameSet) /\ ToSet(Append(Rest, g)) = Below \cup {g}
  BY <1>2, <1>3, OnePushed DEF Below
<1>7. stack' \in Seq(FrameSet) /\ Frames' = Below \cup {g} \cup {FanOut(Top.up, "value", value)}
  BY <1>4, <1>5, <1>6, OnePushed DEF Frames
<1>8. Frames' = Below \cup {g, FanOut(Top.up, "value", value)}
  BY <1>7
<1> QED
  BY <1>1, <1>2, <1>3, <1>5, <1>7, <1>8, Zenon

LEMMA SubscribedCalls ==
  ASSUME Typed, Subscribed
  PROVE  /\ stack # <<>> /\ stack' \in Seq(FrameSet)
         /\ Top.at = "subscribing" /\ Top.up \in DOMAIN upstreams
         /\ kind = "state" => Top.what # "none" \/ upstreams[Top.up].stopped
         /\ upstreams' = [upstreams EXCEPT
              ![Top.up].producer = IF upstreams[Top.up].closed THEN "done" ELSE "attached"]
         /\ Calling(Below)
         /\ \/ stack' = Rest /\ Frames' = Below
            \/ /\ stack' = Append(Rest, Frame("teardown", None, Top.up, "subscribe", {}))
               /\ Frames' = Below \cup {Frame("teardown", None, Top.up, "subscribe", {})}
         /\ UNCHANGED <<source, consumers, connection, seen, shared, escaped>>
<1> DEFINE f == Frame("teardown", None, Top.up, "subscribe", {})
<1>1. /\ stack # <<>> /\ Top.at = "subscribing"
      /\ kind = "state" => Top.what # "none" \/ upstreams[Top.up].stopped
      /\ upstreams' = [upstreams EXCEPT
           ![Top.up].producer = IF upstreams[Top.up].closed THEN "done" ELSE "attached"]
      /\ stack' = IF upstreams[Top.up].closed THEN Append(Rest, f) ELSE Rest
      /\ UNCHANGED <<source, consumers, connection, seen, shared, escaped>>
  BY DEF Subscribed, At
<1>2. Top \in FrameSet /\ Top.up \in DOMAIN upstreams
  BY <1>1, TopPopped DEF FrameOK
<1>3. f \in FrameSet /\ f.at = "teardown" /\ f.what # "terminal"
  <2>1. f \in FrameSet
    BY <1>2, FramesMade DEF Whats, FrameSet
  <2> QED
    BY <2>1 DEF Frame
<1> HIDE DEF f
<1>4. /\ stack' \in Seq(FrameSet)
      /\ \/ stack' = Rest /\ Frames' = Below
         \/ stack' = Append(Rest, f) /\ Frames' = Below \cup {f}
  BY <1>1, <1>3, StackMoves, StackPopped, Zenon
<1>5. Calling(Below)
  BY <1>3, <1>4 DEF Calling
<1> QED
  BY <1>1, <1>2, <1>4, <1>5, Zenon DEF f

LEMMA SubscribeThrowsCalls ==
  ASSUME Typed, SubscribeThrows
  PROVE  /\ stack # <<>> /\ stack' \in Seq(FrameSet)
         /\ Top.at = "subscribing" /\ Top.up \in DOMAIN upstreams /\ Top.who \in Consumers
         /\ Members(Top.up) = {Top.who}
         /\ connection' = [connection EXCEPT ![Top.who] = None]
         /\ shared' = None
         /\ upstreams' = [upstreams EXCEPT ![Top.up] =
                            [stopped |-> TRUE, closed |-> TRUE, producer |-> "done"]]
         /\ stack' = Append(Rest, Call("failing", Top.who, None))
         /\ Frames' = Below \cup {Call("failing", Top.who, None)}
         /\ UNCHANGED <<source, consumers, seen, escaped>>
<1>1. /\ stack # <<>> /\ Top.at = "subscribing"
      /\ Members(Top.up) = {Top.who}
      /\ connection' = [connection EXCEPT ![Top.who] = None]
      /\ shared' = None
      /\ upstreams' = [upstreams EXCEPT ![Top.up] =
                         [stopped |-> TRUE, closed |-> TRUE, producer |-> "done"]]
      /\ stack' = Append(Rest, Call("failing", Top.who, None))
      /\ UNCHANGED <<source, consumers, seen, escaped>>
  BY DEF SubscribeThrows, At
<1>2. Top.who \in Consumers /\ Top.up \in DOMAIN upstreams
  BY <1>1, TopPopped DEF FrameOK
<1>3. Call("failing", Top.who, None) \in FrameSet
  BY <1>2, FramesMade DEF Points, None
<1>4. stack' \in Seq(FrameSet) /\ Frames' = Below \cup {Call("failing", Top.who, None)}
  BY <1>1, <1>3, StackMoves, Zenon
<1> QED
  BY <1>1, <1>2, <1>4, Zenon

LEMMA EmitCalls ==
  ASSUME Typed, NEW u \in DOMAIN upstreams, NEW w \in {"value", "terminal"},
         NEW h \in Nat, stack' = Append(stack, FanOut(u, w, h))
  PROVE  stack' \in Seq(FrameSet) /\ Frames' = Frames \cup {FanOut(u, w, h)}
<1>1. u \in Nat
  BY DEF Typed
<1>2. FanOut(u, w, h) \in FrameSet
  BY <1>1, FramesMade DEF Whats
<1> QED
  BY <1>2, StackMoves

\* The fan-out goes on with those who are left.
LEMMA GoingCalls ==
  ASSUME Typed, stack # <<>>, Top.at = "fanOut", NEW t
  PROVE  \E g \in FrameSet :
           /\ g.at = "fanOut" /\ g.up = Top.up /\ g.what = Top.what /\ g.rest = Left \ {t}
           /\ g.hands = Top.hands
           /\ Going(t) = Append(Rest, g) /\ Going(t) \in Seq(FrameSet)
           /\ ToSet(Going(t)) = Below \cup {g}
<1>1. Top \in FrameSet /\ Rest \in Seq(FrameSet)
  BY TopPopped
<1>2. Left \ {t} \in SUBSET Consumers
  BY <1>1 DEF Left, FrameSet
<1> DEFINE g == [Top EXCEPT !.rest = Left \ {t}]
<1>3. /\ g \in FrameSet /\ g.at = "fanOut" /\ g.up = Top.up /\ g.what = Top.what
      /\ g.rest = Left \ {t} /\ g.hands = Top.hands
  <2> DEFINE R == Left \ {t}
  <2>1. R \in SUBSET Consumers
    BY <1>2
  <2> HIDE DEF R
  <2>2. /\ [Top EXCEPT !.rest = R] \in FrameSet
        /\ [Top EXCEPT !.rest = R].at = Top.at
        /\ [Top EXCEPT !.rest = R].up = Top.up
        /\ [Top EXCEPT !.rest = R].what = Top.what
        /\ [Top EXCEPT !.rest = R].rest = R
        /\ [Top EXCEPT !.rest = R].hands = Top.hands
    BY <1>1, <2>1 DEF FrameSet
  <2> QED
    BY <2>2 DEF R
<1>4. Going(t) = Append(Rest, g)
  BY DEF Going
<1> HIDE DEF g
<1>5. Append(Rest, g) \in Seq(FrameSet) /\ ToSet(Append(Rest, g)) = Below \cup {g}
  BY <1>1, <1>3, OnePushed DEF Below
<1> QED
  BY <1>3, <1>4, <1>5, Zenon

LEMMA DeliverValueCalls ==
  ASSUME Typed, DeliverValue
  PROVE  /\ stack # <<>> /\ stack' \in Seq(FrameSet)
         /\ Top.at = "fanOut" /\ Top.what = "value" /\ Top.up \in DOMAIN upstreams
         /\ \E t \in Consumers, g \in FrameSet :
              /\ NextLeft(t)
              /\ seen' = [seen EXCEPT ![t] = Top.hands]
              /\ g.at = "fanOut" /\ g.up = Top.up /\ g.what = Top.what
              /\ g.rest = Left \ {t} /\ g.hands = Top.hands
              /\ stack' = Append(Append(Rest, g), Sink(t, "value"))
              /\ Frames' = Below \cup {g, Sink(t, "value")}
         /\ UNCHANGED <<source, consumers, connection, shared, upstreams, escaped>>
<1>1. /\ stack # <<>> /\ Top.at = "fanOut" /\ Top.what = "value"
      /\ UNCHANGED <<source, consumers, connection, shared, upstreams, escaped>>
  BY DEF DeliverValue, At
<1>2. Top.up \in DOMAIN upstreams
  BY <1>1, TopPopped DEF FrameOK
<1>3. PICK t \in Consumers :
        /\ NextLeft(t)
        /\ seen' = [seen EXCEPT ![t] = Top.hands]
        /\ stack' = Append(Going(t), Sink(t, "value"))
  BY DEF DeliverValue
<1>4. PICK g \in FrameSet :
        /\ g.at = "fanOut" /\ g.up = Top.up /\ g.what = Top.what /\ g.rest = Left \ {t}
        /\ g.hands = Top.hands
        /\ Going(t) = Append(Rest, g) /\ Going(t) \in Seq(FrameSet)
        /\ ToSet(Going(t)) = Below \cup {g}
  BY <1>1, GoingCalls
<1>5. Sink(t, "value") \in FrameSet
  BY FramesMade DEF Whats
<1>6. stack' \in Seq(FrameSet) /\ ToSet(stack') = Below \cup {g} \cup {Sink(t, "value")}
  BY <1>3, <1>4, <1>5, OnePushed, Zenon
<1>7. Frames' = Below \cup {g, Sink(t, "value")}
  BY <1>6 DEF Frames
<1> QED
  BY <1>1, <1>2, <1>3, <1>4, <1>6, <1>7, Zenon

LEMMA DeliverTerminalCalls ==
  ASSUME Typed, DeliverTerminal
  PROVE  /\ stack # <<>> /\ Top.at = "fanOut" /\ Top.what = "terminal"
         /\ Top.up \in DOMAIN upstreams
         /\ \E t \in Consumers, g \in FrameSet, below \in Seq(FrameSet) :
              /\ NextLeft(t)
              /\ consumers' = [consumers EXCEPT ![t] = "ended"]
              /\ g.at = "fanOut" /\ g.up = Top.up /\ g.what = Top.what
              /\ g.rest = Left \ {t} /\ g.hands = Top.hands
              /\ below = Append(Append(Rest, g), Sink(t, "terminal"))
              /\ ToSet(below) = Below \cup {g, Sink(t, "terminal")}
              /\ Disconnect(t, below)
              /\ Calling(Below \cup {g, Sink(t, "terminal")})
         /\ UNCHANGED <<source, seen, escaped>>
<1>1. /\ stack # <<>> /\ Top.at = "fanOut" /\ Top.what = "terminal"
      /\ UNCHANGED <<source, seen, escaped>>
  BY DEF DeliverTerminal, At
<1>2. Top.up \in DOMAIN upstreams
  BY <1>1, TopPopped DEF FrameOK
<1>3. PICK t \in Consumers :
        /\ NextLeft(t)
        /\ consumers' = [consumers EXCEPT ![t] = "ended"]
        /\ Disconnect(t, Append(Going(t), Sink(t, "terminal")))
  BY DEF DeliverTerminal
<1>4. PICK g \in FrameSet :
        /\ g.at = "fanOut" /\ g.up = Top.up /\ g.what = Top.what /\ g.rest = Left \ {t}
        /\ g.hands = Top.hands
        /\ Going(t) = Append(Rest, g) /\ Going(t) \in Seq(FrameSet)
        /\ ToSet(Going(t)) = Below \cup {g}
  BY <1>1, GoingCalls
<1>5. Sink(t, "terminal") \in FrameSet
  BY FramesMade DEF Whats
<1> DEFINE below == Append(Append(Rest, g), Sink(t, "terminal"))
<1>6. below \in Seq(FrameSet) /\ ToSet(below) = Below \cup {g} \cup {Sink(t, "terminal")}
  BY <1>4, <1>5, OnePushed, Zenon
<1>7. ToSet(below) = Below \cup {g, Sink(t, "terminal")}
  BY <1>6
<1>8. Disconnect(t, below)
  BY <1>3, <1>4, Zenon
<1> HIDE DEF below
<1>9. Calling(Below \cup {g, Sink(t, "terminal")})
  <2>1. Calling(ToSet(below))
    BY <1>6, <1>8, DisconnectCalls
  <2> QED
    BY <1>7, <2>1, Zenon
<1>10. below = Append(Append(Rest, g), Sink(t, "terminal"))
  BY DEF below
<1> QED
  BY <1>1, <1>2, <1>3, <1>4, <1>6, <1>7, <1>8, <1>9, <1>10, Zenon

LEMMA FannedOutCalls ==
  ASSUME Typed, FannedOut
  PROVE  /\ stack # <<>> /\ stack' \in Seq(FrameSet)
         /\ Top.at = "fanOut" /\ Top.up \in DOMAIN upstreams /\ Left = {}
         /\ Top.what \in {"value", "terminal"}
         /\ \/ /\ Top.what = "value" /\ stack' = Rest /\ Frames' = Below
               /\ UNCHANGED upstreams
            \/ Top.what = "terminal" /\ Unsubscribe(Top.up, "terminal", Rest)
         /\ UNCHANGED <<source, consumers, connection, seen, shared, escaped>>
<1>1. /\ stack # <<>> /\ Top.at = "fanOut" /\ Left = {}
      /\ UNCHANGED <<source, consumers, connection, seen, shared, escaped>>
  BY DEF FannedOut, At
<1>2. /\ Top.up \in DOMAIN upstreams /\ Top.what \in {"value", "terminal"}
      /\ Rest \in Seq(FrameSet)
  BY <1>1, TopPopped DEF FrameOK
<1>3. CASE Top.what = "terminal"
  <2>1. Unsubscribe(Top.up, "terminal", Rest)
    BY <1>3 DEF FannedOut
  <2>2. stack' \in Seq(FrameSet)
    BY <1>2, <2>1, UnsubscribeDoes
  <2> QED
    BY <1>1, <1>2, <1>3, <2>1, <2>2, Zenon
<1>4. CASE Top.what = "value"
  <2>1. stack' = Rest /\ UNCHANGED upstreams
    BY <1>4 DEF FannedOut
  <2> QED
    BY <1>1, <1>2, <1>4, <2>1, StackPopped, Zenon
<1> QED
  BY <1>2, <1>3, <1>4, Zenon

LEMMA TornDownCalls ==
  ASSUME Typed, TornDown
  PROVE  /\ stack # <<>> /\ stack' \in Seq(FrameSet) /\ Top.at = "teardown"
         /\ stack' = Rest /\ Frames' = Below
         /\ escaped' \in {escaped, escaped \/ Top.what = "terminal"}
         /\ UNCHANGED <<source, consumers, connection, seen, shared, upstreams>>
<1>1. /\ stack # <<>> /\ Top.at = "teardown" /\ stack' = Rest
      /\ escaped' \in {escaped, escaped \/ Top.what = "terminal"}
      /\ UNCHANGED <<source, consumers, connection, seen, shared, upstreams>>
  BY DEF TornDown, At
<1> QED
  BY <1>1, StackPopped, Zenon

LEMMA SunkCalls ==
  ASSUME Typed, Sunk
  PROVE  /\ stack # <<>> /\ stack' \in Seq(FrameSet) /\ Top.at = "sink"
         /\ stack' = Rest /\ Frames' = Below
         /\ UNCHANGED <<source, consumers, connection, seen, shared, upstreams, escaped>>
<1>1. /\ stack # <<>> /\ Top.at = "sink" /\ stack' = Rest
      /\ UNCHANGED <<source, consumers, connection, seen, shared, upstreams, escaped>>
  BY DEF Sunk, At
<1> QED
  BY <1>1, StackPopped, Zenon

LEMMA CloseCalls ==
  ASSUME Typed, NEW t \in Consumers, Close(t)
  PROVE  /\ stack' \in Seq(FrameSet) /\ MayCall("close") /\ consumers[t] = "live"
         /\ consumers' = [consumers EXCEPT ![t] = "ended"]
         /\ stack' = Append(stack, Call("closing", t, None))
         /\ Frames' = Frames \cup {Call("closing", t, None)}
         /\ UNCHANGED <<source, connection, seen, shared, upstreams, escaped>>
<1>1. /\ MayCall("close") /\ consumers[t] = "live"
      /\ consumers' = [consumers EXCEPT ![t] = "ended"]
      /\ stack' = Append(stack, Call("closing", t, None))
      /\ UNCHANGED <<source, connection, seen, shared, upstreams, escaped>>
  BY DEF Close
<1>2. Call("closing", t, None) \in FrameSet
  BY FramesMade DEF Points, Outside, None
<1> QED
  BY <1>1, <1>2, StackMoves, Zenon

LEMMA ClosedCalls ==
  ASSUME Typed, Closed
  PROVE  /\ stack # <<>> /\ Top.at = "closing" /\ Top.who \in Consumers
         /\ Rest \in Seq(FrameSet) /\ Disconnect(Top.who, Rest) /\ Calling(Below)
         /\ UNCHANGED <<source, consumers, seen, escaped>>
<1>1. /\ stack # <<>> /\ Top.at = "closing" /\ Disconnect(Top.who, Rest)
      /\ UNCHANGED <<source, consumers, seen, escaped>>
  BY DEF Closed, At
<1>2. Rest \in Seq(FrameSet) /\ Top.who \in Consumers
  BY <1>1, TopPopped DEF FrameOK
<1> QED
  BY <1>1, <1>2, DisconnectCalls DEF Below

-----------------------------------------------------------------------------
(* Types *)

LEMMA InitTyped == Init => Typed
<1> SUFFICES ASSUME Init PROVE Typed
  OBVIOUS
<1>1. upstreams \in Seq(UpstreamSet) /\ stack \in Seq(FrameSet) /\ DOMAIN upstreams = {}
  BY DEF Init
<1>2. Frames = {}
  BY ValuesEmpty DEF Init, Frames
<1>3. kind \in AllKinds /\ nested \in BOOLEAN /\ shared = None /\ escaped \in BOOLEAN
  BY KindsAssumption DEF Init
<1>4. value = 0 /\ value \in 0 .. MaxValues /\ seen \in [Consumers -> 0 .. value]
  BY BoundAssumption DEF Init, None
<1>5. /\ consumers \in [Consumers -> {"unused", "live", "ended"}]
      /\ connection \in [Consumers -> {Connecting, None} \cup DOMAIN upstreams]
  BY DEF Init
<1> QED
  BY <1>1, <1>2, <1>3, <1>4, <1>5 DEF Typed

LEMMA UpstreamChanged ==
  ASSUME Typed, NEW u \in DOMAIN upstreams, NEW n \in UpstreamSet,
         upstreams' = [upstreams EXCEPT ![u] = n]
  PROVE  upstreams' \in Seq(UpstreamSet) /\ DOMAIN upstreams' = DOMAIN upstreams
<1>1. upstreams \in Seq(UpstreamSet)
  BY DEF Typed
<1>2. upstreams \in [1 .. Len(upstreams) -> UpstreamSet] /\ Len(upstreams) \in Nat
  BY <1>1
<1>3. upstreams' \in [1 .. Len(upstreams) -> UpstreamSet]
  BY <1>2
<1> QED
  BY <1>2, <1>3

LEMMA DisconnectTyped ==
  ASSUME Typed, NEW t \in Consumers, NEW below \in Seq(FrameSet), Disconnect(t, below),
         \A f \in ToSet(below) : FrameOK(f),
         consumers' \in [Consumers -> {"unused", "live", "ended"}],
         UNCHANGED <<source, seen, escaped>>
  PROVE  Typed'
<1>1. /\ connection' = [connection EXCEPT ![t] = None]
      /\ upstreams' \in Seq(UpstreamSet) /\ DOMAIN upstreams' = DOMAIN upstreams
      /\ shared' \in {shared, None}
      /\ stack' \in Seq(FrameSet)
      /\ \/ Frames' = ToSet(below)
         \/ \E u \in DOMAIN upstreams :
              Frames' = ToSet(below) \cup {Frame("teardown", None, u, "release", {})}
  <2>1. /\ connection' = [connection EXCEPT ![t] = None]
        /\ upstreams' \in Seq(UpstreamSet) /\ DOMAIN upstreams' = DOMAIN upstreams
        /\ shared' = IF LastOf(t) /\ shared = connection[t] THEN None ELSE shared
        /\ stack' \in Seq(FrameSet)
        /\ \/ Frames' = ToSet(below)
           \/ \E u \in DOMAIN upstreams :
                Frames' = ToSet(below) \cup {Frame("teardown", None, u, "release", {})}
    BY DisconnectDoes, Zenon
  <2> QED
    BY <2>1
<1>2. \A f \in Frames' : FrameOK(f)'
  <2> SUFFICES ASSUME NEW f \in Frames' PROVE FrameOK(f)'
    OBVIOUS
  <2>1. CASE f \in ToSet(below)
    BY <1>1, <2>1 DEF FrameOK, source
  <2>2. CASE \E u \in DOMAIN upstreams : f = Frame("teardown", None, u, "release", {})
    BY <1>1, <2>2, ValueNumber DEF FrameOK, Frame, source
  <2> QED
    BY <1>1, <2>1, <2>2
<1> QED
  BY <1>1, <1>2 DEF Typed, source

LEMMA OpenTyped ==
  ASSUME Typed, NEW t \in Consumers, NEW below \in Seq(FrameSet), Open(t, below),
         \A f \in ToSet(below) : FrameOK(f),
         consumers' \in [Consumers -> {"unused", "live", "ended"}],
         UNCHANGED <<source, seen, escaped>>
  PROVE  Typed'
<1> DEFINE u == Len(upstreams) + 1
<1>0. u = Len(upstreams) + 1
  OBVIOUS
<1> HIDE DEF u
<1>1. /\ upstreams' \in Seq(UpstreamSet) /\ DOMAIN upstreams' = DOMAIN upstreams \cup {u}
      /\ connection' = [connection EXCEPT ![t] = u]
      /\ shared' = IF kind = "scoped" THEN None ELSE u
      /\ stack' \in Seq(FrameSet)
      /\ Frames' = ToSet(below) \cup {Call("subscribing", t, u)}
  BY <1>0, OpenDoes
<1>2. \A f \in Frames' : FrameOK(f)'
  <2> SUFFICES ASSUME NEW f \in Frames' PROVE FrameOK(f)'
    OBVIOUS
  <2>1. CASE f \in ToSet(below)
    BY <1>1, <2>1 DEF FrameOK, source
  <2>2. CASE f = Call("subscribing", t, u)
    BY <1>1, <2>2, ValueNumber DEF FrameOK, Call, Frame, source
  <2> QED
    BY <1>1, <2>1, <2>2
<1> QED
  BY <1>1, <1>2 DEF Typed, source

\* A step that leaves the upstreams and adds no more than the frames of N.
LEMMA QuietTyped ==
  ASSUME Typed, NEW N, Frames' \subseteq Frames \cup N, \A f \in N : FrameOK(f),
         stack' \in Seq(FrameSet), UNCHANGED <<kind, upstreams>>,
         value' \in 0 .. MaxValues, value <= value', nested' \in BOOLEAN,
         consumers' \in [Consumers -> {"unused", "live", "ended"}],
         connection' \in [Consumers -> {Connecting, None} \cup DOMAIN upstreams],
         seen' \in [Consumers -> 0 .. value'],
         shared' = shared, escaped' \in BOOLEAN
  PROVE  Typed'
<1>1. \A h \in 0 .. value : h \in 0 .. value'
  BY BoundAssumption DEF Typed
<1>2. \A f \in Frames' : FrameOK(f)'
  BY <1>1 DEF Typed, FrameOK
<1> QED
  BY <1>2 DEF Typed

LEMMA FailTyped ==
  ASSUME Typed, stack # <<>>, NEW t \in Consumers, Fail(t),
         UNCHANGED <<source, consumers, seen, escaped>>
  PROVE  Typed'
<1> DEFINE f == Call("failing", t, None)
           below == Append(Rest, f)
<1>1. below \in Seq(FrameSet) /\ Disconnect(t, below)
  BY FailCalls
<1>2. ToSet(below) = Below \cup {f}
  BY TopPopped, OnePushed, FramesMade DEF Below, Points, None
<1>3. \A g \in ToSet(below) : FrameOK(g)
  <2>1. FrameOK(f)
    BY ValueNumber DEF FrameOK, Call, Frame
  <2>2. \A g \in Below : FrameOK(g)
    BY TopPopped DEF Typed
  <2> QED
    BY <1>2, <2>1, <2>2
<1> HIDE DEF below
<1> QED
  BY <1>1, <1>3, DisconnectTyped DEF Typed

LEMMA TypedStep == Typed /\ [Next]_vars => Typed'
<1> SUFFICES ASSUME Typed, [Next]_vars PROVE Typed'
  OBVIOUS
<1>a. /\ kind \in AllKinds /\ value \in 0 .. MaxValues /\ value <= value /\ nested \in BOOLEAN
      /\ consumers \in [Consumers -> {"unused", "live", "ended"}]
      /\ connection \in [Consumers -> {Connecting, None} \cup DOMAIN upstreams]
      /\ upstreams \in Seq(UpstreamSet) /\ DOMAIN upstreams = 1 .. Len(upstreams)
      /\ seen \in [Consumers -> 0 .. value]
      /\ shared \in {None} \cup DOMAIN upstreams /\ escaped \in BOOLEAN
      /\ stack \in Seq(FrameSet) /\ \A f \in Frames : FrameOK(f)
  BY BoundAssumption DEF Typed
<1>b. stack # <<>> => /\ Rest \in Seq(FrameSet) /\ Below \subseteq Frames
                      /\ \A f \in ToSet(Rest) : FrameOK(f)
  BY <1>a, TopPopped DEF Below
<1>1. ASSUME NEW t \in Consumers, Connect(t) PROVE Typed'
  <2>1. consumers' \in [Consumers -> {"unused", "live", "ended"}]
    BY <1>1, <1>a, ConnectCalls
  <2>2. CASE kind = "scoped"
    <3>1. /\ stack' \in Seq(FrameSet) /\ connection' = [connection EXCEPT ![t] = Connecting]
          /\ Frames' = Frames \cup {Call("factory", t, None)}
          /\ UNCHANGED <<kind, value, nested, seen, escaped, shared, upstreams>>
      BY <1>1, <2>2, ConnectCalls
    <3>2. FrameOK(Call("factory", t, None))
      BY ValueNumber DEF FrameOK, Call, Frame
    <3> QED
      BY <1>a, <2>1, <3>1, <3>2, QuietTyped
  <2>3. CASE kind # "scoped" /\ shared = None
    <3>1. Open(t, stack) /\ UNCHANGED <<source, seen, escaped>>
      BY <1>1, <2>3 DEF Connect
    <3> QED
      BY <1>a, <2>1, <3>1, OpenTyped DEF Frames
  <2>4. CASE kind # "scoped" /\ shared # None
    <3>1. /\ stack' \in Seq(FrameSet) /\ shared \in DOMAIN upstreams
          /\ connection' = [connection EXCEPT ![t] = shared]
          /\ Frames' \subseteq Frames \cup {Call("getValue", t, shared)}
          /\ UNCHANGED <<kind, value, nested, seen, escaped, shared, upstreams>>
      BY <1>1, <2>4, ConnectCalls
    <3>2. FrameOK(Call("getValue", t, shared))
      BY <3>1, ValueNumber DEF FrameOK, Call, Frame
    <3> QED
      BY <1>a, <2>1, <3>1, <3>2, QuietTyped
  <2> QED
    BY <2>2, <2>3, <2>4
<1>2. CASE Failing
  <2> DEFINE f == Sink(Top.who, "terminal")
  <2>1. /\ stack # <<>> /\ stack' \in Seq(FrameSet) /\ Top.who \in Consumers
        /\ consumers' = [consumers EXCEPT ![Top.who] = "ended"] \/ consumers' = consumers
        /\ Frames' \subseteq Below \cup {f}
        /\ UNCHANGED <<kind, value, nested, connection, seen, shared, upstreams, escaped>>
    BY <1>2, FailingCalls DEF source
  <2>2. FrameOK(f)
    BY <2>1, ValueNumber DEF FrameOK, Sink, Frame
  <2> HIDE DEF f
  <2>3. consumers' \in [Consumers -> {"unused", "live", "ended"}]
    BY <1>a, <2>1
  <2> QED
    BY <1>a, <1>b, <2>1, <2>2, <2>3, QuietTyped
<1>3. CASE Factory
  <2>1. /\ stack # <<>> /\ Top.who \in Consumers
        /\ UNCHANGED <<source, consumers, seen, escaped>>
    BY <1>3, FactoryCalls
  <2>2. CASE Open(Top.who, Rest)
    BY <1>a, <1>b, <2>1, <2>2, OpenTyped
  <2>3. CASE Fail(Top.who)
    BY <2>1, <2>3, FailTyped
  <2>4. CASE stack' = Rest /\ UNCHANGED <<connection, shared, upstreams>>
    BY <1>a, <1>b, <2>1, <2>4, StackPopped, QuietTyped DEF source
  <2> QED
    BY <1>3, <2>2, <2>3, <2>4, FactoryCalls
<1>4. CASE GetValue
  <2> DEFINE f == Sink(Top.who, "value")
  <2>1. /\ stack # <<>> /\ stack' \in Seq(FrameSet) /\ Top.who \in Consumers
        /\ seen' = [seen EXCEPT ![Top.who] = value] \/ seen' = seen
        /\ Frames' \subseteq Below \cup {f}
        /\ UNCHANGED <<kind, value, nested, consumers, connection, shared, upstreams, escaped>>
    BY <1>4, GetValueCalls DEF source
  <2>2. FrameOK(f)
    BY <2>1, ValueNumber DEF FrameOK, Sink, Frame
  <2> HIDE DEF f
  <2>3. seen' \in [Consumers -> 0 .. value']
    BY <1>a, <2>1, BoundAssumption
  <2> QED
    BY <1>a, <1>b, <2>1, <2>2, <2>3, QuietTyped
<1>5. CASE GetValueThrows
  BY <1>5, GetValueThrowsCalls, FailTyped
<1>6. CASE FirstValue
  <2>1. /\ stack # <<>> /\ stack' \in Seq(FrameSet) /\ Top.up \in DOMAIN upstreams
        /\ UNCHANGED <<kind, value, nested, consumers, connection, seen, shared, upstreams>>
        /\ UNCHANGED escaped
    BY <1>6, FirstValueCalls DEF source
  <2>2. PICK g \in FrameSet :
          /\ g.at = "subscribing" /\ g.who = Top.who /\ g.up = Top.up /\ g.hands = Top.hands
          /\ Frames' = Below \cup {g, FanOut(Top.up, "value", value)}
    BY <1>6, FirstValueCalls
  <2>3. FrameOK(g)
    <3>1. FrameOK(Top) /\ Top.at = "subscribing"
      BY <1>6, <2>1, TopPopped, FirstValueCalls
    <3> QED
      BY <2>2, <3>1 DEF FrameOK
  <2>4. PICK f : f = FanOut(Top.up, "value", value)
    OBVIOUS
  <2>5. FrameOK(f)
    BY <2>1, <2>4, ValueNumber DEF FrameOK, FanOut, Frame
  <2>6. Frames' \subseteq Frames \cup {g, f} /\ \A h \in {g, f} : FrameOK(h)
    BY <1>b, <2>1, <2>2, <2>3, <2>4, <2>5
  <2> QED
    BY <1>a, <2>1, <2>6, QuietTyped
<1>7. CASE Subscribed
  <2> DEFINE f == Frame("teardown", None, Top.up, "subscribe", {})
  <2>1. /\ stack # <<>> /\ stack' \in Seq(FrameSet) /\ Top.up \in DOMAIN upstreams
        /\ upstreams' = [upstreams EXCEPT
             ![Top.up].producer = IF upstreams[Top.up].closed THEN "done" ELSE "attached"]
        /\ Frames' \subseteq Below \cup {f}
        /\ UNCHANGED <<kind, value, nested, consumers, connection, seen, shared, escaped>>
    BY <1>7, SubscribedCalls DEF source
  <2>2. upstreams' \in Seq(UpstreamSet) /\ DOMAIN upstreams' = DOMAIN upstreams
    <3> DEFINE p == IF upstreams[Top.up].closed THEN "done" ELSE "attached"
    <3>1. [upstreams[Top.up] EXCEPT !.producer = p] \in UpstreamSet
      <4>1. upstreams[Top.up] \in UpstreamSet /\ p \in {"subscribing", "attached", "done"}
        BY <1>a, <2>1
      <4> HIDE DEF p
      <4> QED
        BY <4>1 DEF UpstreamSet
    <3>2. upstreams' = [upstreams EXCEPT ![Top.up] = [upstreams[Top.up] EXCEPT !.producer = p]]
      BY <2>1
    <3> DEFINE n == [upstreams[Top.up] EXCEPT !.producer = p]
    <3>3. n \in UpstreamSet /\ upstreams' = [upstreams EXCEPT ![Top.up] = n]
      BY <3>1, <3>2
    <3> HIDE DEF n
    <3> QED
      BY <2>1, <3>3, UpstreamChanged
  <2>3. FrameOK(f)
    BY <2>1, ValueNumber DEF FrameOK, Frame
  <2> HIDE DEF f
  <2>4. \A g \in Frames' : FrameOK(g)'
    BY <1>a, <1>b, <2>1, <2>2, <2>3 DEF FrameOK
  <2> QED
    BY <1>a, <2>1, <2>2, <2>4 DEF Typed
<1>8. CASE SubscribeThrows
  <2> DEFINE f == Call("failing", Top.who, None)
             n == [stopped |-> TRUE, closed |-> TRUE, producer |-> "done"]
  <2>1. /\ stack # <<>> /\ stack' \in Seq(FrameSet) /\ Top.who \in Consumers
        /\ connection' = [connection EXCEPT ![Top.who] = None]
        /\ upstreams' = [upstreams EXCEPT ![Top.up] = n] /\ shared' = None
        /\ Frames' = Below \cup {f}
        /\ UNCHANGED <<kind, value, nested, consumers, seen, escaped>>
    BY <1>8, SubscribeThrowsCalls DEF source
  <2>2. n \in UpstreamSet
    BY DEF UpstreamSet
  <2>3. FrameOK(f)
    BY <2>1, ValueNumber DEF FrameOK, Call, Frame
  <2> HIDE DEF f, n
  <2>4. upstreams' \in Seq(UpstreamSet) /\ DOMAIN upstreams' = DOMAIN upstreams
    <3>1. Top.up \in DOMAIN upstreams
      BY <1>8, SubscribeThrowsCalls
    <3> QED
      BY <2>1, <2>2, <3>1, UpstreamChanged
  <2>5. \A g \in Frames' : FrameOK(g)'
    BY <1>a, <1>b, <2>1, <2>3, <2>4 DEF FrameOK
  <2> QED
    BY <1>a, <2>1, <2>4, <2>5 DEF Typed
<1>9. CASE DeliverValue
  <2>1. /\ stack # <<>> /\ stack' \in Seq(FrameSet) /\ Top.up \in DOMAIN upstreams
        /\ Top.what = "value"
        /\ UNCHANGED <<kind, value, nested, consumers, connection, shared, upstreams, escaped>>
    BY <1>9, DeliverValueCalls DEF source
  <2>2. PICK t \in Consumers, g \in FrameSet :
          /\ seen' = [seen EXCEPT ![t] = Top.hands]
          /\ g.at = "fanOut" /\ g.up = Top.up /\ g.what = Top.what /\ g.hands = Top.hands
          /\ Frames' = Below \cup {g, Sink(t, "value")}
    BY <1>9, DeliverValueCalls
  <2>h. Top.hands \in 0 .. value
    BY <2>1, TopPopped DEF FrameOK
  <2>3. FrameOK(g) /\ FrameOK(Sink(t, "value"))
    BY <2>1, <2>2, <2>h, ValueNumber DEF FrameOK, Sink, Frame
  <2>4. seen' \in [Consumers -> 0 .. value']
    BY <1>a, <2>1, <2>2, <2>h
  <2> DEFINE N == {g, Sink(t, "value")}
  <2>5. Frames' \subseteq Frames \cup N /\ \A f \in N : FrameOK(f)
    BY <1>b, <2>1, <2>2, <2>3
  <2> HIDE DEF N
  <2> QED
    BY <1>a, <2>1, <2>4, <2>5, QuietTyped
<1>10. CASE DeliverTerminal
  <2>1. /\ stack # <<>> /\ Top.up \in DOMAIN upstreams /\ Top.what = "terminal"
        /\ UNCHANGED <<source, seen, escaped>>
    BY <1>10, DeliverTerminalCalls
  <2>2. PICK t \in Consumers, g \in FrameSet, below \in Seq(FrameSet) :
          /\ consumers' = [consumers EXCEPT ![t] = "ended"]
          /\ g.at = "fanOut" /\ g.up = Top.up /\ g.what = Top.what /\ g.hands = Top.hands
          /\ ToSet(below) = Below \cup {g, Sink(t, "terminal")}
          /\ Disconnect(t, below)
    BY <1>10, DeliverTerminalCalls
  <2>h. FrameOK(Top)
    BY <2>1, TopPopped
  <2>3. FrameOK(g) /\ FrameOK(Sink(t, "terminal"))
    BY <2>1, <2>2, <2>h, ValueNumber DEF FrameOK, Sink, Frame
  <2>4. consumers' \in [Consumers -> {"unused", "live", "ended"}]
    BY <1>a, <2>2
  <2>5. \A f \in ToSet(below) : FrameOK(f)
    BY <1>b, <2>1, <2>2, <2>3 DEF Below
  <2> QED
    BY <2>1, <2>2, <2>4, <2>5, DisconnectTyped
<1>11. CASE FannedOut
  <2>1. /\ stack # <<>> /\ stack' \in Seq(FrameSet) /\ Top.up \in DOMAIN upstreams
        /\ UNCHANGED <<kind, value, nested, consumers, connection, seen, shared, escaped>>
    BY <1>11, FannedOutCalls DEF source
  <2>2. CASE Top.what = "value"
    BY <1>11, <1>a, <1>b, <2>1, <2>2, FannedOutCalls, QuietTyped
  <2>3. CASE Top.what = "terminal"
    <3> DEFINE f == Frame("teardown", None, Top.up, "terminal", {})
    <3>1. Unsubscribe(Top.up, "terminal", Rest)
      BY <1>11, <2>3, FannedOutCalls
    <3>2. /\ upstreams' \in Seq(UpstreamSet) /\ DOMAIN upstreams' = DOMAIN upstreams
          /\ Frames' = Below \/ Frames' = Below \cup {f}
      BY <1>b, <2>1, <3>1, UnsubscribeDoes DEF Below
    <3>3. FrameOK(f)
      BY <2>1, ValueNumber DEF FrameOK, Frame
    <3> HIDE DEF f
    <3>4. \A g \in Frames' : FrameOK(g)'
      BY <1>a, <1>b, <2>1, <3>2, <3>3 DEF FrameOK
    <3> QED
      BY <1>a, <2>1, <3>2, <3>4 DEF Typed
  <2> QED
    BY <1>11, <2>2, <2>3, FannedOutCalls
<1>12. CASE TornDown
  <2>1. /\ stack # <<>> /\ stack' \in Seq(FrameSet) /\ Frames' = Below
        /\ escaped' \in BOOLEAN
        /\ UNCHANGED <<kind, value, nested, consumers, connection, seen, shared, upstreams>>
    BY <1>12, <1>a, TornDownCalls DEF source
  <2> QED
    BY <1>a, <1>b, <2>1, QuietTyped
<1>13. CASE Sunk
  BY <1>13, <1>a, <1>b, SunkCalls, QuietTyped DEF source
<1>14. CASE Closed
  BY <1>14, <1>a, <1>b, ClosedCalls, DisconnectTyped
<1>15. ASSUME NEW t \in Consumers, Close(t) PROVE Typed'
  <2>1. /\ stack' \in Seq(FrameSet) /\ consumers' = [consumers EXCEPT ![t] = "ended"]
        /\ Frames' = Frames \cup {Call("closing", t, None)}
        /\ UNCHANGED <<kind, value, nested, connection, seen, shared, upstreams, escaped>>
    BY <1>15, CloseCalls DEF source
  <2>2. FrameOK(Call("closing", t, None))
    BY ValueNumber DEF FrameOK, Call, Frame
  <2>3. consumers' \in [Consumers -> {"unused", "live", "ended"}]
    BY <1>a, <2>1
  <2> DEFINE N == {Call("closing", t, None)}
  <2>4. Frames' \subseteq Frames \cup N /\ \A f \in N : FrameOK(f)
    BY <2>1, <2>2
  <2> HIDE DEF N
  <2> QED
    BY <1>a, <2>1, <2>3, <2>4, QuietTyped
<1>16. ASSUME NEW u \in DOMAIN upstreams, Emit(u) PROVE Typed'
  <2>1. /\ value < MaxValues /\ value' = value + 1 /\ nested' \in BOOLEAN
        /\ stack' = Append(stack, FanOut(u, "value", value + 1))
        /\ UNCHANGED <<kind, consumers, connection, seen, shared, upstreams, escaped>>
    BY <1>16 DEF Emit
  <2>2. PICK f : /\ f = FanOut(u, "value", value + 1)
                 /\ stack' \in Seq(FrameSet) /\ Frames' = Frames \cup {f}
    BY <2>1, EmitCalls, ValueNumber
  <2>3. /\ value' \in 0 .. MaxValues /\ value <= value'
        /\ seen' \in [Consumers -> 0 .. value']
    BY <1>a, <2>1, BoundAssumption
  <2>4. FrameOK(f)'
    BY <2>1, <2>2, <2>3, ValueNumber DEF FrameOK, FanOut, Frame
  <2>5. \A g \in Frames' : FrameOK(g)'
    BY <1>a, <2>1, <2>2, <2>4, ValueNumber DEF FrameOK
  <2> QED
    BY <1>a, <2>1, <2>2, <2>3, <2>5 DEF Typed
<1>17. ASSUME NEW u \in DOMAIN upstreams, End(u) PROVE Typed'
  <2>1. /\ upstreams' = [upstreams EXCEPT ![u].stopped = TRUE]
        /\ stack' = Append(stack, FanOut(u, "terminal", None))
        /\ UNCHANGED <<kind, value, nested, consumers, connection, seen, shared, escaped>>
    BY <1>17 DEF End, source
  <2>2. stack' \in Seq(FrameSet) /\ Frames' = Frames \cup {FanOut(u, "terminal", None)}
    BY <2>1, EmitCalls, ValueNumber
  <2>3. FrameOK(FanOut(u, "terminal", None))
    BY ValueNumber DEF FrameOK, FanOut, Frame
  <2>4. upstreams' \in Seq(UpstreamSet) /\ DOMAIN upstreams' = DOMAIN upstreams
    <3> DEFINE n == [upstreams[u] EXCEPT !.stopped = TRUE]
    <3>1. n \in UpstreamSet /\ upstreams' = [upstreams EXCEPT ![u] = n]
      <4>1. upstreams[u] \in UpstreamSet
        BY <1>a
      <4> QED
        BY <2>1, <4>1 DEF UpstreamSet
    <3> HIDE DEF n
    <3> QED
      BY <3>1, UpstreamChanged
  <2>5. \A g \in Frames' : FrameOK(g)'
    BY <1>a, <2>1, <2>2, <2>3, <2>4 DEF FrameOK
  <2> QED
    BY <1>a, <2>1, <2>2, <2>4, <2>5 DEF Typed
<1>18. CASE Change
  <2>1. /\ value < MaxValues /\ value' = value + 1 /\ nested' = FALSE
        /\ UNCHANGED <<kind, consumers, connection, seen, shared, upstreams, escaped, stack>>
    BY <1>18 DEF Change
  <2>2. /\ value' \in 0 .. MaxValues /\ value <= value'
        /\ seen' \in [Consumers -> 0 .. value']
    BY <1>a, <2>1, BoundAssumption
  <2>3. stack' \in Seq(FrameSet) /\ Frames' \subseteq Frames \cup {}
    BY <1>a, <2>1 DEF Frames
  <2>4. nested' \in BOOLEAN
    BY <2>1
  <2> QED
    BY <1>a, <2>1, <2>2, <2>3, <2>4, QuietTyped
<1>19. CASE UNCHANGED vars
  BY <1>19, <1>a DEF vars, source, Typed, Frames, FrameOK
<1> QED
  BY <1>1, <1>2, <1>3, <1>4, <1>5, <1>6, <1>7, <1>8, <1>9, <1>10, <1>11, <1>12, <1>13,
     <1>14, <1>15, <1>16, <1>17, <1>18, <1>19
  DEF Next, Return, Active

-----------------------------------------------------------------------------
(* One upstream at a time *)

LEMMA MembersAre ==
  ASSUME NEW u
  PROVE  /\ \A t \in Consumers : t \in Members(u) <=> connection[t] = u
         /\ Members(u) \subseteq Consumers
BY DEF Members

LEMMA MembersThen ==
  ASSUME NEW u
  PROVE  /\ \A t \in Consumers : t \in Members(u)' <=> connection'[t] = u
         /\ Members(u)' \subseteq Consumers
BY DEF Members

\* A consumer leaves its upstream and no other one.
LEMMA MemberLeft ==
  ASSUME Typed, NEW t \in Consumers, connection' = [connection EXCEPT ![t] = None], NEW u,
         u # None
  PROVE  Members(u)' = Members(u) \ {t}
<1>1. \A s \in Consumers : connection'[s] = IF s = t THEN None ELSE connection[s]
  BY DEF Typed
<1> QED
  BY <1>1 DEF Members

LEMMA UpstreamNumber ==
  ASSUME Typed, NEW u \in DOMAIN upstreams
  PROVE  u # None /\ u # Connecting /\ upstreams[u] \in UpstreamSet
<1>1. upstreams \in Seq(UpstreamSet) /\ u \in Nat \ {0}
  BY DEF Typed
<1> QED
  BY <1>1 DEF None, Connecting

LEMMA DisconnectShare ==
  ASSUME Typed, OneShare, NEW t \in Consumers, NEW below \in Seq(FrameSet),
         Disconnect(t, below), kind' = kind
  PROVE  OneShare'
<1> SUFFICES ASSUME kind # "scoped"
             PROVE  /\ \A s \in Consumers : connection'[s] \in {None, shared'}
                    /\ shared' # None => Members(shared)' # {}
                    /\ \A u \in DOMAIN upstreams' : u # shared' => upstreams'[u].closed
  BY DEF OneShare
<1>1. /\ \A s \in Consumers : connection[s] \in {None, shared}
      /\ shared # None => Members(shared) # {}
      /\ \A u \in DOMAIN upstreams : u # shared => upstreams[u].closed
  BY DEF OneShare
<1>2. /\ connection' = [connection EXCEPT ![t] = None]
      /\ DOMAIN upstreams' = DOMAIN upstreams
      /\ \A v \in DOMAIN upstreams :
           upstreams'[v] = IF LastOf(t) /\ v = connection[t]
                           THEN Unsubscribed(upstreams[v]) ELSE upstreams[v]
      /\ shared' = IF LastOf(t) /\ shared = connection[t] THEN None ELSE shared
  BY DisconnectDoes
<1>3. \A s \in Consumers : connection'[s] = IF s = t THEN None ELSE connection[s]
  BY <1>2 DEF Typed
<1>4. shared \in {None} \cup DOMAIN upstreams
  BY DEF Typed
<1>5. \A u : Unsubscribed(upstreams[u]).closed
  BY DEF Unsubscribed
<1>6. CASE LastOf(t)
  <2>1. connection[t] = shared /\ Members(shared) = {t} /\ shared' = None
    BY <1>1, <1>2, <1>6, UpstreamNumber DEF LastOf
  <2>2. \A s \in Consumers : connection'[s] = None
    BY <1>1, <1>3, <2>1, MembersAre
  <2> QED
    BY <1>1, <1>2, <1>5, <1>6, <2>1, <2>2
<1>7. CASE ~LastOf(t)
  <2>1. shared' = shared
    BY <1>2, <1>7
  <2>2. ASSUME shared # None PROVE Members(shared)' # {}
    <3>1. PICK u : u = shared
      OBVIOUS
    <3>2. Members(u)' = Members(u) \ {t}
      BY <1>2, <2>2, <3>1, MemberLeft
    <3>3. u \in DOMAIN upstreams /\ Members(u) # {}
      BY <1>1, <1>4, <2>2, <3>1
    <3>4. Members(u) # {t}
      BY <1>7, <3>3, MembersAre DEF LastOf
    <3>5. Members(u)' # {}
      BY <3>2, <3>3, <3>4
    <3> QED
      BY <2>1, <3>1, <3>5 DEF Members
  <2> QED
    BY <1>1, <1>2, <1>3, <1>7, <2>1, <2>2
<1> QED
  BY <1>6, <1>7

LEMMA OpenShare ==
  ASSUME Typed, OneShare, NEW t \in Consumers, NEW below \in Seq(FrameSet),
         Open(t, below), kind # "scoped" => shared = None, kind' = kind
  PROVE  OneShare'
<1> SUFFICES ASSUME kind # "scoped"
             PROVE  /\ \A s \in Consumers : connection'[s] \in {None, shared'}
                    /\ shared' # None => Members(shared)' # {}
                    /\ \A u \in DOMAIN upstreams' : u # shared' => upstreams'[u].closed
  BY DEF OneShare
<1>1. /\ \A s \in Consumers : connection[s] = None
      /\ \A u \in DOMAIN upstreams : upstreams[u].closed
  BY UpstreamNumber DEF OneShare
<1>0. PICK u : u = Len(upstreams) + 1
  OBVIOUS
<1>2. /\ DOMAIN upstreams' = DOMAIN upstreams \cup {u}
      /\ \A v \in DOMAIN upstreams : upstreams'[v] = upstreams[v]
      /\ connection' = [connection EXCEPT ![t] = u]
      /\ shared' = u
  BY <1>0, OpenDoes
<1>3. \A s \in Consumers : connection'[s] = IF s = t THEN u ELSE connection[s]
  BY <1>2 DEF Typed
<1>4. t \in Members(u)'
  BY <1>3 DEF Members
<1>5. Members(shared)' # {}
  BY <1>2, <1>4 DEF Members
<1> QED
  BY <1>1, <1>2, <1>3, <1>5

LEMMA QuietShare ==
  ASSUME OneShare, UNCHANGED <<kind, connection, shared>>,
         DOMAIN upstreams' = DOMAIN upstreams,
         \A u \in DOMAIN upstreams : upstreams[u].closed => upstreams'[u].closed
  PROVE  OneShare'
BY DEF OneShare, Members

LEMMA FailShare ==
  ASSUME Typed, OneShare, stack # <<>>, NEW t \in Consumers, Fail(t), kind' = kind
  PROVE  OneShare'
<1> DEFINE below == Append(Rest, Call("failing", t, None))
<1>1. below \in Seq(FrameSet) /\ Disconnect(t, below)
  BY FailCalls
<1> HIDE DEF below
<1> QED
  BY <1>1, DisconnectShare

LEMMA OneShareStep == Typed /\ OneShare /\ [Next]_vars => OneShare'
<1> SUFFICES ASSUME Typed, OneShare, [Next]_vars PROVE OneShare'
  OBVIOUS
<1>a. /\ connection \in [Consumers -> {Connecting, None} \cup DOMAIN upstreams]
      /\ shared \in {None} \cup DOMAIN upstreams
      /\ upstreams \in Seq(UpstreamSet) /\ stack \in Seq(FrameSet)
      /\ stack # <<>> => Rest \in Seq(FrameSet)
  BY TopPopped DEF Typed
<1>0. ASSUME UNCHANGED <<kind, connection, shared, upstreams>> PROVE OneShare'
  BY <1>0, QuietShare
<1>1. ASSUME NEW t \in Consumers, Connect(t) PROVE OneShare'
  <2>1. kind' = kind
    BY <1>1, ConnectCalls
  <2>2. CASE kind = "scoped"
    BY <2>1, <2>2 DEF OneShare
  <2>3. CASE kind # "scoped" /\ shared = None
    <3>1. Open(t, stack)
      BY <1>1, <2>3 DEF Connect
    <3> QED
      BY <1>a, <2>1, <2>3, <3>1, OpenShare
  <2>4. CASE kind # "scoped" /\ shared # None
    <3>1. /\ connection' = [connection EXCEPT ![t] = shared]
          /\ UNCHANGED <<shared, upstreams>>
      BY <1>1, <2>4, ConnectCalls
    <3>2. \A s \in Consumers : connection'[s] = IF s = t THEN shared ELSE connection[s]
      BY <1>a, <3>1
    <3>3. Members(shared)' # {}
      BY <3>1, <3>2 DEF Members
    <3> QED
      BY <2>1, <2>4, <3>1, <3>2, <3>3 DEF OneShare
  <2> QED
    BY <2>2, <2>3, <2>4
<1>2. CASE Failing
  BY <1>2, <1>0, FailingCalls DEF source
<1>3. CASE Factory
  <2>1. /\ stack # <<>> /\ Top.who \in Consumers /\ kind' = kind
    BY <1>3, FactoryCalls DEF source
  <2>2. CASE connection[Top.who] = Connecting /\ Open(Top.who, Rest)
    <3>1. kind = "scoped"
      BY <1>a, <2>1, <2>2, UpstreamNumber DEF OneShare, None, Connecting
    <3> QED
      BY <1>a, <2>1, <2>2, <3>1, OpenShare
  <2>3. CASE Fail(Top.who)
    BY <2>1, <2>3, FailShare
  <2>4. CASE UNCHANGED <<connection, shared, upstreams>>
    BY <1>0, <2>1, <2>4
  <2> QED
    BY <1>3, <2>2, <2>3, <2>4, FactoryCalls
<1>4. CASE GetValue
  BY <1>4, <1>0, GetValueCalls DEF source
<1>5. CASE GetValueThrows
  BY <1>5, GetValueThrowsCalls, FailShare DEF source
<1>6. CASE FirstValue
  BY <1>6, <1>0, FirstValueCalls DEF source
<1>7. CASE Subscribed
  <2>1. /\ Top.up \in DOMAIN upstreams
        /\ upstreams' = [upstreams EXCEPT
             ![Top.up].producer = IF upstreams[Top.up].closed THEN "done" ELSE "attached"]
        /\ UNCHANGED <<kind, connection, shared>>
    BY <1>7, SubscribedCalls DEF source
  <2>2. upstreams[Top.up] \in UpstreamSet
    BY <2>1, UpstreamNumber
  <2>3. \A u \in DOMAIN upstreams : upstreams'[u].closed = upstreams[u].closed
    BY <2>1, <2>2 DEF UpstreamSet
  <2> QED
    BY <2>1, <2>3, QuietShare
<1>8. CASE SubscribeThrows
  <2>1. /\ Top.up \in DOMAIN upstreams /\ Top.who \in Consumers
        /\ Members(Top.up) = {Top.who}
        /\ connection' = [connection EXCEPT ![Top.who] = None]
        /\ shared' = None
        /\ upstreams' = [upstreams EXCEPT ![Top.up] =
                           [stopped |-> TRUE, closed |-> TRUE, producer |-> "done"]]
        /\ kind' = kind
    BY <1>8, SubscribeThrowsCalls DEF source
  <2>2. CASE kind = "scoped"
    BY <2>1, <2>2 DEF OneShare
  <2>3. CASE kind # "scoped"
    <3>1. connection[Top.who] = Top.up
      BY <2>1, MembersAre
    <3>2. shared = Top.up
      BY <2>1, <2>3, <3>1, UpstreamNumber DEF OneShare
    <3>3. \A s \in Consumers : connection'[s] = None
      <4>1. \A s \in Consumers : connection'[s] = IF s = Top.who THEN None ELSE connection[s]
        BY <1>a, <2>1
      <4>2. \A s \in Consumers : s # Top.who => connection[s] = None
        BY <2>1, <2>3, <3>2, MembersAre DEF OneShare
      <4> QED
        BY <4>1, <4>2
    <3>4. \A u \in DOMAIN upstreams : upstreams'[u].closed
      BY <2>1, <2>3, <3>2 DEF OneShare
    <3> QED
      BY <2>1, <2>3, <3>3, <3>4 DEF OneShare
  <2> QED
    BY <2>2, <2>3
<1>9. CASE DeliverValue
  BY <1>9, <1>0, DeliverValueCalls DEF source
<1>10. CASE DeliverTerminal
  <2>1. kind' = kind
    BY <1>10, DeliverTerminalCalls DEF source
  <2>2. PICK t \in Consumers, below \in Seq(FrameSet) : Disconnect(t, below)
    BY <1>10, DeliverTerminalCalls
  <2> QED
    BY <2>1, <2>2, DisconnectShare
<1>11. CASE FannedOut
  <2>1. /\ stack # <<>> /\ Top.up \in DOMAIN upstreams
        /\ UNCHANGED <<kind, connection, shared>>
    BY <1>11, FannedOutCalls DEF source
  <2>2. CASE UNCHANGED upstreams
    BY <1>0, <2>1, <2>2
  <2>3. CASE Unsubscribe(Top.up, "terminal", Rest)
    <3>1. /\ DOMAIN upstreams' = DOMAIN upstreams
          /\ \A v \in DOMAIN upstreams :
               upstreams'[v] = IF v = Top.up THEN Unsubscribed(upstreams[v]) ELSE upstreams[v]
      BY <1>a, <2>1, <2>3, UnsubscribeDoes
    <3>2. \A u \in DOMAIN upstreams : upstreams[u].closed => upstreams'[u].closed
      BY <3>1 DEF Unsubscribed
    <3> QED
      BY <2>1, <3>1, <3>2, QuietShare
  <2> QED
    BY <1>11, <2>2, <2>3, FannedOutCalls
<1>12. CASE TornDown
  BY <1>12, <1>0, TornDownCalls DEF source
<1>13. CASE Sunk
  BY <1>13, <1>0, SunkCalls DEF source
<1>14. CASE Closed
  BY <1>14, ClosedCalls, DisconnectShare DEF source
<1>15. ASSUME NEW t \in Consumers, Close(t) PROVE OneShare'
  BY <1>15, <1>0, CloseCalls DEF source
<1>16. ASSUME NEW u \in DOMAIN upstreams, Emit(u) PROVE OneShare'
  BY <1>16, <1>0 DEF Emit
<1>17. ASSUME NEW u \in DOMAIN upstreams, End(u) PROVE OneShare'
  <2>1. /\ upstreams' = [upstreams EXCEPT ![u].stopped = TRUE]
        /\ UNCHANGED <<kind, connection, shared>>
    BY <1>17 DEF End, source
  <2>2. upstreams[u] \in UpstreamSet
    BY UpstreamNumber
  <2>3. \A v \in DOMAIN upstreams : upstreams'[v].closed = upstreams[v].closed
    BY <2>1, <2>2 DEF UpstreamSet
  <2> QED
    BY <2>1, <2>3, QuietShare
<1>18. CASE Change
  BY <1>18, <1>0 DEF Change
<1>19. CASE UNCHANGED vars
  BY <1>19, <1>0 DEF vars, source
<1> QED
  BY <1>1, <1>2, <1>3, <1>4, <1>5, <1>6, <1>7, <1>8, <1>9, <1>10, <1>11, <1>12, <1>13,
     <1>14, <1>15, <1>16, <1>17, <1>18, <1>19
  DEF Next, Return, Active

-----------------------------------------------------------------------------
(* How far the upstreams are *)

\* The subscribing calls in progress go on.
SubscribingKept ==
  \A f \in Frames : f.at = "subscribing" =>
    \E g \in Frames' : g.at = "subscribing" /\ g.up = f.up

LEMMA QuietLife ==
  ASSUME UpstreamLife, UNCHANGED <<connection, upstreams>>, SubscribingKept
  PROVE  UpstreamLife'
<1> SUFFICES ASSUME NEW u \in DOMAIN upstreams
             PROVE  Living(u)'
  BY DEF UpstreamLife
<1>1. Members(u)' = Members(u)
  BY DEF Members
<1> QED
  BY <1>1 DEF UpstreamLife, Living, SubscribingKept

LEMMA DisconnectLife ==
  ASSUME Typed, UpstreamLife, NEW t \in Consumers, NEW below \in Seq(FrameSet),
         Disconnect(t, below), SubscribingKept
  PROVE  UpstreamLife'
<1>1. /\ connection' = [connection EXCEPT ![t] = None]
      /\ DOMAIN upstreams' = DOMAIN upstreams
      /\ \A v \in DOMAIN upstreams :
           upstreams'[v] = IF LastOf(t) /\ v = connection[t]
                           THEN Unsubscribed(upstreams[v]) ELSE upstreams[v]
  BY DisconnectDoes
<1> SUFFICES ASSUME NEW u \in DOMAIN upstreams
             PROVE  Living(u)'
  BY <1>1 DEF UpstreamLife
<1>2. Members(u)' = Members(u) \ {t}
  BY <1>1, UpstreamNumber, MemberLeft
<1>3. /\ upstreams[u].closed => upstreams[u].stopped /\ upstreams[u].producer # "attached"
      /\ upstreams[u].producer = "done" => upstreams[u].closed
      /\ upstreams[u].producer = "subscribing" =>
           \E f \in Frames' : f.at = "subscribing" /\ f.up = u
      /\ Members(u) = {} => upstreams[u].closed
  BY DEF UpstreamLife, Living, SubscribingKept
<1>4. CASE LastOf(t) /\ u = connection[t]
  <2>1. upstreams'[u] = Unsubscribed(upstreams[u])
    BY <1>1, <1>4
  <2> QED
    BY <1>3, <2>1 DEF Unsubscribed, Living
<1>5. CASE ~(LastOf(t) /\ u = connection[t])
  <2>1. upstreams'[u] = upstreams[u]
    BY <1>1, <1>5
  <2>2. Members(u) # {t}
    BY <1>5, MembersAre DEF LastOf
  <2>3. Members(u)' = {} => Members(u) = {}
    BY <1>2, <2>2
  <2> QED
    BY <1>3, <2>1, <2>3 DEF Living
<1> QED
  BY <1>4, <1>5

LEMMA OpenLife ==
  ASSUME Typed, UpstreamLife, NEW t \in Consumers, NEW below \in Seq(FrameSet),
         Open(t, below), connection[t] \in {None, Connecting}, SubscribingKept
  PROVE  UpstreamLife'
<1>0. PICK u : u = Len(upstreams) + 1
  OBVIOUS
<1>1. /\ u \notin DOMAIN upstreams /\ DOMAIN upstreams' = DOMAIN upstreams \cup {u}
      /\ \A v \in DOMAIN upstreams : upstreams'[v] = upstreams[v]
      /\ upstreams'[u] = NewUpstream
      /\ connection' = [connection EXCEPT ![t] = u]
      /\ Frames' = ToSet(below) \cup {Call("subscribing", t, u)}
  BY <1>0, OpenDoes
<1>2. \A s \in Consumers : connection'[s] = IF s = t THEN u ELSE connection[s]
  BY <1>1 DEF Typed
<1> SUFFICES ASSUME NEW v \in DOMAIN upstreams'
             PROVE  Living(v)'
  BY DEF UpstreamLife
<1>3. CASE v = u
  <2>1. Call("subscribing", t, u) \in Frames'
        /\ Call("subscribing", t, u).at = "subscribing" /\ Call("subscribing", t, u).up = u
    BY <1>1 DEF Call, Frame
  <2>2. t \in Members(u)'
    BY <1>2 DEF Members
  <2> QED
    BY <1>1, <1>3, <2>1, <2>2 DEF NewUpstream, Living
<1>4. CASE v # u
  <2>1. v \in DOMAIN upstreams /\ upstreams'[v] = upstreams[v]
    BY <1>1, <1>4
  <2>2. Members(v)' = Members(v)
    BY <1>2, <1>4, <2>1, UpstreamNumber DEF Members
  <2> QED
    BY <2>1, <2>2 DEF UpstreamLife, Living, SubscribingKept
<1> QED
  BY <1>3, <1>4

\* Frames that stay keep every subscribing call.
LEMMA KeptUnder ==
  ASSUME Typed, stack # <<>>, Below \subseteq Frames', Top.at # "subscribing"
  PROVE  SubscribingKept
BY TopPopped DEF SubscribingKept

LEMMA KeptAll ==
  ASSUME Frames \subseteq Frames'
  PROVE  SubscribingKept
BY DEF SubscribingKept

LEMMA FailLife ==
  ASSUME Typed, UpstreamLife, stack # <<>>, NEW t \in Consumers, Fail(t),
         Top.at # "subscribing"
  PROVE  UpstreamLife'
<1> DEFINE below == Append(Rest, Call("failing", t, None))
<1>1. below \in Seq(FrameSet) /\ Disconnect(t, below)
  BY FailCalls
<1>2. Below \subseteq Frames'
  BY FailCalls DEF Calling
<1> HIDE DEF below
<1> QED
  BY <1>1, <1>2, KeptUnder, DisconnectLife

LEMMA UpstreamLifeStep == Typed /\ UpstreamLife /\ ConsumerLife /\ [Next]_vars => UpstreamLife'
<1> SUFFICES ASSUME Typed, UpstreamLife, ConsumerLife, [Next]_vars PROVE UpstreamLife'
  OBVIOUS
<1>a. /\ stack \in Seq(FrameSet)
      /\ stack # <<>> => Rest \in Seq(FrameSet)
      /\ connection \in [Consumers -> {Connecting, None} \cup DOMAIN upstreams]
  BY TopPopped DEF Typed
<1>1. ASSUME NEW t \in Consumers, Connect(t) PROVE UpstreamLife'
  <2>1. Frames \subseteq Frames' /\ SubscribingKept /\ connection[t] = None
    BY <1>1, ConnectCalls, KeptAll DEF ConsumerLife, Settled
  <2>2. CASE kind # "scoped" /\ shared = None
    <3>1. Open(t, stack)
      BY <1>1, <2>2 DEF Connect
    <3> QED
      BY <1>a, <2>1, <3>1, OpenLife
  <2>3. CASE kind = "scoped" \/ shared # None
    <3>1. PICK c : connection' = [connection EXCEPT ![t] = c]
      BY <1>1, <2>3, ConnectCalls
    <3>2. upstreams' = upstreams
      BY <1>1, <2>3, ConnectCalls
    <3>3. \A s \in Consumers : connection'[s] = IF s = t THEN c ELSE connection[s]
      BY <1>a, <3>1
    <3> SUFFICES ASSUME NEW u \in DOMAIN upstreams
                 PROVE  Living(u)'
      BY <3>2 DEF UpstreamLife
    <3>4. Members(u) \subseteq Members(u)'
      BY <2>1, <3>3, UpstreamNumber DEF Members
    <3>5. Members(u)' = {} => Members(u) = {}
      BY <3>4
    <3> QED
      BY <2>1, <3>2, <3>5 DEF UpstreamLife, Living, SubscribingKept
  <2> QED
    BY <2>2, <2>3
<1>2. CASE Failing
  BY <1>2, FailingCalls, KeptUnder, QuietLife
<1>3. CASE Factory
  <2>1. /\ stack # <<>> /\ Top.who \in Consumers /\ Top.at = "factory"
    BY <1>3, FactoryCalls
  <2>2. CASE connection[Top.who] = Connecting /\ Open(Top.who, Rest)
    <3>0. PICK u : u = Len(upstreams) + 1
      OBVIOUS
    <3>1. Below \subseteq Frames'
      <4>1. Rest \in Seq(FrameSet)
        BY <1>a, <2>1
      <4>2. Frames' = ToSet(Rest) \cup {Call("subscribing", Top.who, u)}
        BY <2>1, <2>2, <3>0, <4>1, OpenDoes
      <4> QED
        BY <4>2 DEF Below
    <3> QED
      BY <1>a, <2>1, <2>2, <3>1, KeptUnder, OpenLife
  <2>3. CASE Fail(Top.who)
    BY <2>1, <2>3, FailLife
  <2>4. CASE stack' = Rest /\ UNCHANGED <<connection, shared, upstreams>>
    BY <2>1, <2>4, StackPopped, KeptUnder, QuietLife
  <2> QED
    BY <1>3, <2>2, <2>3, <2>4, FactoryCalls
<1>4. CASE GetValue
  BY <1>4, GetValueCalls, KeptUnder, QuietLife
<1>5. CASE GetValueThrows
  BY <1>5, GetValueThrowsCalls, FailLife
<1>6. CASE FirstValue
  <2>1. /\ stack # <<>> /\ UNCHANGED <<connection, upstreams>>
    BY <1>6, FirstValueCalls
  <2>2. PICK g \in FrameSet :
          /\ g.at = "subscribing" /\ g.up = Top.up
          /\ Frames' = Below \cup {g, FanOut(Top.up, "value", value)}
    BY <1>6, FirstValueCalls
  <2>3. SubscribingKept
    BY <2>1, <2>2, TopPopped DEF SubscribingKept
  <2> QED
    BY <2>1, <2>3, QuietLife
<1>7. CASE Subscribed
  <2>1. /\ stack # <<>> /\ Top.up \in DOMAIN upstreams /\ Below \subseteq Frames'
        /\ upstreams' = [upstreams EXCEPT
             ![Top.up].producer = IF upstreams[Top.up].closed THEN "done" ELSE "attached"]
        /\ connection' = connection
    BY <1>7, SubscribedCalls DEF Calling
  <2>2. upstreams[Top.up] \in UpstreamSet
    BY <2>1, UpstreamNumber
  <2>3. /\ DOMAIN upstreams' = DOMAIN upstreams
        /\ \A v \in DOMAIN upstreams : v # Top.up => upstreams'[v] = upstreams[v]
        /\ upstreams'[Top.up].closed = upstreams[Top.up].closed
        /\ upstreams'[Top.up].stopped = upstreams[Top.up].stopped
        /\ upstreams'[Top.up].producer =
             IF upstreams[Top.up].closed THEN "done" ELSE "attached"
    BY <2>1, <2>2 DEF UpstreamSet
  <2> SUFFICES ASSUME NEW u \in DOMAIN upstreams
               PROVE  Living(u)'
    BY <2>3 DEF UpstreamLife
  <2>4. Members(u)' = Members(u)
    BY <2>1 DEF Members
  <2>5. CASE u = Top.up
    BY <2>3, <2>4, <2>5 DEF UpstreamLife, Living
  <2>6. CASE u # Top.up
    <3>1. \A f \in Frames : f.up = u => f \in Frames'
      BY <2>1, <2>6, TopPopped
    <3> QED
      BY <2>3, <2>4, <2>6, <3>1 DEF UpstreamLife, Living
  <2> QED
    BY <2>5, <2>6
<1>8. CASE SubscribeThrows
  <2>1. /\ stack # <<>> /\ Top.up \in DOMAIN upstreams /\ Top.who \in Consumers
        /\ Members(Top.up) = {Top.who} /\ Below \subseteq Frames'
        /\ connection' = [connection EXCEPT ![Top.who] = None]
        /\ upstreams' = [upstreams EXCEPT ![Top.up] =
                           [stopped |-> TRUE, closed |-> TRUE, producer |-> "done"]]
    BY <1>8, SubscribeThrowsCalls
  <2>2. /\ DOMAIN upstreams' = DOMAIN upstreams
        /\ \A v \in DOMAIN upstreams : v # Top.up => upstreams'[v] = upstreams[v]
        /\ upstreams'[Top.up] = [stopped |-> TRUE, closed |-> TRUE, producer |-> "done"]
    BY <2>1
  <2> SUFFICES ASSUME NEW u \in DOMAIN upstreams
               PROVE  Living(u)'
    BY <2>2 DEF UpstreamLife
  <2>3. CASE u = Top.up
    BY <2>2, <2>3 DEF Living
  <2>4. CASE u # Top.up
    <3>1. \A f \in Frames : f.up = u => f \in Frames'
      BY <2>1, <2>4, TopPopped
    <3>2. connection[Top.who] # u
      BY <2>1, <2>4, MembersAre
    <3>3. PICK t : t = Top.who
      OBVIOUS
    <3>4. Members(u)' = Members(u) \ {t}
      BY <2>1, <3>3, UpstreamNumber, MemberLeft
    <3>5. Members(u)' = Members(u)
      BY <2>1, <3>2, <3>3, <3>4, MembersAre
    <3> QED
      BY <2>2, <2>4, <3>1, <3>5 DEF UpstreamLife, Living
  <2> QED
    BY <2>3, <2>4
<1>9. CASE DeliverValue
  <2>1. /\ stack # <<>> /\ Top.at = "fanOut" /\ UNCHANGED <<connection, upstreams>>
        /\ Below \subseteq Frames'
    BY <1>9, DeliverValueCalls
  <2> QED
    BY <2>1, KeptUnder, QuietLife
<1>10. CASE DeliverTerminal
  <2>1. stack # <<>> /\ Top.at = "fanOut"
    BY <1>10, DeliverTerminalCalls
  <2>2. PICK t \in Consumers, g \in FrameSet, below \in Seq(FrameSet) :
          /\ Disconnect(t, below)
          /\ Calling(Below \cup {g, Sink(t, "terminal")})
    BY <1>10, DeliverTerminalCalls
  <2>3. Below \subseteq Frames'
    BY <2>2 DEF Calling
  <2> QED
    BY <2>1, <2>2, <2>3, KeptUnder, DisconnectLife
<1>11. CASE FannedOut
  <2>1. /\ stack # <<>> /\ Top.up \in DOMAIN upstreams /\ Top.at = "fanOut"
        /\ connection' = connection
    BY <1>11, FannedOutCalls
  <2>2. CASE UNCHANGED upstreams /\ Frames' = Below
    BY <2>1, <2>2, KeptUnder, QuietLife
  <2>3. CASE Unsubscribe(Top.up, "terminal", Rest)
    <3>1. /\ DOMAIN upstreams' = DOMAIN upstreams
          /\ \A v \in DOMAIN upstreams :
               upstreams'[v] = IF v = Top.up THEN Unsubscribed(upstreams[v]) ELSE upstreams[v]
          /\ Below \subseteq Frames'
      BY <1>a, <2>1, <2>3, UnsubscribeDoes DEF Below
    <3>2. SubscribingKept
      BY <2>1, <3>1, KeptUnder
    <3> SUFFICES ASSUME NEW u \in DOMAIN upstreams
                 PROVE  Living(u)'
      BY <3>1 DEF UpstreamLife
    <3>3. Members(u)' = Members(u)
      BY <2>1 DEF Members
    <3> QED
      BY <3>1, <3>2, <3>3 DEF UpstreamLife, Living, SubscribingKept, Unsubscribed
  <2> QED
    BY <1>11, <2>2, <2>3, FannedOutCalls
<1>12. CASE TornDown
  BY <1>12, TornDownCalls, KeptUnder, QuietLife
<1>13. CASE Sunk
  BY <1>13, SunkCalls, KeptUnder, QuietLife
<1>14. CASE Closed
  <2>1. Below \subseteq Frames'
    BY <1>14, ClosedCalls DEF Calling
  <2> QED
    BY <1>14, <2>1, ClosedCalls, KeptUnder, DisconnectLife
<1>15. ASSUME NEW t \in Consumers, Close(t) PROVE UpstreamLife'
  BY <1>15, CloseCalls, KeptAll, QuietLife
<1>16. ASSUME NEW u \in DOMAIN upstreams, Emit(u) PROVE UpstreamLife'
  <2>1. stack' = Append(stack, FanOut(u, "value", value + 1)) /\ UNCHANGED <<connection, upstreams>>
    BY <1>16 DEF Emit
  <2> QED
    BY <2>1, EmitCalls, ValueNumber, KeptAll, QuietLife
<1>17. ASSUME NEW v \in DOMAIN upstreams, End(v) PROVE UpstreamLife'
  <2>1. /\ upstreams' = [upstreams EXCEPT ![v].stopped = TRUE]
        /\ stack' = Append(stack, FanOut(v, "terminal", None)) /\ connection' = connection
    BY <1>17 DEF End
  <2>2. upstreams[v] \in UpstreamSet
    BY UpstreamNumber
  <2>3. /\ DOMAIN upstreams' = DOMAIN upstreams
        /\ \A u \in DOMAIN upstreams :
             /\ upstreams'[u].closed = upstreams[u].closed
             /\ upstreams'[u].producer = upstreams[u].producer
             /\ upstreams[u].stopped => upstreams'[u].stopped
    BY <2>1, <2>2 DEF UpstreamSet
  <2>4. SubscribingKept
    BY <2>1, EmitCalls, ValueNumber, KeptAll
  <2> SUFFICES ASSUME NEW u \in DOMAIN upstreams
               PROVE  Living(u)'
    BY <2>3 DEF UpstreamLife
  <2>5. Members(u)' = Members(u)
    BY <2>1 DEF Members
  <2> QED
    BY <2>3, <2>4, <2>5 DEF UpstreamLife, Living, SubscribingKept
<1>18. CASE Change
  BY <1>18, KeptAll, QuietLife DEF Change, Frames
<1>19. CASE UNCHANGED vars
  BY <1>19, KeptAll, QuietLife DEF vars, source, Frames
<1> QED
  BY <1>1, <1>2, <1>3, <1>4, <1>5, <1>6, <1>7, <1>8, <1>9, <1>10, <1>11, <1>12, <1>13,
     <1>14, <1>15, <1>16, <1>17, <1>18, <1>19
  DEF Next, Return, Active

-----------------------------------------------------------------------------
(* How far the consumers are *)

LEMMA ConsumerTypes ==
  ASSUME Typed, NEW t \in Consumers
  PROVE  /\ consumers[t] \in {"unused", "live", "ended"}
         /\ connection[t] \in {Connecting, None} \cup DOMAIN upstreams
BY DEF Typed

\* The calls of consumers in progress go on, but for those of consumer t.
HeldBut(t) ==
  \A f \in Frames : f.at \in {"closing", "factory", "failing"} /\ f.who # t => f \in Frames'

LEMMA HeldCall ==
  ASSUME NEW p, NEW t, Call(p, t, None) \in Frames'
  PROVE  Held(p, t)'
<1>1. Call(p, t, None).at = p /\ Call(p, t, None).who = t
  BY DEF Call, Frame
<1> QED
  BY <1>1 DEF Held

LEMMA QuietConsumers ==
  ASSUME ConsumerLife, UNCHANGED <<consumers, connection>>,
         \A f \in Frames : f.at \in {"closing", "factory", "failing"} => f \in Frames'
  PROVE  ConsumerLife'
<1> SUFFICES ASSUME NEW t \in Consumers PROVE Settled(t)'
  BY DEF ConsumerLife
<1>1. Settled(t)
  BY DEF ConsumerLife
<1> QED
  BY <1>1 DEF Settled, Held

\* A step of one consumer.
LEMMA OneConsumer ==
  ASSUME ConsumerLife, NEW t \in Consumers, HeldBut(t), Settled(t)',
         \A s \in Consumers : s # t => /\ consumers'[s] = consumers[s]
                                       /\ connection'[s] = connection[s]
  PROVE  ConsumerLife'
<1> SUFFICES ASSUME NEW s \in Consumers, s # t PROVE Settled(s)'
  BY DEF ConsumerLife
<1>1. Settled(s)
  BY DEF ConsumerLife
<1> QED
  BY <1>1 DEF Settled, Held, HeldBut

LEMMA DisconnectConsumers ==
  ASSUME Typed, ConsumerLife, NEW t \in Consumers, NEW below \in Seq(FrameSet),
         Disconnect(t, below), HeldBut(t),
         \A s \in Consumers : s # t => consumers'[s] = consumers[s],
         consumers'[t] = "live" => Held("failing", t)'
  PROVE  ConsumerLife'
<1>1. connection' = [connection EXCEPT ![t] = None]
  BY DisconnectDoes
<1>2. \A s \in Consumers : connection'[s] = IF s = t THEN None ELSE connection[s]
  BY <1>1 DEF Typed
<1>3. Settled(t)'
  BY <1>2 DEF Settled, None, Connecting
<1> QED
  BY <1>2, <1>3, OneConsumer

LEMMA FailConsumers ==
  ASSUME Typed, ConsumerLife, stack # <<>>, Fail(Top.who), Top.who \in Consumers,
         consumers' = consumers
  PROVE  ConsumerLife'
<1>1. PICK t \in Consumers : t = Top.who
  OBVIOUS
<1> DEFINE f == Call("failing", t, None)
           below == Append(Rest, f)
<1>2. /\ below \in Seq(FrameSet) /\ Disconnect(t, below)
      /\ Calling(Below \cup {f})
  BY <1>1, FailCalls
<1>3. f.at = "failing" /\ f.who = t
  BY DEF Call, Frame
<1> HIDE DEF f, below
<1>4. f \in Frames' /\ Below \subseteq Frames'
  BY <1>2 DEF Calling
<1>5. HeldBut(t)
  BY <1>1, <1>4, TopPopped DEF HeldBut
<1>6. Held("failing", t)'
  BY <1>3, <1>4 DEF Held
<1> QED
  BY <1>2, <1>5, <1>6, DisconnectConsumers

LEMMA OpenConsumers ==
  ASSUME Typed, ConsumerLife, NEW t \in Consumers, NEW below \in Seq(FrameSet),
         Open(t, below), HeldBut(t), consumers'[t] # "unused",
         consumers'[t] = "ended" => Held("closing", t)',
         \A s \in Consumers : s # t => consumers'[s] = consumers[s]
  PROVE  ConsumerLife'
<1>0. PICK u : u = Len(upstreams) + 1
  OBVIOUS
<1>1. u \in Nat \ {0} /\ connection' = [connection EXCEPT ![t] = u]
  BY <1>0, OpenDoes
<1>2. \A s \in Consumers : connection'[s] = IF s = t THEN u ELSE connection[s]
  BY <1>1 DEF Typed
<1>3. Settled(t)'
  BY <1>1, <1>2 DEF Settled, None, Connecting
<1> QED
  BY <1>2, <1>3, OneConsumer

LEMMA HeldUnder ==
  ASSUME Typed, stack # <<>>, Below \subseteq Frames',
         Top.at \notin {"closing", "factory", "failing"}
  PROVE  /\ \A f \in Frames : f.at \in {"closing", "factory", "failing"} => f \in Frames'
         /\ \A t : HeldBut(t)
BY TopPopped DEF HeldBut

LEMMA HeldAll ==
  ASSUME Frames \subseteq Frames'
  PROVE  /\ \A f \in Frames : f.at \in {"closing", "factory", "failing"} => f \in Frames'
         /\ \A t : HeldBut(t)
BY DEF HeldBut

LEMMA ConsumerLifeStep ==
  Typed /\ ConsumerLife /\ CallersKnown /\ [Next]_vars => ConsumerLife'
<1> SUFFICES ASSUME Typed, ConsumerLife, CallersKnown, [Next]_vars PROVE ConsumerLife'
  OBVIOUS
<1>a. /\ stack \in Seq(FrameSet)
      /\ stack # <<>> => Rest \in Seq(FrameSet)
      /\ connection \in [Consumers -> {Connecting, None} \cup DOMAIN upstreams]
      /\ consumers \in [Consumers -> {"unused", "live", "ended"}]
  BY TopPopped DEF Typed
<1>1. ASSUME NEW t \in Consumers, Connect(t) PROVE ConsumerLife'
  <2>1. Frames \subseteq Frames' /\ consumers' = [consumers EXCEPT ![t] = "live"]
    BY <1>1, ConnectCalls
  <2>2. \A s \in Consumers : consumers'[s] = IF s = t THEN "live" ELSE consumers[s]
    BY <1>a, <2>1
  <2>3. HeldBut(t)
    BY <2>1, HeldAll
  <2>4. CASE kind # "scoped" /\ shared = None
    <3>1. Open(t, stack)
      BY <1>1, <2>4 DEF Connect
    <3> QED
      BY <1>a, <2>2, <2>3, <3>1, OpenConsumers
  <2>5. CASE kind = "scoped"
    <3>1. /\ connection' = [connection EXCEPT ![t] = Connecting]
          /\ Frames' = Frames \cup {Call("factory", t, None)}
      BY <1>1, <2>5, ConnectCalls
    <3>2. \A s \in Consumers : connection'[s] = IF s = t THEN Connecting ELSE connection[s]
      BY <1>a, <3>1
    <3>3. Held("factory", t)'
      BY <3>1, HeldCall
    <3>4. Settled(t)'
      BY <2>2, <3>2, <3>3 DEF Settled, None, Connecting
    <3> QED
      BY <2>2, <2>3, <3>2, <3>4, OneConsumer
  <2>6. CASE kind # "scoped" /\ shared # None
    <3>1. PICK c \in DOMAIN upstreams : connection' = [connection EXCEPT ![t] = c]
      BY <1>1, <2>6, ConnectCalls
    <3>2. \A s \in Consumers : connection'[s] = IF s = t THEN c ELSE connection[s]
      BY <1>a, <3>1
    <3>3. Settled(t)'
      BY <2>2, <3>1, <3>2, UpstreamNumber DEF Settled
    <3> QED
      BY <2>2, <2>3, <3>2, <3>3, OneConsumer
  <2> QED
    BY <2>4, <2>5, <2>6
<1>2. CASE Failing
  <2>1. /\ stack # <<>> /\ Top.at = "failing" /\ Below \subseteq Frames'
        /\ connection' = connection
    BY <1>2, FailingCalls
  <2>2. PICK t \in Consumers : t = Top.who
    BY <1>2, FailingCalls
  <2>3. connection[t] = None
    BY <2>1, <2>2, TopPopped DEF CallersKnown, KnownCaller
  <2>4. consumers' = [consumers EXCEPT ![t] = IF @ = "live" THEN "ended" ELSE @]
    <3>1. \/ consumers[t] = "live" /\ consumers' = [consumers EXCEPT ![t] = "ended"]
          \/ consumers[t] # "live" /\ consumers' = consumers
      BY <1>2, <2>2, FailingCalls
    <3> QED
      BY <1>a, <3>1
  <2>5. HeldBut(t)
    BY <2>1, <2>2, TopPopped DEF HeldBut
  <2>6. \A s \in Consumers : s # t => consumers'[s] = consumers[s]
    BY <2>4
  <2>7. consumers'[t] # "live"
    BY <1>a, <2>4
  <2>8. Settled(t)'
    BY <2>1, <2>3, <2>7 DEF Settled, None, Connecting
  <2> QED
    BY <2>1, <2>5, <2>6, <2>8, OneConsumer
<1>3. CASE Factory
  <2>1. /\ stack # <<>> /\ Top.at = "factory" /\ Top.who \in Consumers
        /\ consumers' = consumers
    BY <1>3, FactoryCalls
  <2>2. CASE connection[Top.who] = Connecting /\ Open(Top.who, Rest)
    <3>1. PICK t \in Consumers, below \in Seq(FrameSet) : t = Top.who /\ below = Rest
      BY <1>a, <2>1
    <3>2. PICK u : u = Len(upstreams) + 1
      OBVIOUS
    <3>3. Open(t, below) /\ Below = ToSet(below)
      BY <2>2, <3>1 DEF Below
    <3>4. Below \subseteq Frames'
      <4>1. Frames' = ToSet(below) \cup {Call("subscribing", t, u)}
        BY <3>1, <3>2, <3>3, OpenDoes
      <4> QED
        BY <3>3, <4>1
    <3>5. HeldBut(t)
      BY <2>1, <3>1, <3>4, TopPopped DEF HeldBut
    <3>6. Settled(t) /\ connection[t] = Connecting
      BY <2>2, <3>1 DEF ConsumerLife
    <3>7. consumers[t] # "unused"
      BY <3>6 DEF Settled, None, Connecting
    <3>8. consumers[t] = "ended" => Held("closing", t)
      BY <3>6 DEF Settled, None, Connecting
    <3>9. consumers[t] = "ended" => Held("closing", t)'
      BY <2>1, <3>4, <3>8, TopPopped DEF Held
    <3> QED
      BY <2>1, <3>3, <3>5, <3>7, <3>9, OpenConsumers
  <2>3. CASE Fail(Top.who)
    BY <2>1, <2>3, FailConsumers
  <2>4. CASE connection[Top.who] # Connecting /\ stack' = Rest /\ connection' = connection
    <3>1. PICK t \in Consumers : t = Top.who
      BY <2>1
    <3>2. Below \subseteq Frames'
      BY <2>1, <2>4, StackPopped
    <3>3. HeldBut(t)
      BY <2>1, <3>1, <3>2, TopPopped DEF HeldBut
    <3>4. Settled(t) /\ connection[t] # Connecting
      BY <2>4, <3>1 DEF ConsumerLife
    <3>5. Settled(t)'
      BY <2>1, <2>4, <3>2, <3>4, TopPopped DEF Settled, Held
    <3> QED
      BY <2>1, <2>4, <3>3, <3>5, OneConsumer
  <2> QED
    BY <1>3, <2>2, <2>3, <2>4, FactoryCalls
<1>4. CASE GetValue
  <2>1. /\ stack # <<>> /\ Top.at = "getValue" /\ Below \subseteq Frames'
        /\ UNCHANGED <<consumers, connection>>
    BY <1>4, GetValueCalls
  <2> QED
    BY <2>1, HeldUnder, QuietConsumers
<1>5. CASE GetValueThrows
  BY <1>5, GetValueThrowsCalls, FailConsumers
<1>6. CASE FirstValue
  <2>1. /\ stack # <<>> /\ Top.at = "subscribing" /\ Below \subseteq Frames'
        /\ UNCHANGED <<consumers, connection>>
    BY <1>6, FirstValueCalls
  <2> QED
    BY <2>1, HeldUnder, QuietConsumers
<1>7. CASE Subscribed
  <2>1. /\ stack # <<>> /\ Top.at = "subscribing" /\ Below \subseteq Frames'
        /\ UNCHANGED <<consumers, connection>>
    BY <1>7, SubscribedCalls DEF Calling
  <2> QED
    BY <2>1, HeldUnder, QuietConsumers
<1>8. CASE SubscribeThrows
  <2>1. /\ stack # <<>> /\ Top.at = "subscribing" /\ Below \subseteq Frames'
        /\ connection' = [connection EXCEPT ![Top.who] = None]
        /\ Call("failing", Top.who, None) \in Frames'
        /\ consumers' = consumers
    BY <1>8, SubscribeThrowsCalls
  <2>2. PICK t \in Consumers : t = Top.who
    BY <1>8, SubscribeThrowsCalls
  <2>3. \A s \in Consumers : connection'[s] = IF s = t THEN None ELSE connection[s]
    BY <1>a, <2>1, <2>2
  <2>4. Held("failing", t)'
    BY <2>1, <2>2, HeldCall
  <2>5. Settled(t)'
    BY <2>3, <2>4 DEF Settled, None, Connecting
  <2>6. HeldBut(t)
    BY <2>1, HeldUnder
  <2> QED
    BY <2>1, <2>3, <2>5, <2>6, OneConsumer
<1>9. CASE DeliverValue
  <2>1. /\ stack # <<>> /\ Top.at = "fanOut" /\ Below \subseteq Frames'
        /\ UNCHANGED <<consumers, connection>>
    BY <1>9, DeliverValueCalls
  <2> QED
    BY <2>1, HeldUnder, QuietConsumers
<1>10. CASE DeliverTerminal
  <2>1. stack # <<>> /\ Top.at = "fanOut"
    BY <1>10, DeliverTerminalCalls
  <2>2. PICK t \in Consumers, g \in FrameSet, below \in Seq(FrameSet) :
          /\ consumers' = [consumers EXCEPT ![t] = "ended"]
          /\ Disconnect(t, below)
          /\ Calling(Below \cup {g, Sink(t, "terminal")})
    BY <1>10, DeliverTerminalCalls
  <2>3. HeldBut(t)
    BY <2>1, <2>2, HeldUnder DEF Calling
  <2>4. \A s \in Consumers : consumers'[s] = IF s = t THEN "ended" ELSE consumers[s]
    BY <1>a, <2>2
  <2> QED
    BY <2>2, <2>3, <2>4, DisconnectConsumers
<1>11. CASE FannedOut
  <2>1. /\ stack # <<>> /\ Top.at = "fanOut" /\ Top.up \in DOMAIN upstreams
        /\ UNCHANGED <<consumers, connection>>
    BY <1>11, FannedOutCalls
  <2>2. Below \subseteq Frames'
    <3>1. CASE Frames' = Below
      BY <3>1
    <3>2. CASE Unsubscribe(Top.up, "terminal", Rest)
      BY <1>a, <2>1, <3>2, UnsubscribeDoes DEF Below
    <3> QED
      BY <1>11, <3>1, <3>2, FannedOutCalls
  <2> QED
    BY <2>1, <2>2, HeldUnder, QuietConsumers
<1>12. CASE TornDown
  BY <1>12, TornDownCalls, HeldUnder, QuietConsumers
<1>13. CASE Sunk
  BY <1>13, SunkCalls, HeldUnder, QuietConsumers
<1>14. CASE Closed
  <2>1. /\ stack # <<>> /\ Top.at = "closing" /\ Disconnect(Top.who, Rest)
        /\ Rest \in Seq(FrameSet) /\ consumers' = consumers /\ Below \subseteq Frames'
    BY <1>14, ClosedCalls DEF Calling
  <2>2. PICK t \in Consumers : t = Top.who
    BY <1>14, ClosedCalls
  <2>3. HeldBut(t)
    BY <2>1, <2>2, TopPopped DEF HeldBut
  <2>4. consumers[t] = "ended"
    BY <2>1, <2>2, TopPopped DEF CallersKnown, KnownCaller
  <2> QED
    BY <2>1, <2>2, <2>3, <2>4, DisconnectConsumers
<1>15. ASSUME NEW t \in Consumers, Close(t) PROVE ConsumerLife'
  <2>1. /\ consumers' = [consumers EXCEPT ![t] = "ended"]
        /\ Frames' = Frames \cup {Call("closing", t, None)}
        /\ connection' = connection
    BY <1>15, CloseCalls
  <2>2. \A s \in Consumers : consumers'[s] = IF s = t THEN "ended" ELSE consumers[s]
    BY <1>a, <2>1
  <2>3. Held("closing", t)'
    BY <2>1, HeldCall
  <2>4. Settled(t)'
    BY <2>2, <2>3 DEF Settled
  <2>5. HeldBut(t)
    BY <2>1, HeldAll
  <2> QED
    BY <2>1, <2>2, <2>4, <2>5, OneConsumer
<1>16. ASSUME NEW u \in DOMAIN upstreams, Emit(u) PROVE ConsumerLife'
  <2>1. /\ stack' = Append(stack, FanOut(u, "value", value + 1))
        /\ UNCHANGED <<consumers, connection>>
    BY <1>16 DEF Emit
  <2> QED
    BY <2>1, EmitCalls, ValueNumber, HeldAll, QuietConsumers
<1>17. ASSUME NEW u \in DOMAIN upstreams, End(u) PROVE ConsumerLife'
  <2>1. /\ stack' = Append(stack, FanOut(u, "terminal", None))
        /\ UNCHANGED <<consumers, connection>>
    BY <1>17 DEF End
  <2> QED
    BY <2>1, EmitCalls, ValueNumber, HeldAll, QuietConsumers
<1>18. CASE Change
  BY <1>18, HeldAll, QuietConsumers DEF Change, Frames
<1>19. CASE UNCHANGED vars
  BY <1>19, HeldAll, QuietConsumers DEF vars, Frames
<1> QED
  BY <1>1, <1>2, <1>3, <1>4, <1>5, <1>6, <1>7, <1>8, <1>9, <1>10, <1>11, <1>12, <1>13,
     <1>14, <1>15, <1>16, <1>17, <1>18, <1>19
  DEF Next, Return, Active

LEMMA CallersFrom ==
  ASSUME Typed, CallersKnown,
         \A t \in Consumers :
           /\ consumers[t] = "ended" => consumers'[t] = "ended"
           /\ consumers[t] # "unused" =>
                /\ consumers'[t] # "unused"
                /\ connection[t] = None => connection'[t] = None,
         \A f \in Frames' :
           f \in Frames \/ f.at \notin {"closing", "getValue", "failing"} \/ KnownCaller(f)'
  PROVE  CallersKnown'
<1> SUFFICES ASSUME NEW f \in Frames', f \in Frames, f.at \in {"closing", "getValue", "failing"}
             PROVE  KnownCaller(f)'
  BY DEF CallersKnown, KnownCaller
<1>1. f.who \in Consumers
  BY DEF Typed, FrameOK
<1> QED
  BY <1>1 DEF CallersKnown, KnownCaller

LEMMA DisconnectCallers ==
  ASSUME Typed, CallersKnown, NEW t \in Consumers, NEW below \in Seq(FrameSet),
         Disconnect(t, below),
         consumers' = consumers \/ consumers' = [consumers EXCEPT ![t] = "ended"],
         \A f \in Frames' :
           f \in Frames \/ f.at \notin {"closing", "getValue", "failing"} \/ KnownCaller(f)'
  PROVE  CallersKnown'
<1>1. connection' = [connection EXCEPT ![t] = None]
  BY DisconnectDoes
<1>2. /\ \A s \in Consumers : connection'[s] = IF s = t THEN None ELSE connection[s]
      /\ \A s \in Consumers : consumers'[s] \in {consumers[s], "ended"}
  BY <1>1 DEF Typed
<1> QED
  BY <1>2, CallersFrom

LEMMA FailCallers ==
  ASSUME Typed, CallersKnown, ConsumerLife, stack # <<>>, Fail(Top.who),
         Top.who \in Consumers, connection[Top.who] # None, consumers' = consumers
  PROVE  CallersKnown'
<1>1. PICK t \in Consumers : t = Top.who
  OBVIOUS
<1> DEFINE f == Call("failing", t, None)
           below == Append(Rest, f)
<1>2. /\ below \in Seq(FrameSet) /\ Disconnect(t, below)
      /\ Calling(Below \cup {f})
  BY <1>1, FailCalls
<1>3. f.at = "failing" /\ f.who = t
  BY DEF Call, Frame
<1> HIDE DEF f, below
<1>4. consumers[t] # "unused"
  BY <1>1 DEF ConsumerLife, Settled
<1>5. connection'[t] = None
  BY <1>2, DisconnectDoes DEF Typed
<1>6. KnownCaller(f)'
  BY <1>3, <1>4, <1>5 DEF KnownCaller
<1>7. \A g \in Frames' :
        g \in Frames \/ g.at \notin {"closing", "getValue", "failing"} \/ KnownCaller(g)'
  BY <1>2, <1>6, TopPopped DEF Calling
<1> QED
  BY <1>2, <1>7, DisconnectCallers

LEMMA QuietCallers ==
  ASSUME Typed, CallersKnown, UNCHANGED <<consumers, connection>>,
         \A f \in Frames' : f \in Frames \/ f.at \notin {"closing", "getValue", "failing"}
  PROVE  CallersKnown'
BY CallersFrom

LEMMA CallersKnownStep ==
  Typed /\ OneShare /\ ConsumerLife /\ CallersKnown /\ [Next]_vars => CallersKnown'
<1> SUFFICES ASSUME Typed, OneShare, ConsumerLife, CallersKnown, [Next]_vars
             PROVE  CallersKnown'
  OBVIOUS
<1>a. /\ connection \in [Consumers -> {Connecting, None} \cup DOMAIN upstreams]
      /\ consumers \in [Consumers -> {"unused", "live", "ended"}]
  BY DEF Typed
<1>b. stack # <<>> => Rest \in Seq(FrameSet) /\ Below \subseteq Frames
  BY TopPopped
<1>1. ASSUME NEW t \in Consumers, Connect(t) PROVE CallersKnown'
  <2>1. consumers[t] = "unused" /\ consumers' = [consumers EXCEPT ![t] = "live"]
    BY <1>1, ConnectCalls
  <2>2. \A f \in Frames' :
          f \in Frames \/ f.at \notin {"closing", "getValue", "failing"} \/ KnownCaller(f)'
    <3>1. \A f \in Frames' : \/ f \in Frames
                             \/ f.at \notin {"closing", "failing"} /\ f.who = t
      <4>1. PICK u : \/ Frames' = Frames
                     \/ Frames' = Frames \cup {Call("factory", t, u)}
                     \/ Frames' = Frames \cup {Call("subscribing", t, u)}
                     \/ Frames' = Frames \cup {Call("getValue", t, u)}
        BY <1>1, ConnectCalls, Zenon
      <4> QED
        BY <4>1 DEF Call, Frame
    <3>2. consumers'[t] = "live"
      BY <1>a, <2>1
    <3> QED
      BY <3>1, <3>2 DEF KnownCaller
  <2>3. \A s \in Consumers : s # t => connection'[s] = connection[s]
    <3>1. PICK c : connection' = [connection EXCEPT ![t] = c]
      BY <1>1, ConnectCalls DEF Open
    <3> QED
      BY <1>a, <3>1
  <2>4. \A s \in Consumers : consumers'[s] = IF s = t THEN "live" ELSE consumers[s]
    BY <1>a, <2>1
  <2> QED
    BY <2>1, <2>2, <2>3, <2>4, CallersFrom
<1>2. CASE Failing
  <2>1. \A f \in Frames' : f \in Frames \/ f.at \notin {"closing", "getValue", "failing"}
    BY <1>2, <1>b, FailingCalls DEF Sink, Frame
  <2>2. PICK t \in Consumers :
          /\ consumers' = consumers \/ consumers' = [consumers EXCEPT ![t] = "ended"]
          /\ connection' = connection
    BY <1>2, FailingCalls
  <2>3. \A s \in Consumers : consumers'[s] \in {consumers[s], "ended"}
    BY <1>a, <2>2
  <2> QED
    BY <2>1, <2>2, <2>3, CallersFrom
<1>3. CASE Factory
  <2>1. /\ stack # <<>> /\ Top.who \in Consumers /\ consumers' = consumers
    BY <1>3, FactoryCalls
  <2>2. CASE connection[Top.who] = Connecting /\ Open(Top.who, Rest)
    <3>1. PICK t \in Consumers, below \in Seq(FrameSet) : t = Top.who /\ below = Rest
      BY <1>b, <2>1
    <3>2. PICK u : u = Len(upstreams) + 1
      OBVIOUS
    <3>3. Open(t, below) /\ Below = ToSet(below)
      BY <2>2, <3>1 DEF Below
    <3>4. /\ Frames' = ToSet(below) \cup {Call("subscribing", t, u)}
          /\ connection' = [connection EXCEPT ![t] = u]
      BY <3>1, <3>2, <3>3, OpenDoes
    <3>5. \A f \in Frames' : f \in Frames \/ f.at \notin {"closing", "getValue", "failing"}
      BY <1>b, <2>1, <3>3, <3>4 DEF Call, Frame
    <3>6. connection[t] # None
      BY <2>2, <3>1 DEF None, Connecting
    <3>7. \A s \in Consumers : connection[s] = None => connection'[s] = None
      BY <1>a, <3>4, <3>6
    <3> QED
      BY <2>1, <3>5, <3>7, CallersFrom
  <2>3. CASE connection[Top.who] = Connecting /\ Fail(Top.who)
    BY <2>1, <2>3, FailCallers DEF None, Connecting
  <2>4. CASE stack' = Rest /\ connection' = connection
    BY <1>b, <2>1, <2>4, StackPopped, QuietCallers
  <2> QED
    BY <1>3, <2>2, <2>3, <2>4, FactoryCalls
<1>4. CASE GetValue
  <2>1. \A f \in Frames' : f \in Frames \/ f.at \notin {"closing", "getValue", "failing"}
    BY <1>4, <1>b, GetValueCalls DEF Sink, Frame
  <2> QED
    BY <1>4, <2>1, GetValueCalls, QuietCallers
<1>5. CASE GetValueThrows
  <2>1. /\ stack # <<>> /\ Top.at = "getValue" /\ Top.who \in Consumers
        /\ Fail(Top.who) /\ consumers' = consumers
    BY <1>5, GetValueThrowsCalls
  <2>2. PICK t \in Consumers : t = Top.who
    BY <2>1
  <2> DEFINE f == Call("failing", t, None)
             below == Append(Rest, f)
  <2>3. /\ below \in Seq(FrameSet) /\ Disconnect(t, below)
        /\ Calling(Below \cup {f})
    BY <2>1, <2>2, FailCalls
  <2>4. f.at = "failing" /\ f.who = t
    BY DEF Call, Frame
  <2> HIDE DEF f, below
  <2>5. consumers[t] # "unused"
    BY <2>1, <2>2, TopPopped DEF CallersKnown, KnownCaller
  <2>6. connection'[t] = None
    BY <2>3, DisconnectDoes DEF Typed
  <2>7. KnownCaller(f)'
    BY <2>1, <2>4, <2>5, <2>6 DEF KnownCaller
  <2>8. \A g \in Frames' :
          g \in Frames \/ g.at \notin {"closing", "getValue", "failing"} \/ KnownCaller(g)'
    BY <1>b, <2>1, <2>3, <2>7 DEF Calling
  <2> QED
    BY <2>1, <2>3, <2>8, DisconnectCallers
<1>6. CASE FirstValue
  <2>1. /\ stack # <<>> /\ UNCHANGED <<consumers, connection>>
    BY <1>6, FirstValueCalls
  <2>2. PICK g : /\ g.at = "subscribing"
                 /\ Frames' = Below \cup {g, FanOut(Top.up, "value", value)}
    BY <1>6, FirstValueCalls
  <2>3. \A f \in Frames' : f \in Frames \/ f.at \notin {"closing", "getValue", "failing"}
    BY <1>b, <2>1, <2>2 DEF FanOut, Frame
  <2> QED
    BY <2>1, <2>3, QuietCallers
<1>7. CASE Subscribed
  <2>1. \A f \in Frames' : f \in Frames \/ f.at \notin {"closing", "getValue", "failing"}
    BY <1>7, <1>b, SubscribedCalls DEF Calling
  <2> QED
    BY <1>7, <2>1, SubscribedCalls, QuietCallers
<1>8. CASE SubscribeThrows
  <2>1. /\ stack # <<>> /\ Members(Top.up) = {Top.who} /\ Top.up \in DOMAIN upstreams
        /\ connection' = [connection EXCEPT ![Top.who] = None]
        /\ Frames' = Below \cup {Call("failing", Top.who, None)}
        /\ consumers' = consumers
    BY <1>8, SubscribeThrowsCalls
  <2>2. PICK t \in Consumers : t = Top.who
    BY <1>8, SubscribeThrowsCalls
  <2>3. \A s \in Consumers : connection'[s] = IF s = t THEN None ELSE connection[s]
    BY <1>a, <2>1, <2>2
  <2>4. connection[t] # None
    BY <2>1, <2>2, MembersAre, UpstreamNumber
  <2>5. consumers[t] # "unused"
    BY <2>4 DEF ConsumerLife, Settled
  <2>6. KnownCaller(Call("failing", t, None))'
    BY <2>1, <2>3, <2>5 DEF KnownCaller, Call, Frame
  <2>7. \A f \in Frames' :
          f \in Frames \/ f.at \notin {"closing", "getValue", "failing"} \/ KnownCaller(f)'
    BY <1>b, <2>1, <2>2, <2>6
  <2> QED
    BY <2>1, <2>3, <2>7, CallersFrom
<1>9. CASE DeliverValue
  <2>1. /\ stack # <<>> /\ UNCHANGED <<consumers, connection>>
    BY <1>9, DeliverValueCalls
  <2>2. PICK t, g : g.at = "fanOut" /\ Frames' = Below \cup {g, Sink(t, "value")}
    BY <1>9, DeliverValueCalls
  <2>3. \A f \in Frames' : f \in Frames \/ f.at \notin {"closing", "getValue", "failing"}
    BY <1>b, <2>1, <2>2 DEF Sink, Frame
  <2> QED
    BY <2>1, <2>3, QuietCallers
<1>10. CASE DeliverTerminal
  <2>1. stack # <<>>
    BY <1>10, DeliverTerminalCalls
  <2>2. PICK t \in Consumers, g \in FrameSet, below \in Seq(FrameSet) :
          /\ consumers' = [consumers EXCEPT ![t] = "ended"]
          /\ g.at = "fanOut"
          /\ Disconnect(t, below)
          /\ Calling(Below \cup {g, Sink(t, "terminal")})
    BY <1>10, DeliverTerminalCalls
  <2>3. \A f \in Frames' : f \in Frames \/ f.at \notin {"closing", "getValue", "failing"}
    <3>1. Sink(t, "terminal").at = "sink"
      BY DEF Sink, Frame
    <3> QED
      BY <1>b, <2>1, <2>2, <3>1 DEF Calling
  <2> QED
    BY <2>2, <2>3, DisconnectCallers
<1>11. CASE FannedOut
  <2>1. /\ stack # <<>> /\ Top.up \in DOMAIN upstreams
        /\ UNCHANGED <<consumers, connection>>
    BY <1>11, FannedOutCalls
  <2>2. \A f \in Frames' : f \in Frames \/ f.at \notin {"closing", "getValue", "failing"}
    <3>1. CASE Frames' = Below
      BY <1>b, <2>1, <3>1
    <3>2. CASE Unsubscribe(Top.up, "terminal", Rest)
      <4>1. PICK u \in DOMAIN upstreams, below \in Seq(FrameSet) : u = Top.up /\ below = Rest
        BY <1>b, <2>1
      <4>2. \/ Frames' = Below
            \/ Frames' = Below \cup {Frame("teardown", None, u, "terminal", {})}
        BY <3>2, <4>1, UnsubscribeDoes DEF Below
      <4> QED
        BY <1>b, <2>1, <4>2 DEF Frame
    <3> QED
      BY <1>11, <3>1, <3>2, FannedOutCalls
  <2> QED
    BY <2>1, <2>2, QuietCallers
<1>12. CASE TornDown
  BY <1>12, <1>b, TornDownCalls, QuietCallers
<1>13. CASE Sunk
  BY <1>13, <1>b, SunkCalls, QuietCallers
<1>14. CASE Closed
  <2>1. \A f \in Frames' : f \in Frames \/ f.at \notin {"closing", "getValue", "failing"}
    BY <1>14, <1>b, ClosedCalls DEF Calling
  <2> QED
    BY <1>14, <2>1, ClosedCalls, DisconnectCallers
<1>15. ASSUME NEW t \in Consumers, Close(t) PROVE CallersKnown'
  <2>1. /\ consumers' = [consumers EXCEPT ![t] = "ended"]
        /\ Frames' = Frames \cup {Call("closing", t, None)}
        /\ connection' = connection
    BY <1>15, CloseCalls
  <2>2. \A s \in Consumers : consumers'[s] = IF s = t THEN "ended" ELSE consumers[s]
    BY <1>a, <2>1
  <2>3. KnownCaller(Call("closing", t, None))'
    BY <2>2 DEF KnownCaller, Call, Frame
  <2> QED
    BY <2>1, <2>2, <2>3, CallersFrom
<1>16. ASSUME NEW u \in DOMAIN upstreams, Emit(u) PROVE CallersKnown'
  <2>1. /\ stack' = Append(stack, FanOut(u, "value", value + 1))
        /\ UNCHANGED <<consumers, connection>>
    BY <1>16 DEF Emit
  <2>2. \A f \in Frames' : f \in Frames \/ f.at \notin {"closing", "getValue", "failing"}
    <3>1. Frames' = Frames \cup {FanOut(u, "value", value + 1)}
      BY <2>1, EmitCalls, ValueNumber
    <3> QED
      BY <3>1 DEF FanOut, Frame
  <2> QED
    BY <2>1, <2>2, QuietCallers
<1>17. ASSUME NEW u \in DOMAIN upstreams, End(u) PROVE CallersKnown'
  <2>1. /\ stack' = Append(stack, FanOut(u, "terminal", None))
        /\ UNCHANGED <<consumers, connection>>
    BY <1>17 DEF End
  <2>2. \A f \in Frames' : f \in Frames \/ f.at \notin {"closing", "getValue", "failing"}
    <3>1. Frames' = Frames \cup {FanOut(u, "terminal", None)}
      BY <2>1, EmitCalls, ValueNumber
    <3> QED
      BY <3>1 DEF FanOut, Frame
  <2> QED
    BY <2>1, <2>2, QuietCallers
<1>18. CASE Change
  BY <1>18, QuietCallers DEF Change, Frames
<1>19. CASE UNCHANGED vars
  BY <1>19, QuietCallers DEF vars, Frames
<1> QED
  BY <1>1, <1>2, <1>3, <1>4, <1>5, <1>6, <1>7, <1>8, <1>9, <1>10, <1>11, <1>12, <1>13,
     <1>14, <1>15, <1>16, <1>17, <1>18, <1>19
  DEF Next, Return, Active

-----------------------------------------------------------------------------
(* Old values *)

\* Upstreams are only added, and one that has stopped stays stopped.
UpstreamsStay ==
  \A v \in DOMAIN upstreams :
    v \in DOMAIN upstreams' /\ (upstreams[v].stopped => upstreams'[v].stopped)

\* A fan-out of a value that is in progress goes on, or hands out the current value.
ValueCarriedOn(f) ==
  f.at = "fanOut" /\ f.what = "value" =>
    \/ f.hands = value
    \/ \E g \in Frames :
         g.at = "fanOut" /\ g.what = "value" /\ g.up = f.up /\ g.hands = f.hands

LEMMA CurrentKept ==
  ASSUME Typed, NoOldValue, UNCHANGED source, UpstreamsStay,
         \A f \in Frames' : ValueCarriedOn(f)
  PROVE  NoOldValue'
<1> SUFFICES ASSUME kind = "state", ~nested, NEW f \in Frames',
                    f.at = "fanOut", f.what = "value"
             PROVE  f.hands = value \/ upstreams'[f.up].stopped
  BY DEF NoOldValue, Current, source
<1>1. CASE f.hands = value
  BY <1>1
<1>2. CASE f.hands # value
  <2>1. PICK g \in Frames :
          g.at = "fanOut" /\ g.what = "value" /\ g.up = f.up /\ g.hands = f.hands
    BY <1>2 DEF ValueCarriedOn
  <2>2. FrameOK(g) /\ Current(g)
    BY DEF Typed, NoOldValue
  <2>3. g.up \in DOMAIN upstreams /\ upstreams[g.up].stopped
    BY <1>2, <2>1, <2>2 DEF FrameOK, Current
  <2> QED
    BY <2>1, <2>3 DEF UpstreamsStay
<1> QED
  BY <1>1, <1>2

LEMMA DisconnectStay ==
  ASSUME Typed, NEW t \in Consumers, NEW below \in Seq(FrameSet), Disconnect(t, below)
  PROVE  UpstreamsStay
<1>1. /\ DOMAIN upstreams' = DOMAIN upstreams
      /\ \A v \in DOMAIN upstreams :
           upstreams'[v] \in {Unsubscribed(upstreams[v]), upstreams[v]}
  BY DisconnectDoes, Zenon
<1> QED
  BY <1>1 DEF UpstreamsStay, Unsubscribed

LEMMA OpenStay ==
  ASSUME Typed, NEW t \in Consumers, NEW below \in Seq(FrameSet), Open(t, below)
  PROVE  UpstreamsStay
<1>1. PICK u : u = Len(upstreams) + 1
  OBVIOUS
<1>2. /\ DOMAIN upstreams' = DOMAIN upstreams \cup {u}
      /\ \A v \in DOMAIN upstreams : upstreams'[v] = upstreams[v]
  BY <1>1, OpenDoes
<1> QED
  BY <1>2 DEF UpstreamsStay

LEMMA FailCarriesOn ==
  ASSUME Typed, NoOldValue, stack # <<>>, NEW t \in Consumers, Fail(t), UNCHANGED source
  PROVE  NoOldValue'
<1>1. /\ Disconnect(t, Append(Rest, Call("failing", t, None)))
      /\ Append(Rest, Call("failing", t, None)) \in Seq(FrameSet)
      /\ Calling(Below \cup {Call("failing", t, None)})
  BY FailCalls
<1>2. PICK f : f = Call("failing", t, None)
  OBVIOUS
<1>3. f.at # "fanOut"
  BY <1>2 DEF Call, Frame
<1>4. \A g \in Frames' : g \in Frames \/ g.at # "fanOut"
  BY <1>1, <1>2, <1>3, TopPopped DEF Calling
<1>5. \A g \in Frames' : ValueCarriedOn(g)
  BY <1>4 DEF ValueCarriedOn
<1>6. UpstreamsStay
  BY <1>1, DisconnectStay
<1> QED
  BY <1>5, <1>6, CurrentKept

\* A step that leaves the upstreams and adds no fan-out.
LEMMA QuietCurrent ==
  ASSUME Typed, NoOldValue, UNCHANGED source, UpstreamsStay,
         \A f \in Frames' : f \in Frames \/ f.at # "fanOut" \/ f.what = "terminal"
  PROVE  NoOldValue'
<1>1. \A f \in Frames' : ValueCarriedOn(f)
  BY DEF ValueCarriedOn
<1> QED
  BY <1>1, CurrentKept

LEMMA NoOldValueStep ==
  Typed /\ OneShare /\ UpstreamLife /\ NoOldValue /\ [Next]_vars => NoOldValue'
<1> SUFFICES ASSUME Typed, OneShare, UpstreamLife, NoOldValue, [Next]_vars
             PROVE  NoOldValue'
  OBVIOUS
<1>a. stack # <<>> => Rest \in Seq(FrameSet) /\ Frames = Below \cup {Top}
  BY TopPopped
<1>b. stack \in Seq(FrameSet)
  BY DEF Typed
<1>c. upstreams' = upstreams => UpstreamsStay
  BY DEF UpstreamsStay
<1>1. ASSUME NEW t \in Consumers, Connect(t) PROVE NoOldValue'
  <2>1. UNCHANGED source
    BY <1>1 DEF Connect
  <2>2. UpstreamsStay
    BY <1>1, <1>b, <1>c, ConnectCalls, OpenStay
  <2>3. \A f \in Frames' : f \in Frames \/ f.at # "fanOut"
    <3>1. \/ Frames' = Frames
          \/ \E p \in {"factory", "subscribing", "getValue"} :
               \E u : Frames' = Frames \cup {Call(p, t, u)}
      BY <1>1, ConnectCalls, Zenon
    <3> QED
      BY <3>1 DEF Call, Frame
  <2> QED
    BY <2>1, <2>2, <2>3, QuietCurrent
<1>2. CASE Failing
  <2>1. \A f \in Frames' : f \in Frames \/ f.at # "fanOut"
    BY <1>2, <1>a, FailingCalls DEF Sink, Frame
  <2> QED
    BY <1>2, <1>c, <2>1, FailingCalls, QuietCurrent
<1>3. CASE Factory
  <2>1. stack # <<>> /\ Top.who \in Consumers /\ UNCHANGED source
    BY <1>3, FactoryCalls
  <2>2. CASE Open(Top.who, Rest)
    <3>1. PICK t \in Consumers, below \in Seq(FrameSet) : t = Top.who /\ below = Rest
      BY <1>a, <2>1
    <3>2. PICK u : u = Len(upstreams) + 1
      OBVIOUS
    <3>3. Open(t, below) /\ Below = ToSet(below)
      BY <2>2, <3>1 DEF Below
    <3>4. Frames' = ToSet(below) \cup {Call("subscribing", t, u)}
      BY <3>2, <3>3, OpenDoes
    <3>5. \A f \in Frames' : f \in Frames \/ f.at # "fanOut"
      BY <1>a, <2>1, <3>3, <3>4 DEF Call, Frame
    <3> QED
      BY <2>1, <3>3, <3>5, OpenStay, QuietCurrent
  <2>3. CASE Fail(Top.who)
    BY <2>1, <2>3, FailCarriesOn
  <2>4. CASE stack' = Rest /\ upstreams' = upstreams
    BY <1>a, <1>c, <2>1, <2>4, StackPopped, QuietCurrent
  <2> QED
    BY <1>3, <2>2, <2>3, <2>4, FactoryCalls
<1>4. CASE GetValue
  <2>1. \A f \in Frames' : f \in Frames \/ f.at # "fanOut"
    BY <1>4, <1>a, GetValueCalls DEF Sink, Frame
  <2> QED
    BY <1>4, <1>c, <2>1, GetValueCalls, QuietCurrent
<1>5. CASE GetValueThrows
  BY <1>5, GetValueThrowsCalls, FailCarriesOn
<1>6. CASE FirstValue
  <2>1. stack # <<>> /\ UNCHANGED source /\ upstreams' = upstreams
    BY <1>6, FirstValueCalls
  <2>2. PICK g, f : /\ g.at = "subscribing" /\ f = FanOut(Top.up, "value", value)
                    /\ Frames' = Below \cup {g, f}
    BY <1>6, FirstValueCalls
  <2>3. f.hands = value
    BY <2>2 DEF FanOut, Frame
  <2>4. \A h \in Frames' : ValueCarriedOn(h)
    BY <1>a, <2>1, <2>2, <2>3 DEF ValueCarriedOn
  <2> QED
    BY <1>c, <2>1, <2>4, CurrentKept
<1>7. CASE Subscribed
  <2>1. /\ stack # <<>> /\ Top.up \in DOMAIN upstreams /\ UNCHANGED source
        /\ upstreams' = [upstreams EXCEPT
             ![Top.up].producer = IF upstreams[Top.up].closed THEN "done" ELSE "attached"]
        /\ Calling(Below)
    BY <1>7, SubscribedCalls
  <2>2. UpstreamsStay
    <3>1. PICK v \in DOMAIN upstreams, p \in {"done", "attached"} :
            v = Top.up /\ upstreams' = [upstreams EXCEPT ![v] = [@ EXCEPT !.producer = p]]
      BY <2>1
    <3>2. \A w \in DOMAIN upstreams : upstreams[w] \in UpstreamSet
      BY UpstreamNumber
    <3>3. [upstreams[v] EXCEPT !.producer = p].stopped = upstreams[v].stopped
      BY <3>2 DEF UpstreamSet
    <3> QED
      BY <3>1, <3>2, <3>3 DEF Typed, UpstreamsStay
  <2>3. \A f \in Frames' : f \in Frames \/ f.at # "fanOut"
    BY <1>a, <2>1 DEF Calling
  <2> QED
    BY <2>1, <2>2, <2>3, QuietCurrent
<1>8. CASE SubscribeThrows
  <2>1. /\ stack # <<>> /\ Top.up \in DOMAIN upstreams /\ UNCHANGED source
        /\ upstreams' = [upstreams EXCEPT ![Top.up] =
                            [stopped |-> TRUE, closed |-> TRUE, producer |-> "done"]]
        /\ Frames' = Below \cup {Call("failing", Top.who, None)}
    BY <1>8, SubscribeThrowsCalls
  <2>2. UpstreamsStay
    BY <2>1 DEF UpstreamsStay
  <2>3. \A f \in Frames' : f \in Frames \/ f.at # "fanOut"
    BY <1>a, <2>1 DEF Call, Frame
  <2> QED
    BY <2>1, <2>2, <2>3, QuietCurrent
<1>9. CASE DeliverValue
  <2>1. /\ stack # <<>> /\ Top.at = "fanOut" /\ Top.what = "value"
        /\ UNCHANGED <<source, upstreams>>
    BY <1>9, DeliverValueCalls
  <2>2. PICK g, f : /\ g.up = Top.up /\ g.hands = Top.hands
                    /\ f.at = "sink" /\ Frames' = Below \cup {g, f}
    BY <1>9, DeliverValueCalls DEF Sink, Frame
  <2>3. \A h \in Frames' : ValueCarriedOn(h)
    BY <1>a, <2>1, <2>2 DEF ValueCarriedOn
  <2> QED
    BY <1>c, <2>1, <2>3, CurrentKept
<1>10. CASE DeliverTerminal
  <2>1. stack # <<>> /\ Top.what = "terminal" /\ UNCHANGED source
    BY <1>10, DeliverTerminalCalls
  <2>2. PICK t \in Consumers, g \in FrameSet, below \in Seq(FrameSet) :
          /\ g.what = Top.what /\ Disconnect(t, below)
          /\ Calling(Below \cup {g, Sink(t, "terminal")})
    BY <1>10, DeliverTerminalCalls
  <2>3. \A f \in Frames' : f \in Frames \/ f.at # "fanOut" \/ f.what = "terminal"
    BY <1>a, <2>1, <2>2 DEF Calling, Sink, Frame
  <2> QED
    BY <2>1, <2>2, <2>3, DisconnectStay, QuietCurrent
<1>11. CASE FannedOut
  <2>1. stack # <<>> /\ Top.up \in DOMAIN upstreams /\ UNCHANGED source
    BY <1>11, FannedOutCalls
  <2>2. CASE Frames' = Below /\ upstreams' = upstreams
    BY <1>a, <1>c, <2>1, <2>2, QuietCurrent
  <2>3. CASE Unsubscribe(Top.up, "terminal", Rest)
    <3>1. PICK u \in DOMAIN upstreams, below \in Seq(FrameSet) : u = Top.up /\ below = Rest
      BY <1>a, <2>1
    <3>2. /\ DOMAIN upstreams' = DOMAIN upstreams
          /\ \A v \in DOMAIN upstreams :
               upstreams'[v] = IF v = u THEN Unsubscribed(upstreams[v]) ELSE upstreams[v]
          /\ \/ Frames' = Below
             \/ Frames' = Below \cup {Frame("teardown", None, u, "terminal", {})}
      BY <2>3, <3>1, UnsubscribeDoes DEF Below
    <3>3. UpstreamsStay
      BY <3>2 DEF UpstreamsStay, Unsubscribed
    <3>4. \A f \in Frames' : f \in Frames \/ f.at # "fanOut"
      BY <1>a, <2>1, <3>2 DEF Frame
    <3> QED
      BY <2>1, <3>3, <3>4, QuietCurrent
  <2> QED
    BY <1>11, <2>2, <2>3, FannedOutCalls
<1>12. CASE TornDown
  BY <1>12, <1>a, <1>c, TornDownCalls, QuietCurrent
<1>13. CASE Sunk
  BY <1>13, <1>a, <1>c, SunkCalls, QuietCurrent
<1>14. CASE Closed
  <2>1. /\ stack # <<>> /\ Top.who \in Consumers /\ Rest \in Seq(FrameSet)
        /\ Disconnect(Top.who, Rest) /\ Calling(Below) /\ UNCHANGED source
    BY <1>14, ClosedCalls
  <2>2. \A f \in Frames' : f \in Frames \/ f.at # "fanOut"
    BY <1>a, <2>1 DEF Calling
  <2> QED
    BY <2>1, <2>2, DisconnectStay, QuietCurrent
<1>15. ASSUME NEW t \in Consumers, Close(t) PROVE NoOldValue'
  <2>1. \A f \in Frames' : f \in Frames \/ f.at # "fanOut"
    <3>1. PICK f : f = Call("closing", t, None) /\ Frames' = Frames \cup {f}
      BY <1>15, CloseCalls
    <3> QED
      BY <3>1 DEF Call, Frame
  <2> QED
    BY <1>15, <1>c, <2>1, CloseCalls, QuietCurrent
<1>16. ASSUME NEW u \in DOMAIN upstreams, u \in Active, Emit(u) PROVE NoOldValue'
  <2>1. /\ value' = value + 1 /\ UNCHANGED <<kind, upstreams>>
        /\ nested' = \E i \in DOMAIN stack : stack[i].at = "fanOut" /\ stack[i].up = u
        /\ stack' = Append(stack, FanOut(u, "value", value + 1))
    BY <1>16 DEF Emit
  <2>2. PICK f : f = FanOut(u, "value", value + 1) /\ Frames' = Frames \cup {f}
    BY <2>1, EmitCalls, ValueNumber
  <2>3. f.hands = value'
    BY <2>1, <2>2 DEF FanOut, Frame
  <2> SUFFICES ASSUME kind = "state", ~nested', NEW g \in Frames,
                      g.at = "fanOut", g.what = "value"
               PROVE  upstreams[g.up].stopped
    BY <2>1, <2>2, <2>3 DEF NoOldValue, Current
  <2>4. u = shared
    <3>1. ~upstreams[u].stopped
      BY <1>16 DEF Active
    <3> QED
      BY <3>1 DEF OneShare, UpstreamLife, Living
  <2>5. PICK i \in DOMAIN stack : stack[i] = g
    BY <1>b, Values DEF Frames
  <2>6. g.up # u
    BY <2>1, <2>5
  <2>7. g.up \in DOMAIN upstreams
    BY DEF Typed, FrameOK
  <2> QED
    BY <2>4, <2>6, <2>7 DEF OneShare, UpstreamLife, Living
<1>17. ASSUME NEW u \in DOMAIN upstreams, End(u) PROVE NoOldValue'
  <2>1. /\ stack' = Append(stack, FanOut(u, "terminal", None)) /\ UNCHANGED source
        /\ upstreams' = [upstreams EXCEPT ![u].stopped = TRUE]
    BY <1>17 DEF End
  <2>2. PICK f : f = FanOut(u, "terminal", None) /\ Frames' = Frames \cup {f}
    BY <2>1, EmitCalls, ValueNumber DEF None
  <2>3. f.what = "terminal"
    BY <2>2 DEF FanOut, Frame
  <2>4. UpstreamsStay
    <3>1. upstreams[u] \in UpstreamSet
      BY UpstreamNumber
    <3>2. [upstreams[u] EXCEPT !.stopped = TRUE].stopped
      BY <3>1 DEF UpstreamSet
    <3> QED
      BY <2>1, <3>2 DEF Typed, UpstreamsStay
  <2> QED
    BY <2>1, <2>2, <2>3, <2>4, QuietCurrent
<1>18. CASE Change
  <2>1. Active = {} /\ UNCHANGED <<kind, stack, upstreams>>
    BY <1>18 DEF Change
  <2>2. \A f \in Frames' : f \in Frames /\ FrameOK(f)
    BY <2>1 DEF Frames, Typed
  <2>3. \A f \in Frames' : f.at = "fanOut" => upstreams'[f.up].stopped
    BY <2>1, <2>2 DEF FrameOK, Active, UpstreamLife, Living
  <2> QED
    BY <2>3 DEF NoOldValue, Current
<1>19. CASE UNCHANGED vars
  BY <1>19, <1>c, QuietCurrent DEF vars, Frames
<1> QED
  BY <1>1, <1>2, <1>3, <1>4, <1>5, <1>6, <1>7, <1>8, <1>9, <1>10, <1>11, <1>12, <1>13,
     <1>14, <1>15, <1>16, <1>17, <1>18, <1>19
  DEF Next, Return, Active

-----------------------------------------------------------------------------
(* Consumers of a State are given the current value *)

LEMMA InformedKept ==
  ASSUME NEW t \in Consumers, Informed(t),
         value' = value, connection'[t] = connection[t], seen'[t] \in {seen[t], value},
         \A f \in Frames : Informs(f, t, connection[t]) => f \in Frames'
  PROVE  Informed(t)'
<1>1. CASE seen[t] = value
  BY <1>1 DEF Informed
<1>2. CASE \E f \in Frames : Informs(f, t, connection[t])
  <2>1. PICK f \in Frames : Informs(f, t, connection[t])
    BY <1>2
  <2>2. f \in Frames' /\ Informs(f, t, connection[t])'
    BY <2>1 DEF Informs
  <2> QED
    BY <2>2 DEF Informed
<1> QED
  BY <1>1, <1>2 DEF Informed

\* What can inform a consumer.
Informing(f) == f.at \in {"getValue", "subscribing"} \/ (f.at = "fanOut" /\ f.what = "value")

LEMMA QuietFollowed ==
  ASSUME StateFollowed, UNCHANGED <<kind, value, nested, seen>>,
         \A t \in Consumers : Listening(t)' => Listening(t) /\ connection'[t] = connection[t],
         \A f \in Frames : f \in Frames' \/ ~Informing(f)
  PROVE  StateFollowed'
<1> SUFFICES ASSUME kind = "state", ~nested, NEW t \in Consumers, Listening(t)'
             PROVE  Informed(t)'
  BY DEF StateFollowed
<1>1. Listening(t) /\ connection'[t] = connection[t] /\ Informed(t)
  BY DEF StateFollowed
<1>2. \A f \in Frames : Informs(f, t, connection[t]) => f \in Frames'
  BY DEF Informs, Informing
<1> QED
  BY <1>1, <1>2, InformedKept

LEMMA DisconnectListening ==
  ASSUME Typed, NEW t \in Consumers, NEW below \in Seq(FrameSet), Disconnect(t, below),
         consumers' = consumers \/ consumers' = [consumers EXCEPT ![t] = "ended"]
  PROVE  \A s \in Consumers :
           Listening(s)' => Listening(s) /\ s # t /\ connection'[s] = connection[s]
<1>1. /\ DOMAIN upstreams' = DOMAIN upstreams
      /\ \A v \in DOMAIN upstreams :
           upstreams'[v] \in {Unsubscribed(upstreams[v]), upstreams[v]}
      /\ connection' = [connection EXCEPT ![t] = None]
  BY DisconnectDoes, Zenon
<1>2. \A v \in DOMAIN upstreams : ~upstreams'[v].stopped => ~upstreams[v].stopped
  BY <1>1 DEF Unsubscribed
<1>3. None \notin DOMAIN upstreams
  BY UpstreamNumber
<1>4. \A s \in Consumers : /\ connection'[s] = IF s = t THEN None ELSE connection[s]
                           /\ consumers'[s] = "live" => consumers[s] = "live"
  BY <1>1 DEF Typed
<1> QED
  BY <1>1, <1>2, <1>3, <1>4 DEF Listening

LEMMA QuietListening ==
  ASSUME Typed, UNCHANGED <<consumers, connection, upstreams>>
  PROVE  \A s \in Consumers : Listening(s)' => Listening(s) /\ connection'[s] = connection[s]
BY DEF Listening

LEMMA StateFollowedStep ==
  /\ Typed /\ OneShare /\ UpstreamLife /\ NoOldValue /\ StateFollowed
  /\ [Next]_vars
  => StateFollowed'
<1> SUFFICES ASSUME Typed, OneShare, UpstreamLife, NoOldValue, StateFollowed, [Next]_vars
             PROVE  StateFollowed'
  OBVIOUS
<1>a. /\ connection \in [Consumers -> {Connecting, None} \cup DOMAIN upstreams]
      /\ consumers \in [Consumers -> {"unused", "live", "ended"}]
      /\ seen \in [Consumers -> 0 .. value]
  BY DEF Typed
<1>b. stack # <<>> => /\ Rest \in Seq(FrameSet) /\ Frames = Below \cup {Top}
                      /\ Top \in FrameSet
  BY TopPopped
<1>c. None \notin DOMAIN upstreams
  BY UpstreamNumber
<1>1. ASSUME NEW t \in Consumers, Connect(t) PROVE StateFollowed'
  <2>1. /\ UNCHANGED <<kind, value, nested, seen>> /\ Frames \subseteq Frames'
    BY <1>1, ConnectCalls DEF Call, Frame
  <2>2. CASE kind # "state"
    BY <2>1, <2>2 DEF StateFollowed
  <2>3. CASE kind = "state" /\ shared = None
    <3>0. stack \in Seq(FrameSet)
      BY DEF Typed
    <3>b. PICK below \in Seq(FrameSet) : below = stack
      BY <3>0
    <3>u. PICK u : u = Len(upstreams) + 1
      OBVIOUS
    <3>1. u = Len(upstreams) + 1 /\ below = stack
      BY <3>b, <3>u
    <3>2. Open(t, below) /\ Frames' = Frames \cup {Call("subscribing", t, u)}
      BY <1>1, <1>c, <2>3, <3>1, ConnectCalls
    <3>3. /\ connection' = [connection EXCEPT ![t] = u]
          /\ DOMAIN upstreams' = DOMAIN upstreams \cup {u} /\ u # None
      BY <3>1, <3>2, OpenDoes DEF None
    <3>4. \A s \in Consumers : connection'[s] = IF s = t THEN u ELSE None
      BY <1>a, <2>3, <3>3 DEF OneShare
    <3>5. \A s \in Consumers : Listening(s)' => s = t
      BY <1>c, <3>3, <3>4 DEF Listening
    <3>6. Informs(Call("subscribing", t, u), t, connection[t])'
      BY <3>4 DEF Informs, Call, Frame
    <3>7. Informed(t)'
      BY <3>2, <3>6 DEF Informed
    <3> QED
      BY <3>5, <3>7 DEF StateFollowed
  <2>4. CASE kind = "state" /\ shared # None
    <3>1. PICK u : u = shared
      OBVIOUS
    <3>2. /\ connection' = [connection EXCEPT ![t] = u] /\ UNCHANGED upstreams
          /\ Frames' = Frames \cup {Call("getValue", t, u)}
          /\ consumers' = [consumers EXCEPT ![t] = "live"]
      BY <1>1, <2>4, <3>1, ConnectCalls
    <3>3. /\ \A s \in Consumers : connection'[s] = IF s = t THEN u ELSE connection[s]
          /\ \A s \in Consumers : s # t => consumers'[s] = consumers[s]
      BY <1>a, <3>2
    <3>4. Informs(Call("getValue", t, u), t, connection[t])'
      BY <3>3 DEF Informs, Call, Frame
    <3>5. Informed(t)'
      BY <3>2, <3>4 DEF Informed
    <3>6. ASSUME ~nested, NEW s \in Consumers, s # t, Listening(s)' PROVE Informed(s)'
      <4>1. Listening(s) /\ connection'[s] = connection[s]
        BY <3>2, <3>3, <3>6 DEF Listening
      <4>2. Informed(s)
        BY <2>4, <3>6, <4>1 DEF StateFollowed
      <4> QED
        BY <2>1, <4>1, <4>2, InformedKept
    <3> QED
      BY <2>1, <3>5, <3>6 DEF StateFollowed
  <2> QED
    BY <2>2, <2>3, <2>4
<1>2. CASE Failing
  <2>1. /\ stack # <<>> /\ Top.at = "failing" /\ Below \subseteq Frames'
        /\ UNCHANGED <<source, connection, seen, upstreams>>
    BY <1>2, FailingCalls
  <2>2. \A s \in Consumers : consumers'[s] = "live" => consumers[s] = "live"
    BY <1>2, <1>a, FailingCalls
  <2>3. \A s \in Consumers : Listening(s)' => Listening(s) /\ connection'[s] = connection[s]
    BY <2>1, <2>2 DEF Listening
  <2>4. \A f \in Frames : f \in Frames' \/ ~Informing(f)
    BY <1>b, <2>1 DEF Informing
  <2> QED
    BY <2>1, <2>3, <2>4, QuietFollowed DEF source
<1>3. CASE Factory
  <2>1. stack # <<>> /\ Top.at = "factory" /\ Top.who \in Consumers
        /\ UNCHANGED <<kind, value, nested, consumers, seen>>
    BY <1>3, FactoryCalls DEF source
  <2>2. CASE kind # "state"
    BY <2>1, <2>2 DEF StateFollowed
  <2>3. CASE kind = "state"
    <3>1. connection[Top.who] # Connecting
      BY <2>1, <2>3, UpstreamNumber DEF OneShare, Typed, None, Connecting
    <3>2. stack' = Rest /\ UNCHANGED <<connection, upstreams>>
      BY <1>3, <3>1, FactoryCalls
    <3>3. Frames' = Below
      BY <2>1, <3>2, StackPopped
    <3>4. \A f \in Frames : f \in Frames' \/ ~Informing(f)
      BY <1>b, <2>1, <3>3 DEF Informing
    <3> QED
      BY <2>1, <3>2, <3>4, QuietFollowed, QuietListening
  <2> QED
    BY <2>2, <2>3
<1>4. CASE GetValue
  <2>1. /\ stack # <<>> /\ Top.at = "getValue" /\ Top.who \in Consumers
        /\ Below \subseteq Frames'
        /\ UNCHANGED <<kind, value, nested, consumers, connection, upstreams>>
    BY <1>4, GetValueCalls DEF source
  <2>2. PICK t \in Consumers : t = Top.who
    BY <2>1
  <2>3. \/ connection[t] = Top.up /\ seen'[t] = value
        \/ connection[t] # Top.up /\ seen'[t] = seen[t]
    BY <1>4, <1>a, <2>2, GetValueCalls
  <2>4. \A s \in Consumers : s # t => seen'[s] = seen[s]
    BY <1>4, <1>a, <2>2, GetValueCalls
  <2> SUFFICES ASSUME kind = "state", ~nested, NEW s \in Consumers, Listening(s)'
               PROVE  Informed(s)'
    BY <2>1 DEF StateFollowed
  <2>5. Informed(s)
    BY <2>1, QuietListening DEF StateFollowed
  <2>6. CASE s = t /\ connection[t] = Top.up
    BY <2>1, <2>3, <2>6 DEF Informed
  <2>7. CASE s # t \/ connection[t] # Top.up
    <3>1. \A f \in Frames : Informs(f, s, connection[s]) => f \in Frames'
      BY <1>b, <2>1, <2>2, <2>7 DEF Informs
    <3> QED
      BY <2>1, <2>3, <2>4, <2>5, <2>7, <3>1, InformedKept
  <2> QED
    BY <2>6, <2>7
<1>5. CASE GetValueThrows
  <2>1. /\ stack # <<>> /\ Top.at = "getValue" /\ Top.who \in Consumers
        /\ Fail(Top.who) /\ UNCHANGED <<kind, value, nested, consumers, seen>>
    BY <1>5, GetValueThrowsCalls DEF source
  <2>2. PICK t \in Consumers : t = Top.who
    BY <2>1
  <2>3. PICK below \in Seq(FrameSet) : Disconnect(t, below)
    BY <2>1, <2>2, FailCalls
  <2>4. Below \subseteq Frames'
    BY <2>1, <2>2, FailCalls DEF Calling
  <2> SUFFICES ASSUME kind = "state", ~nested, NEW s \in Consumers, Listening(s)'
               PROVE  Informed(s)'
    BY <2>1 DEF StateFollowed
  <2>5. Listening(s) /\ s # t /\ connection'[s] = connection[s]
    BY <2>1, <2>3, DisconnectListening
  <2>6. Informed(s)
    BY <2>5 DEF StateFollowed
  <2>7. \A f \in Frames : Informs(f, s, connection[s]) => f \in Frames'
    BY <1>b, <2>1, <2>2, <2>4, <2>5 DEF Informs
  <2> QED
    BY <2>1, <2>5, <2>6, <2>7, InformedKept
<1>6. CASE FirstValue
  <2>1. /\ stack # <<>> /\ Top.at = "subscribing" /\ Top.up \in DOMAIN upstreams
        /\ Below \subseteq Frames' /\ FanOut(Top.up, "value", value) \in Frames'
        /\ UNCHANGED <<kind, value, nested, consumers, connection, seen, upstreams>>
    BY <1>6, FirstValueCalls DEF source
  <2> SUFFICES ASSUME kind = "state", ~nested, NEW s \in Consumers, Listening(s)'
               PROVE  Informed(s)'
    BY <2>1 DEF StateFollowed
  <2>2. Informed(s)
    BY <2>1, QuietListening DEF StateFollowed
  <2>3. PICK u, f : u = Top.up /\ f = FanOut(Top.up, "value", value)
    OBVIOUS
  <2>4. CASE connection[s] = u
    <3>1. s \in Members(u)
      BY <2>4, MembersAre
    <3>2. Informs(f, s, connection[s])'
      BY <2>1, <2>3, <2>4, <3>1 DEF Informs, FanOut, Frame
    <3> QED
      BY <2>1, <2>3, <3>2 DEF Informed
  <2>5. CASE connection[s] # u
    <3>1. \A g \in Frames : Informs(g, s, connection[s]) => g \in Frames'
      BY <1>b, <2>1, <2>3, <2>5 DEF Informs
    <3> QED
      BY <2>1, <2>2, <3>1, InformedKept
  <2> QED
    BY <2>4, <2>5
<1>7. CASE Subscribed
  <2>1. /\ stack # <<>> /\ Top.at = "subscribing" /\ Top.up \in DOMAIN upstreams
        /\ kind = "state" => Top.what # "none" \/ upstreams[Top.up].stopped
        /\ upstreams' = [upstreams EXCEPT
              ![Top.up].producer = IF upstreams[Top.up].closed THEN "done" ELSE "attached"]
        /\ UNCHANGED <<kind, value, nested, consumers, connection, seen>>
    BY <1>7, SubscribedCalls DEF source
  <2>2. Below \subseteq Frames'
    BY <1>7, SubscribedCalls DEF Calling
  <2>3. /\ DOMAIN upstreams' = DOMAIN upstreams
        /\ \A v \in DOMAIN upstreams : upstreams'[v].stopped = upstreams[v].stopped
    <3>1. PICK v \in DOMAIN upstreams, p \in {"done", "attached"} :
            v = Top.up /\ upstreams' = [upstreams EXCEPT ![v] = [@ EXCEPT !.producer = p]]
      BY <2>1
    <3>2. \A w \in DOMAIN upstreams : upstreams[w] \in UpstreamSet
      BY UpstreamNumber
    <3>3. upstreams \in [DOMAIN upstreams -> UpstreamSet]
      BY <3>2 DEF Typed
    <3>4. [upstreams[v] EXCEPT !.producer = p].stopped = upstreams[v].stopped
      BY <3>2 DEF UpstreamSet
    <3> QED
      BY <3>1, <3>3, <3>4
  <2> SUFFICES ASSUME kind = "state", ~nested, NEW s \in Consumers, Listening(s)'
               PROVE  Informed(s)'
    BY <2>1 DEF StateFollowed
  <2>4. Listening(s)
    BY <2>1, <2>3 DEF Listening
  <2>5. Informed(s)
    BY <2>4 DEF StateFollowed
  <2>6. ~Informs(Top, s, connection[s])
    BY <2>1, <2>4 DEF Informs, Listening
  <2>7. \A f \in Frames : Informs(f, s, connection[s]) => f \in Frames'
    BY <1>b, <2>1, <2>2, <2>6
  <2> QED
    BY <2>1, <2>5, <2>7, InformedKept
<1>8. CASE SubscribeThrows
  <2>1. /\ stack # <<>> /\ Top.at = "subscribing" /\ Top.up \in DOMAIN upstreams
        /\ Top.who \in Consumers /\ Members(Top.up) = {Top.who}
        /\ connection' = [connection EXCEPT ![Top.who] = None]
        /\ upstreams' = [upstreams EXCEPT ![Top.up] =
                            [stopped |-> TRUE, closed |-> TRUE, producer |-> "done"]]
        /\ Below \subseteq Frames'
        /\ UNCHANGED <<kind, value, nested, consumers, seen>>
    BY <1>8, SubscribeThrowsCalls DEF source
  <2>2. PICK t \in Consumers : t = Top.who
    BY <2>1
  <2>3. \A s \in Consumers : connection'[s] = IF s = t THEN None ELSE connection[s]
    BY <1>a, <2>1, <2>2
  <2>4. /\ DOMAIN upstreams' = DOMAIN upstreams
        /\ \A v \in DOMAIN upstreams : v # Top.up => upstreams'[v] = upstreams[v]
    BY <2>1
  <2> SUFFICES ASSUME kind = "state", ~nested, NEW s \in Consumers, Listening(s)'
               PROVE  Informed(s)'
    BY <2>1 DEF StateFollowed
  <2>5. s # t /\ connection'[s] = connection[s] /\ connection[s] # Top.up
    BY <1>c, <2>1, <2>2, <2>3, <2>4, MembersAre DEF Listening
  <2>6. Listening(s)
    BY <2>1, <2>4, <2>5 DEF Listening
  <2>7. Informed(s)
    BY <2>6 DEF StateFollowed
  <2>8. \A f \in Frames : Informs(f, s, connection[s]) => f \in Frames'
    BY <1>b, <2>1, <2>5 DEF Informs
  <2> QED
    BY <2>1, <2>5, <2>7, <2>8, InformedKept
<1>9. CASE DeliverValue
  <2>1. /\ stack # <<>> /\ Top.at = "fanOut" /\ Top.what = "value"
        /\ UNCHANGED <<kind, value, nested, consumers, connection, upstreams>>
    BY <1>9, DeliverValueCalls DEF source
  <2>2. PICK t \in Consumers, g \in FrameSet :
          /\ NextLeft(t) /\ seen' = [seen EXCEPT ![t] = Top.hands]
          /\ g.at = "fanOut" /\ g.up = Top.up /\ g.what = Top.what /\ g.rest = Left \ {t}
          /\ g.hands = Top.hands
          /\ Frames' = Below \cup {g, Sink(t, "value")}
    BY <1>9, DeliverValueCalls
  <2>3. \A s \in Consumers : seen'[s] = IF s = t THEN Top.hands ELSE seen[s]
    BY <1>a, <2>2
  <2> SUFFICES ASSUME kind = "state", ~nested, NEW s \in Consumers, Listening(s)'
               PROVE  Informed(s)'
    BY <2>1 DEF StateFollowed
  <2>4. Listening(s)
    BY <2>1, QuietListening
  <2>5. Informed(s)
    BY <2>4 DEF StateFollowed
  <2>6. CASE s # t /\ Informs(Top, s, connection[s])
    <3>1. /\ s \in Top.rest /\ connection[s] = Top.up /\ consumers[s] = "live"
          /\ Top.hands = value
      BY <2>1, <2>4, <2>6 DEF Informs, Listening
    <3>2. s \in g.rest
      BY <2>2, <2>6, <3>1 DEF Left
    <3>3. Informs(g, s, connection[s])'
      BY <2>1, <2>2, <3>1, <3>2 DEF Informs
    <3> QED
      BY <2>2, <3>3 DEF Informed
  <2>7. CASE s # t /\ ~Informs(Top, s, connection[s])
    <3>1. \A f \in Frames : Informs(f, s, connection[s]) => f \in Frames'
      BY <1>b, <2>1, <2>2, <2>7
    <3> QED
      BY <2>1, <2>3, <2>5, <2>7, <3>1, InformedKept
  <2>8. CASE s = t
    <3>1. connection[s] = Top.up /\ ~upstreams[Top.up].stopped
      BY <2>2, <2>4, <2>8 DEF NextLeft, Left, Listening
    <3>2. Top.hands = value
      BY <1>b, <2>1, <3>1 DEF NoOldValue, Current
    <3> QED
      BY <2>1, <2>3, <2>8, <3>2 DEF Informed
  <2> QED
    BY <2>6, <2>7, <2>8
<1>10. CASE DeliverTerminal
  <2>1. /\ stack # <<>> /\ Top.at = "fanOut" /\ Top.what = "terminal"
        /\ UNCHANGED <<kind, value, nested, seen>>
    BY <1>10, DeliverTerminalCalls DEF source
  <2>2. PICK t \in Consumers, g \in FrameSet, below \in Seq(FrameSet) :
          /\ consumers' = [consumers EXCEPT ![t] = "ended"]
          /\ Disconnect(t, below)
          /\ Calling(Below \cup {g, Sink(t, "terminal")})
    BY <1>10, DeliverTerminalCalls
  <2>3. \A f \in Frames : f \in Frames' \/ ~Informing(f)
    BY <1>b, <2>1, <2>2 DEF Calling, Informing
  <2>4. \A s \in Consumers : Listening(s)' => Listening(s) /\ connection'[s] = connection[s]
    BY <2>2, DisconnectListening
  <2> QED
    BY <2>1, <2>3, <2>4, QuietFollowed
<1>11. CASE FannedOut
  <2>1. /\ stack # <<>> /\ Top.at = "fanOut" /\ Top.up \in DOMAIN upstreams /\ Left = {}
        /\ UNCHANGED <<kind, value, nested, consumers, connection, seen>>
    BY <1>11, FannedOutCalls DEF source
  <2>2. CASE Top.what = "value"
    <3>1. Frames' = Below /\ UNCHANGED upstreams
      BY <1>11, <2>2, FannedOutCalls
    <3> SUFFICES ASSUME kind = "state", ~nested, NEW s \in Consumers, Listening(s)'
                 PROVE  Informed(s)'
      BY <2>1 DEF StateFollowed
    <3>2. Listening(s)
      BY <2>1, <3>1, QuietListening
    <3>3. Informed(s)
      BY <3>2 DEF StateFollowed
    <3>4. ~Informs(Top, s, connection[s])
      BY <2>1, <2>2, <3>2 DEF Informs, Listening, Left
    <3>5. \A f \in Frames : Informs(f, s, connection[s]) => f \in Frames'
      BY <1>b, <2>1, <3>1, <3>4
    <3> QED
      BY <2>1, <3>3, <3>5, InformedKept
  <2>3. CASE Top.what = "terminal" /\ Unsubscribe(Top.up, "terminal", Rest)
    <3>1. PICK u \in DOMAIN upstreams, below \in Seq(FrameSet) : u = Top.up /\ below = Rest
      BY <1>b, <2>1
    <3>2. /\ DOMAIN upstreams' = DOMAIN upstreams
          /\ \A v \in DOMAIN upstreams :
               upstreams'[v] = IF v = u THEN Unsubscribed(upstreams[v]) ELSE upstreams[v]
          /\ Below \subseteq Frames'
      BY <2>3, <3>1, UnsubscribeDoes DEF Below
    <3>3. \A v \in DOMAIN upstreams : ~upstreams'[v].stopped => ~upstreams[v].stopped
      BY <3>2 DEF Unsubscribed
    <3>4. \A s \in Consumers : Listening(s)' => Listening(s) /\ connection'[s] = connection[s]
      BY <2>1, <3>2, <3>3 DEF Listening
    <3>5. \A f \in Frames : f \in Frames' \/ ~Informing(f)
      BY <1>b, <2>1, <2>3, <3>2 DEF Informing
    <3> QED
      BY <2>1, <3>4, <3>5, QuietFollowed
  <2> QED
    BY <1>11, <2>2, <2>3, FannedOutCalls
<1>12. CASE TornDown
  <2>1. /\ stack # <<>> /\ Top.at = "teardown" /\ Frames' = Below
        /\ UNCHANGED <<kind, value, nested, consumers, connection, seen, upstreams>>
    BY <1>12, TornDownCalls DEF source
  <2>2. \A f \in Frames : f \in Frames' \/ ~Informing(f)
    BY <1>b, <2>1 DEF Informing
  <2> QED
    BY <2>1, <2>2, QuietFollowed, QuietListening
<1>13. CASE Sunk
  <2>1. /\ stack # <<>> /\ Top.at = "sink" /\ Frames' = Below
        /\ UNCHANGED <<kind, value, nested, consumers, connection, seen, upstreams>>
    BY <1>13, SunkCalls DEF source
  <2>2. \A f \in Frames : f \in Frames' \/ ~Informing(f)
    BY <1>b, <2>1 DEF Informing
  <2> QED
    BY <2>1, <2>2, QuietFollowed, QuietListening
<1>14. CASE Closed
  <2>1. /\ stack # <<>> /\ Top.at = "closing" /\ Below \subseteq Frames'
        /\ Top.who \in Consumers /\ Rest \in Seq(FrameSet) /\ Disconnect(Top.who, Rest)
        /\ UNCHANGED <<kind, value, nested, consumers, seen>>
    BY <1>14, ClosedCalls DEF source, Calling
  <2>2. PICK t \in Consumers, below \in Seq(FrameSet) : t = Top.who /\ below = Rest
    BY <2>1
  <2>3. \A s \in Consumers : Listening(s)' => Listening(s) /\ connection'[s] = connection[s]
    BY <2>1, <2>2, DisconnectListening
  <2>4. \A f \in Frames : f \in Frames' \/ ~Informing(f)
    BY <1>b, <2>1 DEF Informing
  <2> QED
    BY <2>1, <2>3, <2>4, QuietFollowed
<1>15. ASSUME NEW t \in Consumers, Close(t) PROVE StateFollowed'
  <2>1. /\ consumers' = [consumers EXCEPT ![t] = "ended"] /\ Frames \subseteq Frames'
        /\ UNCHANGED <<kind, value, nested, connection, seen, upstreams>>
    BY <1>15, CloseCalls DEF source
  <2>2. \A s \in Consumers : Listening(s)' => Listening(s) /\ connection'[s] = connection[s]
    BY <1>a, <2>1 DEF Listening
  <2> QED
    BY <2>1, <2>2, QuietFollowed
<1>16. ASSUME NEW u \in DOMAIN upstreams, u \in Active, Emit(u) PROVE StateFollowed'
  <2>1. /\ UNCHANGED <<kind, consumers, connection, seen, upstreams>>
        /\ stack' = Append(stack, FanOut(u, "value", value + 1)) /\ value' = value + 1
    BY <1>16 DEF Emit
  <2>2. PICK f : f = FanOut(u, "value", value + 1)
    OBVIOUS
  <2>3. /\ f \in Frames' /\ f.at = "fanOut" /\ f.what = "value" /\ f.up = u
        /\ f.rest = Members(u) /\ f.hands = value + 1
    <3>1. FanOut(u, "value", value + 1) \in Frames'
      BY <2>1, EmitCalls, ValueNumber
    <3> QED
      BY <2>2, <3>1 DEF FanOut, Frame
  <2> SUFFICES ASSUME kind = "state", NEW s \in Consumers, Listening(s)'
               PROVE  Informed(s)'
    BY <2>1 DEF StateFollowed
  <2>4. ~upstreams[u].stopped
    BY <1>16 DEF Active
  <2>5. u = shared
    BY <2>4 DEF OneShare, UpstreamLife, Living
  <2>6. connection[s] = u
    BY <1>c, <2>1, <2>5 DEF OneShare, Listening
  <2>7. s \in f.rest
    BY <2>3, <2>6, MembersAre
  <2>8. Informs(f, s, connection[s])'
    BY <2>1, <2>3, <2>6, <2>7 DEF Informs
  <2> QED
    BY <2>3, <2>8 DEF Informed
<1>17. ASSUME NEW u \in DOMAIN upstreams, End(u) PROVE StateFollowed'
  <2>1. /\ stack' = Append(stack, FanOut(u, "terminal", None))
        /\ upstreams' = [upstreams EXCEPT ![u].stopped = TRUE]
        /\ UNCHANGED <<kind, value, nested, consumers, connection, seen>>
    BY <1>17 DEF End, source
  <2>2. Frames \subseteq Frames'
    BY <2>1, EmitCalls, ValueNumber
  <2>3. /\ DOMAIN upstreams' = DOMAIN upstreams
        /\ \A v \in DOMAIN upstreams : v # u => upstreams'[v] = upstreams[v]
    BY <2>1
  <2>4. upstreams'[u].stopped
    <3>1. upstreams'[u] = [upstreams[u] EXCEPT !.stopped = TRUE] /\ upstreams[u] \in UpstreamSet
      BY <2>1, UpstreamNumber DEF Typed
    <3> QED
      BY <3>1 DEF UpstreamSet
  <2>5. \A s \in Consumers : Listening(s)' => Listening(s) /\ connection'[s] = connection[s]
    BY <2>1, <2>3, <2>4 DEF Listening
  <2> QED
    BY <2>1, <2>2, <2>5, QuietFollowed
<1>18. CASE Change
  <2>1. Active = {} /\ UNCHANGED <<kind, consumers, connection, seen, upstreams>>
    BY <1>18 DEF Change
  <2>2. \A s \in Consumers : ~Listening(s)
    BY <2>1 DEF Active, Listening, UpstreamLife, Living
  <2> QED
    BY <2>1, <2>2, QuietListening DEF StateFollowed
<1>19. CASE UNCHANGED vars
  BY <1>19, QuietFollowed, QuietListening DEF vars, Frames, source
<1> QED
  BY <1>1, <1>2, <1>3, <1>4, <1>5, <1>6, <1>7, <1>8, <1>9, <1>10, <1>11, <1>12, <1>13,
     <1>14, <1>15, <1>16, <1>17, <1>18, <1>19
  DEF Next, Return, Active

-----------------------------------------------------------------------------
(* Where the fan-outs of terminals are *)

\* The innermost call of s is not the fan-out of a terminal; nobody is being closed in s.
OpenEnd(s) == s # <<>> => ~Ending(s[Len(s)])
NobodyCloses(s) == \A j \in 1 .. Len(s) : s[j].at # "closing"

LEMMA PlacedPopped ==
  ASSUME Typed, EndingPlaced(stack), stack # <<>>
  PROVE  /\ Rest \in Seq(FrameSet) /\ EndingPlaced(Rest)
         /\ ~(Top.at = "sink" /\ Top.what = "terminal") => OpenEnd(Rest)
         /\ Ending(Top) => NobodyCloses(Rest)
<1>1. /\ Len(stack) \in Nat \ {0}
      /\ Rest \in Seq(FrameSet) /\ Len(Rest) = Len(stack) - 1
      /\ \A i \in 1 .. Len(stack) - 1 : Rest[i] = stack[i]
  BY StackParts DEF Typed, Rest
<1>2. Top = stack[Len(stack)]
  BY DEF Top
<1>3. EndingPlaced(Rest)
  <2> SUFFICES ASSUME NEW i \in 1 .. Len(Rest), Ending(Rest[i])
               PROVE  /\ \A j \in 1 .. i - 1 : Rest[j].at # "closing"
                      /\ i < Len(Rest) =>
                           Rest[i + 1].at = "sink" /\ Rest[i + 1].what = "terminal"
    BY DEF EndingPlaced
  <2>1. i \in 1 .. Len(stack) /\ Rest[i] = stack[i] /\ i < Len(stack)
    BY <1>1
  <2>2. /\ \A j \in 1 .. i - 1 : stack[j].at # "closing"
        /\ stack[i + 1].at = "sink" /\ stack[i + 1].what = "terminal"
    BY <2>1 DEF EndingPlaced
  <2>3. \A j \in 1 .. i - 1 : Rest[j] = stack[j]
    BY <1>1
  <2>4. i < Len(Rest) => Rest[i + 1] = stack[i + 1]
    BY <1>1
  <2> QED
    BY <2>2, <2>3, <2>4
<1>4. ASSUME ~(Top.at = "sink" /\ Top.what = "terminal"), Rest # <<>>, Ending(Rest[Len(Rest)])
      PROVE  FALSE
  <2>1. Len(Rest) \in 1 .. Len(stack) - 1
    BY <1>1, <1>4
  <2>2. Ending(stack[Len(Rest)]) /\ Len(Rest) \in 1 .. Len(stack)
    BY <1>1, <1>4, <2>1
  <2>3. Len(Rest) < Len(stack) /\ stack[Len(Rest) + 1] = Top
    BY <1>1, <1>2
  <2> QED
    BY <1>4, <2>2, <2>3 DEF EndingPlaced
<1>5. ASSUME Ending(Top) PROVE NobodyCloses(Rest)
  <2>1. \A j \in 1 .. Len(stack) - 1 : stack[j].at # "closing"
    BY <1>1, <1>2, <1>5 DEF EndingPlaced
  <2> QED
    BY <1>1, <2>1 DEF NobodyCloses
<1> QED
  BY <1>1, <1>3, <1>4, <1>5 DEF OpenEnd

LEMMA PlacedPushed ==
  ASSUME NEW s \in Seq(FrameSet), NEW f \in FrameSet, EndingPlaced(s),
         Ending(f) => NobodyCloses(s),
         OpenEnd(s) \/ (f.at = "sink" /\ f.what = "terminal")
  PROVE  /\ Append(s, f) \in Seq(FrameSet) /\ EndingPlaced(Append(s, f))
         /\ ~Ending(f) => OpenEnd(Append(s, f))
<1> DEFINE r == Append(s, f)
<1>1. /\ r \in Seq(FrameSet) /\ Len(r) = Len(s) + 1 /\ Len(s) \in Nat
      /\ \A i \in 1 .. Len(s) : r[i] = s[i]
      /\ r[Len(s) + 1] = f
  BY Appended
<1> HIDE DEF r
<1>2. ASSUME NEW i \in 1 .. Len(r), Ending(r[i])
      PROVE  /\ \A j \in 1 .. i - 1 : r[j].at # "closing"
             /\ i < Len(r) => r[i + 1].at = "sink" /\ r[i + 1].what = "terminal"
  <2>1. CASE i = Len(s) + 1
    <3>1. NobodyCloses(s)
      BY <1>1, <1>2, <2>1
    <3> QED
      BY <1>1, <2>1, <3>1 DEF NobodyCloses
  <2>2. CASE i # Len(s) + 1
    <3>1. i \in 1 .. Len(s) /\ Ending(s[i])
      BY <1>1, <1>2, <2>2
    <3>2. \A j \in 1 .. i - 1 : r[j].at # "closing"
      BY <1>1, <3>1 DEF EndingPlaced
    <3>3. CASE i < Len(s)
      <4>1. s[i + 1].at = "sink" /\ s[i + 1].what = "terminal" /\ r[i + 1] = s[i + 1]
        BY <1>1, <3>1, <3>3 DEF EndingPlaced
      <4> QED
        BY <3>2, <4>1
    <3>4. CASE i = Len(s)
      <4>1. ~OpenEnd(s)
        BY <1>1, <3>1, <3>4 DEF OpenEnd
      <4> QED
        BY <1>1, <3>2, <3>4, <4>1
    <3> QED
      BY <3>1, <3>3, <3>4
  <2> QED
    BY <2>1, <2>2
<1>3. EndingPlaced(r)
  BY <1>2 DEF EndingPlaced
<1>4. ~Ending(f) => OpenEnd(r)
  BY <1>1 DEF OpenEnd
<1> QED
  BY <1>1, <1>3, <1>4 DEF r

\* A teardown that is run is the innermost call.
LEMMA DisconnectPlaced ==
  ASSUME Typed, NEW t \in Consumers, NEW below \in Seq(FrameSet), Disconnect(t, below),
         EndingPlaced(below), OpenEnd(below)
  PROVE  EndingPlaced(stack')
<1>1. CASE stack' = below
  BY <1>1
<1>2. CASE \E u \in DOMAIN upstreams :
             stack' = Append(below, Frame("teardown", None, u, "release", {}))
  <2>1. PICK u \in DOMAIN upstreams :
               stack' = Append(below, Frame("teardown", None, u, "release", {}))
    BY <1>2
  <2>2. PICK f : f = Frame("teardown", None, u, "release", {})
    OBVIOUS
  <2>3. f \in FrameSet
    BY <2>2, FramesMade DEF Typed, Whats
  <2>4. ~Ending(f)
    BY <2>2 DEF Ending, Frame
  <2> QED
    BY <2>1, <2>2, <2>3, <2>4, PlacedPushed
<1> QED
  BY <1>1, <1>2, DisconnectDoes, Zenon

\* Where something may be called no fan-out is innermost.
LEMMA CallsAreOpen ==
  ASSUME Typed, NEW call, MayCall(call)
  PROVE  OpenEnd(stack)
BY DEF MayCall, OpenEnd, Ending, Outside, Top

\* While a terminal is fanned out nobody connects, when its sinks do not.
LEMMA NothingEnds ==
  ASSUME Typed, EndingPlaced(stack), MayCall("connect"), "connect" \notin EndingCalls
  PROVE  \A f \in Frames : ~Ending(f)
<1> SUFFICES ASSUME NEW f \in Frames, Ending(f) PROVE FALSE
  OBVIOUS
<1>1. PICK i \in 1 .. Len(stack) : stack[i] = f
  BY Values DEF Typed, Frames
<1>2. stack # <<>> /\ Len(stack) \in Nat \ {0}
  BY <1>1, StackParts DEF Typed
<1>3. i < Len(stack)
  BY <1>1, <1>2, CallsAreOpen DEF OpenEnd
<1>4. stack[i + 1].at = "sink" /\ stack[i + 1].what = "terminal" /\ i + 1 \in 1 .. Len(stack)
  BY <1>1, <1>2, <1>3 DEF EndingPlaced
<1>5. CallsAt(stack[i + 1]) = EndingCalls
  BY <1>4 DEF CallsAt
<1>6. DOMAIN stack = 1 .. Len(stack)
  BY DEF Typed
<1> QED
  BY <1>2, <1>4, <1>5, <1>6 DEF MayCall

\* Nobody is being closed where the source ends, when it does not end there.
LEMMA EndsOutsideClosing ==
  ASSUME Typed, MayCall("end"), "end" \notin ClosingCalls
  PROVE  NobodyCloses(stack)
<1> SUFFICES ASSUME NEW j \in 1 .. Len(stack), stack[j].at = "closing" PROVE FALSE
  BY DEF NobodyCloses
<1>1. CallsAt(stack[j]) = ClosingCalls
  BY DEF CallsAt
<1>2. stack # <<>> /\ DOMAIN stack = 1 .. Len(stack)
  BY DEF Typed
<1> QED
  BY <1>1, <1>2 DEF MayCall

\* A call that is no fan-out of a terminal, in the place of the innermost one.
LEMMA TopReplaced ==
  ASSUME Typed, EndingPlaced(stack), stack # <<>>, ~(Top.at = "sink" /\ Top.what = "terminal"),
         NEW f \in FrameSet, ~Ending(f)
  PROVE  /\ Append(Rest, f) \in Seq(FrameSet)
         /\ EndingPlaced(Append(Rest, f)) /\ OpenEnd(Append(Rest, f))
<1>1. Rest \in Seq(FrameSet) /\ EndingPlaced(Rest) /\ OpenEnd(Rest)
  BY PlacedPopped
<1> QED
  BY <1>1, PlacedPushed

LEMMA FailPlaced ==
  ASSUME Typed, EndingPlaced(stack), stack # <<>>, Top.at # "sink", NEW t \in Consumers, Fail(t)
  PROVE  EndingPlaced(stack')
<1>1. PICK f : f = Call("failing", t, None)
  OBVIOUS
<1>2. f \in FrameSet
  BY <1>1, FramesMade DEF Points, None
<1>3. ~Ending(f)
  BY <1>1 DEF Ending, Call, Frame
<1>4. PICK below \in Seq(FrameSet) :
        below = Append(Rest, f) /\ EndingPlaced(below) /\ OpenEnd(below)
  BY <1>2, <1>3, TopReplaced
<1>5. Disconnect(t, below)
  BY <1>1, <1>4 DEF Fail
<1> QED
  BY <1>4, <1>5, DisconnectPlaced

LEMMA EndingPlacedStep ==
  ASSUME "connect" \notin EndingCalls, "end" \notin ClosingCalls
  PROVE  Typed /\ EndingPlaced(stack) /\ [Next]_vars => EndingPlaced(stack')
<1> SUFFICES ASSUME Typed, EndingPlaced(stack), [Next]_vars
             PROVE  EndingPlaced(stack')
  OBVIOUS
<1>a. stack \in Seq(FrameSet)
  BY DEF Typed
<1>b. stack # <<>> => Rest \in Seq(FrameSet) /\ Top \in FrameSet /\ EndingPlaced(Rest)
  BY TopPopped, PlacedPopped
<1>c. ASSUME NEW f \in FrameSet, f.at # "fanOut" \/ f.what = "value",
             NEW call, MayCall(call), stack' = Append(stack, f)
      PROVE  EndingPlaced(stack')
  <2>1. OpenEnd(stack) /\ ~Ending(f)
    BY <1>c, CallsAreOpen DEF Ending
  <2> QED
    BY <1>a, <1>c, <2>1, PlacedPushed
<1>d. ASSUME NEW f \in FrameSet, f.at # "fanOut" \/ f.what = "value",
             stack # <<>>, Top.at # "sink"
      PROVE  /\ Append(Rest, f) \in Seq(FrameSet)
             /\ EndingPlaced(Append(Rest, f)) /\ OpenEnd(Append(Rest, f))
  BY <1>d, TopReplaced DEF Ending
<1>1. ASSUME NEW t \in Consumers, Connect(t) PROVE EndingPlaced(stack')
  <2>1. MayCall("connect")
    BY <1>1, ConnectCalls
  <2>2. CASE stack' = stack
    BY <2>2
  <2>3. CASE \E p \in {"factory", "subscribing", "getValue"}, u \in Nat :
               stack' = Append(stack, Call(p, t, u))
    <3>1. PICK p \in {"factory", "subscribing", "getValue"}, u \in Nat :
                 stack' = Append(stack, Call(p, t, u))
      BY <2>3
    <3>f. PICK f : f = Call(p, t, u)
      OBVIOUS
    <3>2. f \in FrameSet
      BY <3>f, FramesMade DEF Points, Outside
    <3>3. f.at # "fanOut"
      BY <3>f DEF Call, Frame
    <3> QED
      BY <1>c, <2>1, <3>1, <3>f, <3>2, <3>3
  <2>4. stack' = stack \/ \E p \in {"factory", "subscribing", "getValue"}, u \in Nat :
                            stack' = Append(stack, Call(p, t, u))
    <3>1. CASE kind = "scoped"
      BY <1>1, <3>1, ConnectCalls DEF None
    <3>2. CASE kind # "scoped" /\ Open(t, stack)
      <4>1. Len(upstreams) + 1 \in Nat
        BY DEF Typed
      <4> QED
        BY <3>2, <4>1 DEF Open
    <3>3. CASE kind # "scoped" /\ shared \in DOMAIN upstreams
               /\ (stack' = stack \/ stack' = Append(stack, Call("getValue", t, shared)))
      <4>1. shared \in Nat
        BY <3>3 DEF Typed
      <4> QED
        BY <3>3, <4>1
    <3> QED
      BY <1>1, <3>1, <3>2, <3>3, ConnectCalls
  <2> QED
    BY <2>2, <2>3, <2>4
<1>2. CASE Failing
  <2>1. stack # <<>> /\ Top.at = "failing" /\ Top.who \in Consumers
        /\ (stack' = Rest \/ stack' = Append(Rest, Sink(Top.who, "terminal")))
    BY <1>2, FailingCalls
  <2>2. PICK f : f = Sink(Top.who, "terminal")
    OBVIOUS
  <2>3. f \in FrameSet
    BY <2>1, <2>2, FramesMade DEF Whats
  <2>4. f.at # "fanOut"
    BY <2>2 DEF Sink, Frame
  <2> QED
    BY <1>b, <1>d, <2>1, <2>2, <2>3, <2>4
<1>3. CASE Factory
  <2>1. stack # <<>> /\ Top.at = "factory" /\ Top.who \in Consumers
    BY <1>3, FactoryCalls
  <2>2. CASE Open(Top.who, Rest)
    <3>1. PICK u \in Nat : u = Len(upstreams) + 1
      BY DEF Typed
    <3>f. PICK f : f = Call("subscribing", Top.who, u)
      OBVIOUS
    <3>2. f \in FrameSet
      BY <2>1, <3>f, FramesMade DEF Points, Outside
    <3>3. f.at # "fanOut"
      BY <3>f DEF Call, Frame
    <3>4. stack' = Append(Rest, f)
      BY <2>2, <3>1, <3>f DEF Open
    <3> QED
      BY <1>d, <2>1, <3>2, <3>3, <3>4
  <2>3. CASE Fail(Top.who)
    BY <2>1, <2>3, FailPlaced
  <2>4. CASE stack' = Rest
    BY <1>b, <2>1, <2>4
  <2> QED
    BY <1>3, <2>2, <2>3, <2>4, FactoryCalls
<1>4. CASE GetValue
  <2>1. stack # <<>> /\ Top.at = "getValue" /\ Top.who \in Consumers
        /\ (stack' = Rest \/ stack' = Append(Rest, Sink(Top.who, "value")))
    BY <1>4, GetValueCalls
  <2>2. PICK f : f = Sink(Top.who, "value")
    OBVIOUS
  <2>3. f \in FrameSet
    BY <2>1, <2>2, FramesMade DEF Whats
  <2>4. f.at # "fanOut"
    BY <2>2 DEF Sink, Frame
  <2> QED
    BY <1>b, <1>d, <2>1, <2>2, <2>3, <2>4
<1>5. CASE GetValueThrows
  BY <1>5, GetValueThrowsCalls, FailPlaced
<1>6. CASE FirstValue
  <2>1. stack # <<>> /\ Top.at = "subscribing" /\ Top.up \in DOMAIN upstreams
    BY <1>6, FirstValueCalls
  <2>2. PICK g \in FrameSet : /\ g.at = "subscribing"
                              /\ stack' = Append(Append(Rest, g), FanOut(Top.up, "value", value))
    BY <1>6, FirstValueCalls
  <2>3. PICK f : f = FanOut(Top.up, "value", value)
    OBVIOUS
  <2>4. Top.up \in Nat
    BY <2>1 DEF Typed
  <2>5. f \in FrameSet
    BY <2>3, <2>4, FramesMade, ValueNumber DEF Whats
  <2>6. f.what = "value"
    BY <2>3 DEF FanOut, Frame
  <2>7. PICK r \in Seq(FrameSet) : r = Append(Rest, g) /\ EndingPlaced(r) /\ OpenEnd(r)
    BY <1>d, <2>1, <2>2
  <2> QED
    BY <2>2, <2>3, <2>5, <2>6, <2>7, PlacedPushed DEF Ending
<1>7. CASE Subscribed
  <2>1. stack # <<>> /\ Top.at = "subscribing" /\ Top.up \in DOMAIN upstreams
        /\ \/ stack' = Rest
           \/ stack' = Append(Rest, Frame("teardown", None, Top.up, "subscribe", {}))
    BY <1>7, SubscribedCalls
  <2>2. PICK f : f = Frame("teardown", None, Top.up, "subscribe", {})
    OBVIOUS
  <2>3. Top.up \in Nat
    BY <2>1 DEF Typed
  <2>4. f \in FrameSet
    BY <2>2, <2>3, FramesMade DEF Whats
  <2>5. f.at # "fanOut"
    BY <2>2 DEF Frame
  <2> QED
    BY <1>b, <1>d, <2>1, <2>2, <2>4, <2>5
<1>8. CASE SubscribeThrows
  <2>1. stack # <<>> /\ Top.at = "subscribing" /\ Top.who \in Consumers
        /\ stack' = Append(Rest, Call("failing", Top.who, None))
    BY <1>8, SubscribeThrowsCalls
  <2>2. PICK f : f = Call("failing", Top.who, None)
    OBVIOUS
  <2>3. f \in FrameSet
    BY <2>1, <2>2, FramesMade DEF Points, None
  <2>4. f.at # "fanOut"
    BY <2>2 DEF Call, Frame
  <2> QED
    BY <1>d, <2>1, <2>2, <2>3, <2>4
<1>9. CASE DeliverValue
  <2>1. stack # <<>> /\ Top.at = "fanOut" /\ Top.what = "value"
    BY <1>9, DeliverValueCalls
  <2>2. PICK t \in Consumers, g \in FrameSet :
          /\ g.what = "value"
          /\ stack' = Append(Append(Rest, g), Sink(t, "value"))
    BY <1>9, DeliverValueCalls
  <2>3. PICK f : f = Sink(t, "value")
    OBVIOUS
  <2>4. f \in FrameSet
    BY <2>3, FramesMade DEF Whats
  <2>5. f.at # "fanOut"
    BY <2>3 DEF Sink, Frame
  <2>6. PICK r \in Seq(FrameSet) : r = Append(Rest, g) /\ EndingPlaced(r) /\ OpenEnd(r)
    BY <1>d, <2>1, <2>2
  <2> QED
    BY <2>2, <2>3, <2>4, <2>5, <2>6, PlacedPushed DEF Ending
<1>10. CASE DeliverTerminal
  <2>1. stack # <<>> /\ Top.at = "fanOut" /\ Top.what = "terminal"
    BY <1>10, DeliverTerminalCalls
  <2>2. PICK t \in Consumers, g \in FrameSet, below \in Seq(FrameSet) :
          /\ g.at = "fanOut" /\ g.what = Top.what
          /\ below = Append(Append(Rest, g), Sink(t, "terminal"))
          /\ Disconnect(t, below)
    BY <1>10, DeliverTerminalCalls
  <2>3. PICK f : f = Sink(t, "terminal")
    OBVIOUS
  <2>4. f \in FrameSet
    BY <2>3, FramesMade DEF Whats
  <2>5. f.at = "sink" /\ f.what = "terminal"
    BY <2>3 DEF Sink, Frame
  <2>6. OpenEnd(Rest) /\ NobodyCloses(Rest)
    BY <2>1, PlacedPopped DEF Ending
  <2>7. PICK r \in Seq(FrameSet) : r = Append(Rest, g) /\ EndingPlaced(r)
    BY <1>b, <2>1, <2>6, PlacedPushed
  <2>8. below = Append(r, f)
    BY <2>2, <2>3, <2>7
  <2>9. EndingPlaced(below) /\ OpenEnd(below)
    BY <2>4, <2>5, <2>7, <2>8, PlacedPushed DEF Ending
  <2> QED
    BY <2>2, <2>9, DisconnectPlaced
<1>11. CASE FannedOut
  <2>1. stack # <<>> /\ Top.at = "fanOut" /\ Top.up \in DOMAIN upstreams
    BY <1>11, FannedOutCalls
  <2>2. CASE stack' = Rest
    BY <1>b, <2>1, <2>2
  <2>3. CASE Unsubscribe(Top.up, "terminal", Rest)
    <3>1. stack' = Rest \/ stack' = Append(Rest, Frame("teardown", None, Top.up, "terminal", {}))
      BY <2>3 DEF Unsubscribe, WithTeardown
    <3>2. PICK f : f = Frame("teardown", None, Top.up, "terminal", {})
      OBVIOUS
    <3>3. Top.up \in Nat
      BY <2>1 DEF Typed
    <3>4. f \in FrameSet
      BY <3>2, <3>3, FramesMade DEF Whats
    <3>5. f.at # "fanOut"
      BY <3>2 DEF Frame
    <3> QED
      BY <1>b, <1>d, <2>1, <3>1, <3>2, <3>4, <3>5
  <2> QED
    BY <1>11, <2>2, <2>3, FannedOutCalls
<1>12. CASE TornDown
  BY <1>12, <1>b, TornDownCalls
<1>13. CASE Sunk
  BY <1>13, <1>b, SunkCalls
<1>14. CASE Closed
  <2>1. stack # <<>> /\ Top.at = "closing" /\ Top.who \in Consumers /\ Disconnect(Top.who, Rest)
    BY <1>14, ClosedCalls
  <2>2. PICK t \in Consumers, below \in Seq(FrameSet) : t = Top.who /\ below = Rest
    BY <1>b, <2>1
  <2>3. EndingPlaced(below) /\ OpenEnd(below)
    BY <2>1, <2>2, PlacedPopped
  <2> QED
    BY <2>1, <2>2, <2>3, DisconnectPlaced
<1>15. ASSUME NEW t \in Consumers, Close(t) PROVE EndingPlaced(stack')
  <2>1. MayCall("close") /\ stack' = Append(stack, Call("closing", t, None))
    BY <1>15, CloseCalls
  <2>2. PICK f : f = Call("closing", t, None)
    OBVIOUS
  <2>3. f \in FrameSet
    BY <2>2, FramesMade DEF Points, Outside, None
  <2>4. f.at # "fanOut"
    BY <2>2 DEF Call, Frame
  <2> QED
    BY <1>c, <2>1, <2>2, <2>3, <2>4
<1>16. ASSUME NEW u \in DOMAIN upstreams, Emit(u) PROVE EndingPlaced(stack')
  <2>1. MayCall("emit") /\ stack' = Append(stack, FanOut(u, "value", value + 1))
    BY <1>16 DEF Emit
  <2>2. PICK f : f = FanOut(u, "value", value + 1)
    OBVIOUS
  <2>3. f \in FrameSet
    BY <2>2, FramesMade DEF Typed, Whats
  <2>4. f.what = "value"
    BY <2>2 DEF FanOut, Frame
  <2> QED
    BY <1>c, <2>1, <2>2, <2>3, <2>4
<1>17. ASSUME NEW u \in DOMAIN upstreams, End(u) PROVE EndingPlaced(stack')
  <2>1. MayCall("end") /\ stack' = Append(stack, FanOut(u, "terminal", None))
    BY <1>17 DEF End
  <2>2. FanOut(u, "terminal", None) \in FrameSet
    BY FramesMade, ValueNumber DEF Typed, Whats
  <2>3. OpenEnd(stack) /\ NobodyCloses(stack)
    BY <2>1, CallsAreOpen, EndsOutsideClosing
  <2> QED
    BY <1>a, <2>1, <2>2, <2>3, PlacedPushed
<1>18. CASE Change
  BY <1>18 DEF Change
<1>19. CASE UNCHANGED vars
  BY <1>19 DEF vars
<1> QED
  BY <1>1, <1>2, <1>3, <1>4, <1>5, <1>6, <1>7, <1>8, <1>9, <1>10, <1>11, <1>12, <1>13,
     <1>14, <1>15, <1>16, <1>17, <1>18, <1>19
  DEF Next, Return, Active

-----------------------------------------------------------------------------
(* Whom a terminal still has to reach *)

LEMMA EndingCallsKept ==
  ASSUME Typed, EndingCallsAll,
         \A t \in Consumers :
           connection'[t] \in DOMAIN upstreams /\ consumers'[t] = "live" =>
             connection'[t] = connection[t] /\ consumers[t] = "live",
         \A f \in Frames' : f \in Frames \/ ~Ending(f)
  PROVE  EndingCallsAll'
<1> SUFFICES ASSUME NEW f \in Frames', Ending(f), NEW t \in Consumers,
                    connection'[t] = f.up, consumers'[t] = "live"
             PROVE  t \in f.rest
  BY DEF EndingCallsAll, Ending
<1>1. f \in Frames /\ f.up \in DOMAIN upstreams
  BY DEF Typed, FrameOK, Ending
<1> QED
  BY <1>1 DEF EndingCallsAll

\* Who leaves a Subscriber is not called any more.
LEMMA LeavingEndings ==
  ASSUME Typed, EndingCallsAll, NEW t \in Consumers,
         connection' = [connection EXCEPT ![t] = None],
         consumers' = consumers \/ consumers' = [consumers EXCEPT ![t] = "ended"],
         \A f \in Frames' : f \in Frames \/ ~Ending(f)
  PROVE  EndingCallsAll'
<1>1. None \notin DOMAIN upstreams
  BY UpstreamNumber
<1>2. \A s \in Consumers : /\ connection'[s] = IF s = t THEN None ELSE connection[s]
                           /\ consumers'[s] = "live" => consumers[s] = "live"
  BY DEF Typed
<1> QED
  BY <1>1, <1>2, EndingCallsKept

LEMMA EndingCallsStep ==
  ASSUME "connect" \notin EndingCalls
  PROVE  Typed /\ OneShare /\ EndingPlaced(stack) /\ EndingCallsAll /\ [Next]_vars
           => EndingCallsAll'
<1> SUFFICES ASSUME Typed, OneShare, EndingPlaced(stack), EndingCallsAll, [Next]_vars
             PROVE  EndingCallsAll'
  OBVIOUS
<1>a. /\ connection \in [Consumers -> {Connecting, None} \cup DOMAIN upstreams]
      /\ consumers \in [Consumers -> {"unused", "live", "ended"}]
  BY DEF Typed
<1>b. stack # <<>> => /\ Rest \in Seq(FrameSet) /\ Frames = Below \cup {Top}
                      /\ Top \in FrameSet
  BY TopPopped
<1>c. None \notin DOMAIN upstreams
  BY UpstreamNumber
<1>d. ASSUME UNCHANGED <<consumers, connection>>,
             \A f \in Frames' : f \in Frames \/ ~Ending(f)
      PROVE  EndingCallsAll'
  BY <1>d, EndingCallsKept
<1>e. ASSUME stack # <<>>, NEW t \in Consumers, Fail(t), consumers' = consumers
      PROVE  EndingCallsAll'
  <2>1. PICK f : f = Call("failing", t, None)
    OBVIOUS
  <2>2. PICK below \in Seq(FrameSet) : Disconnect(t, below)
    BY <1>e, FailCalls
  <2>3. Calling(Below \cup {f})
    BY <1>e, <2>1, FailCalls
  <2>4. ~Ending(f)
    BY <2>1 DEF Ending, Call, Frame
  <2>5. \A g \in Frames' : g \in Frames \/ ~Ending(g)
    BY <1>b, <1>e, <2>3, <2>4 DEF Calling, Ending
  <2>6. connection' = [connection EXCEPT ![t] = None]
    BY <2>2, DisconnectDoes
  <2> QED
    BY <1>e, <2>5, <2>6, LeavingEndings
<1>1. ASSUME NEW t \in Consumers, Connect(t) PROVE EndingCallsAll'
  <2>1. \A f \in Frames : ~Ending(f)
    BY <1>1, ConnectCalls, NothingEnds
  <2>2. \A f \in Frames' : ~Ending(f)
    <3>1. PICK u : \/ Frames' = Frames
                   \/ Frames' = Frames \cup {Call("factory", t, u)}
                   \/ Frames' = Frames \cup {Call("subscribing", t, u)}
                   \/ Frames' = Frames \cup {Call("getValue", t, u)}
      BY <1>1, ConnectCalls, Zenon
    <3> QED
      BY <2>1, <3>1 DEF Call, Frame, Ending
  <2> QED
    BY <2>2 DEF EndingCallsAll, Ending
<1>2. CASE Failing
  <2>1. /\ stack # <<>> /\ Top.who \in Consumers /\ connection' = connection
        /\ \/ consumers' = [consumers EXCEPT ![Top.who] = "ended"] \/ consumers' = consumers
    BY <1>2, FailingCalls
  <2>2. PICK f : f = Sink(Top.who, "terminal") /\ Frames' \subseteq Below \cup {f}
    BY <1>2, FailingCalls
  <2>3. ~Ending(f)
    BY <2>2 DEF Ending, Sink, Frame
  <2>4. \A g \in Frames' : g \in Frames \/ ~Ending(g)
    BY <1>b, <2>1, <2>2, <2>3
  <2>5. \A s \in Consumers : consumers'[s] = "live" => consumers[s] = "live"
    BY <1>a, <2>1
  <2> QED
    BY <2>1, <2>4, <2>5, EndingCallsKept
<1>3. CASE Factory
  <2>1. stack # <<>> /\ Top.who \in Consumers /\ consumers' = consumers
    BY <1>3, FactoryCalls
  <2>2. CASE Open(Top.who, Rest)
    <3>1. PICK t \in Consumers, below \in Seq(FrameSet) : t = Top.who /\ below = Rest
      BY <1>b, <2>1
    <3>2. PICK u : u = Len(upstreams) + 1
      OBVIOUS
    <3>3. /\ u \notin DOMAIN upstreams /\ connection' = [connection EXCEPT ![t] = u]
          /\ Frames' = Below \cup {Call("subscribing", t, u)}
      BY <2>2, <3>1, <3>2, OpenDoes DEF Below
    <3>4. \A s \in Consumers : connection'[s] = IF s = t THEN u ELSE connection[s]
      BY <1>a, <3>3
    <3>5. \A f \in Frames' : f \in Frames \/ ~Ending(f)
      BY <1>b, <2>1, <3>3 DEF Ending, Call, Frame
    <3> QED
      BY <2>1, <3>3, <3>4, <3>5, EndingCallsKept
  <2>3. CASE Fail(Top.who)
    BY <1>e, <2>1, <2>3
  <2>4. CASE stack' = Rest /\ connection' = connection
    BY <1>b, <1>d, <2>1, <2>4, StackPopped
  <2> QED
    BY <1>3, <2>2, <2>3, <2>4, FactoryCalls
<1>4. CASE GetValue
  <2>1. stack # <<>> /\ UNCHANGED <<consumers, connection>>
    BY <1>4, GetValueCalls
  <2>2. PICK f : f = Sink(Top.who, "value") /\ Frames' \subseteq Below \cup {f}
    BY <1>4, GetValueCalls
  <2>3. ~Ending(f)
    BY <2>2 DEF Ending, Sink, Frame
  <2> QED
    BY <1>b, <1>d, <2>1, <2>2, <2>3
<1>5. CASE GetValueThrows
  BY <1>5, <1>e, GetValueThrowsCalls
<1>6. CASE FirstValue
  <2>1. stack # <<>> /\ UNCHANGED <<consumers, connection>>
    BY <1>6, FirstValueCalls
  <2>2. PICK g, f : /\ g.at = "subscribing" /\ f = FanOut(Top.up, "value", value)
                    /\ Frames' = Below \cup {g, f}
    BY <1>6, FirstValueCalls
  <2>3. ~Ending(g) /\ ~Ending(f)
    BY <2>2 DEF Ending, FanOut, Frame
  <2> QED
    BY <1>b, <1>d, <2>1, <2>2, <2>3
<1>7. CASE Subscribed
  <2>1. \A f \in Frames' : f \in Frames \/ ~Ending(f)
    BY <1>7, <1>b, SubscribedCalls DEF Calling, Ending
  <2> QED
    BY <1>7, <1>d, <2>1, SubscribedCalls
<1>8. CASE SubscribeThrows
  <2>1. /\ stack # <<>> /\ Top.who \in Consumers /\ consumers' = consumers
        /\ connection' = [connection EXCEPT ![Top.who] = None]
    BY <1>8, SubscribeThrowsCalls
  <2>2. PICK f : f = Call("failing", Top.who, None) /\ Frames' = Below \cup {f}
    BY <1>8, SubscribeThrowsCalls
  <2>3. ~Ending(f)
    BY <2>2 DEF Ending, Call, Frame
  <2>4. \A g \in Frames' : g \in Frames \/ ~Ending(g)
    BY <1>b, <2>1, <2>2, <2>3
  <2> QED
    BY <2>1, <2>4, LeavingEndings
<1>9. CASE DeliverValue
  <2>1. stack # <<>> /\ Top.what = "value" /\ UNCHANGED <<consumers, connection>>
    BY <1>9, DeliverValueCalls
  <2>2. PICK t, g, f : /\ g.what = "value" /\ f = Sink(t, "value")
                       /\ Frames' = Below \cup {g, f}
    BY <1>9, DeliverValueCalls
  <2>3. ~Ending(g) /\ ~Ending(f)
    BY <2>2 DEF Ending, Sink, Frame
  <2> QED
    BY <1>b, <1>d, <2>1, <2>2, <2>3
<1>10. CASE DeliverTerminal
  <2>1. stack # <<>> /\ Top.at = "fanOut" /\ Top.what = "terminal" /\ Top.up \in DOMAIN upstreams
    BY <1>10, DeliverTerminalCalls
  <2>2. PICK t \in Consumers, g \in FrameSet, below \in Seq(FrameSet) :
          /\ consumers' = [consumers EXCEPT ![t] = "ended"]
          /\ g.at = "fanOut" /\ g.up = Top.up /\ g.rest = Left \ {t}
          /\ Disconnect(t, below)
          /\ Calling(Below \cup {g, Sink(t, "terminal")})
    BY <1>10, DeliverTerminalCalls
  <2>3. connection' = [connection EXCEPT ![t] = None]
    BY <2>2, DisconnectDoes
  <2>4. \A s \in Consumers : /\ connection'[s] = IF s = t THEN None ELSE connection[s]
                             /\ consumers'[s] = "live" => consumers[s] = "live"
    BY <1>a, <2>2, <2>3
  <2>5. ~Ending(Sink(t, "terminal"))
    BY DEF Ending, Sink, Frame
  <2> SUFFICES ASSUME NEW f \in Frames', Ending(f), NEW s \in Consumers,
                      connection'[s] = f.up, consumers'[s] = "live"
               PROVE  s \in f.rest
    BY DEF EndingCallsAll, Ending
  <2>6. f \in Below \/ f = g
    BY <2>2, <2>5 DEF Calling, Ending
  <2>7. f \in Below => f \in Frames /\ f.up \in DOMAIN upstreams
    BY <1>b, <2>1 DEF Typed, FrameOK, Ending
  <2>8. s # t /\ connection[s] = f.up /\ consumers[s] = "live"
    BY <1>c, <2>1, <2>2, <2>4, <2>6, <2>7
  <2>9. CASE f \in Below
    BY <2>7, <2>8, <2>9 DEF EndingCallsAll
  <2>10. CASE f = g
    <3>1. s \in Top.rest
      BY <1>b, <2>1, <2>2, <2>8, <2>10 DEF EndingCallsAll, Ending
    <3> QED
      BY <2>2, <2>8, <2>10, <3>1 DEF Left
  <2> QED
    BY <2>6, <2>9, <2>10
<1>11. CASE FannedOut
  <2>1. /\ stack # <<>> /\ Top.up \in DOMAIN upstreams
        /\ UNCHANGED <<consumers, connection>>
    BY <1>11, FannedOutCalls
  <2>2. CASE Frames' = Below
    BY <1>b, <1>d, <2>1, <2>2
  <2>3. CASE Unsubscribe(Top.up, "terminal", Rest)
    <3>1. PICK u \in DOMAIN upstreams, below \in Seq(FrameSet) : u = Top.up /\ below = Rest
      BY <1>b, <2>1
    <3>2. PICK f : /\ f = Frame("teardown", None, u, "terminal", {})
                   /\ Frames' \subseteq Below \cup {f}
      BY <2>3, <3>1, UnsubscribeDoes DEF Below
    <3>3. ~Ending(f)
      BY <3>2 DEF Ending, Frame
    <3> QED
      BY <1>b, <1>d, <2>1, <3>2, <3>3
  <2> QED
    BY <1>11, <2>2, <2>3, FannedOutCalls
<1>12. CASE TornDown
  BY <1>12, <1>b, <1>d, TornDownCalls
<1>13. CASE Sunk
  BY <1>13, <1>b, <1>d, SunkCalls
<1>14. CASE Closed
  <2>1. /\ stack # <<>> /\ Calling(Below) /\ Top.who \in Consumers
        /\ Disconnect(Top.who, Rest) /\ consumers' = consumers
    BY <1>14, ClosedCalls
  <2>2. \A f \in Frames' : f \in Frames \/ ~Ending(f)
    BY <1>b, <2>1 DEF Calling, Ending
  <2>3. PICK t \in Consumers : t = Top.who /\ connection' = [connection EXCEPT ![t] = None]
    BY <2>1 DEF Disconnect
  <2> QED
    BY <2>1, <2>2, <2>3, LeavingEndings
<1>15. ASSUME NEW t \in Consumers, Close(t) PROVE EndingCallsAll'
  <2>1. consumers' = [consumers EXCEPT ![t] = "ended"] /\ connection' = connection
    BY <1>15, CloseCalls
  <2>2. PICK f : f = Call("closing", t, None) /\ Frames' = Frames \cup {f}
    BY <1>15, CloseCalls
  <2>3. ~Ending(f)
    BY <2>2 DEF Ending, Call, Frame
  <2>4. \A s \in Consumers : consumers'[s] = "live" => consumers[s] = "live"
    BY <1>a, <2>1
  <2> QED
    BY <2>1, <2>2, <2>3, <2>4, EndingCallsKept
<1>16. ASSUME NEW u \in DOMAIN upstreams, Emit(u) PROVE EndingCallsAll'
  <2>1. /\ stack' = Append(stack, FanOut(u, "value", value + 1))
        /\ UNCHANGED <<consumers, connection>>
    BY <1>16 DEF Emit
  <2>2. Frames' = Frames \cup {FanOut(u, "value", value + 1)}
    BY <2>1, EmitCalls, ValueNumber
  <2>3. ~Ending(FanOut(u, "value", value + 1))
    BY DEF Ending, FanOut, Frame
  <2> QED
    BY <1>d, <2>1, <2>2, <2>3
<1>17. ASSUME NEW u \in DOMAIN upstreams, End(u) PROVE EndingCallsAll'
  <2>1. /\ stack' = Append(stack, FanOut(u, "terminal", None))
        /\ UNCHANGED <<consumers, connection>>
    BY <1>17 DEF End
  <2>2. Frames' = Frames \cup {FanOut(u, "terminal", None)}
    BY <2>1, EmitCalls, ValueNumber
  <2>3. PICK g : g = FanOut(u, "terminal", None)
    OBVIOUS
  <2>4. g.up = u /\ g.rest = Members(u)
    BY <2>3 DEF FanOut, Frame
  <2> SUFFICES ASSUME NEW f \in Frames', Ending(f), NEW s \in Consumers,
                      connection'[s] = f.up, consumers'[s] = "live"
               PROVE  s \in f.rest
    BY DEF EndingCallsAll, Ending
  <2>5. CASE f \in Frames
    BY <2>1, <2>5 DEF EndingCallsAll
  <2>6. CASE f = g
    BY <2>1, <2>4, <2>6, MembersAre
  <2> QED
    BY <2>2, <2>3, <2>5, <2>6
<1>18. CASE Change
  BY <1>18, <1>d DEF Change, Frames
<1>19. CASE UNCHANGED vars
  BY <1>19, <1>d DEF vars, Frames
<1> QED
  BY <1>1, <1>2, <1>3, <1>4, <1>5, <1>6, <1>7, <1>8, <1>9, <1>10, <1>11, <1>12, <1>13,
     <1>14, <1>15, <1>16, <1>17, <1>18, <1>19
  DEF Next, Return, Active

-----------------------------------------------------------------------------
(* Upstreams that have stopped *)

\* When the fan-out of a terminal is over nobody is connected to the upstream.
LEMMA EndedForAll ==
  ASSUME Typed, ConsumerLife, EndingPlaced(stack), EndingCallsAll,
         stack # <<>>, Ending(Top), Left = {}
  PROVE  Members(Top.up) = {}
<1> SUFFICES ASSUME NEW t \in Consumers, connection[t] = Top.up PROVE FALSE
  BY MembersAre
<1>1. Top \in Frames /\ Frames = Below \cup {Top} /\ Rest \in Seq(FrameSet)
      /\ Top.up \in DOMAIN upstreams
  BY TopPopped DEF FrameOK, Ending
<1>2. consumers[t] # "live"
  <2>1. consumers[t] = "live" => t \in Top.rest
    BY <1>1 DEF EndingCallsAll
  <2> QED
    BY <2>1 DEF Left
<1>3. Held("closing", t)
  <2>1. connection[t] # None
    BY <1>1, UpstreamNumber
  <2> QED
    BY <1>2, <2>1 DEF ConsumerLife, Settled, Typed
<1>4. PICK f \in Below : f.at = "closing"
  BY <1>1, <1>3 DEF Held, Ending
<1>5. PICK i \in 1 .. Len(Rest) : Rest[i] = f
  BY <1>1, <1>4, Values DEF Below
<1> QED
  BY <1>4, <1>5, PlacedPopped DEF NobodyCloses

LEMMA StoppedKept ==
  ASSUME StoppedTells,
         \A t \in Consumers :
           connection'[t] \in DOMAIN upstreams' /\ upstreams'[connection'[t]].stopped =>
             /\ connection'[t] = connection[t]
             /\ connection[t] \in DOMAIN upstreams /\ upstreams[connection[t]].stopped,
         \A f \in Frames : f \in Frames' \/ ~Ending(f)
  PROVE  StoppedTells'
<1> SUFFICES ASSUME NEW t \in Consumers, connection'[t] \in DOMAIN upstreams',
                    upstreams'[connection'[t]].stopped
             PROVE  \E f \in Frames' : Ending(f) /\ f.up = connection'[t]
  BY DEF StoppedTells, Ending
<1>1. PICK f \in Frames : Ending(f) /\ f.up = connection[t]
  BY DEF StoppedTells
<1> QED
  BY <1>1

\* The last consumer of an upstream stops it only for itself.
LEMMA DisconnectStopped ==
  ASSUME Typed, NEW t \in Consumers, NEW below \in Seq(FrameSet), Disconnect(t, below)
  PROVE  \A s \in Consumers :
           connection'[s] \in DOMAIN upstreams' /\ upstreams'[connection'[s]].stopped =>
             /\ connection'[s] = connection[s]
             /\ connection[s] \in DOMAIN upstreams /\ upstreams[connection[s]].stopped
<1>1. /\ connection' = [connection EXCEPT ![t] = None]
      /\ DOMAIN upstreams' = DOMAIN upstreams
      /\ \A v \in DOMAIN upstreams :
           upstreams'[v] = IF LastOf(t) /\ v = connection[t]
                           THEN Unsubscribed(upstreams[v]) ELSE upstreams[v]
  BY DisconnectDoes
<1>2. None \notin DOMAIN upstreams
  BY UpstreamNumber
<1>3. \A s \in Consumers : connection'[s] = IF s = t THEN None ELSE connection[s]
  BY <1>1 DEF Typed
<1> SUFFICES ASSUME NEW s \in Consumers, connection'[s] \in DOMAIN upstreams'
             PROVE  /\ connection'[s] = connection[s] /\ connection[s] \in DOMAIN upstreams
                    /\ upstreams'[connection[s]] = upstreams[connection[s]]
  OBVIOUS
<1>4. s # t /\ connection'[s] = connection[s] /\ connection[s] \in DOMAIN upstreams
  BY <1>1, <1>2, <1>3
<1>5. ~(LastOf(t) /\ connection[s] = connection[t])
  BY <1>4, MembersAre DEF LastOf
<1> QED
  BY <1>1, <1>4, <1>5

LEMMA StoppedTellsStep ==
  ASSUME "connect" \notin EndingCalls
  PROVE  Typed /\ OneShare /\ ConsumerLife /\ EndingPlaced(stack) /\ EndingCallsAll
           /\ StoppedTells /\ [Next]_vars => StoppedTells'
<1> SUFFICES ASSUME Typed, OneShare, ConsumerLife, EndingPlaced(stack), EndingCallsAll,
                    StoppedTells, [Next]_vars
             PROVE  StoppedTells'
  OBVIOUS
<1>a. /\ connection \in [Consumers -> {Connecting, None} \cup DOMAIN upstreams]
      /\ \A v \in DOMAIN upstreams : upstreams[v] \in UpstreamSet
  BY UpstreamNumber DEF Typed
<1>b. stack # <<>> => /\ Rest \in Seq(FrameSet) /\ Frames = Below \cup {Top}
                      /\ Top \in FrameSet
  BY TopPopped
<1>c. None \notin DOMAIN upstreams
  BY UpstreamNumber
<1>d. ASSUME UNCHANGED <<connection, upstreams>>,
             \A f \in Frames : f \in Frames' \/ ~Ending(f)
      PROVE  StoppedTells'
  BY <1>d, StoppedKept
<1>e. ASSUME stack # <<>>, ~Ending(Top), NEW t \in Consumers, Fail(t)
      PROVE  StoppedTells'
  <2>1. PICK below \in Seq(FrameSet) : Disconnect(t, below)
    BY <1>e, FailCalls
  <2>2. Below \subseteq Frames'
    BY <1>e, FailCalls DEF Calling
  <2>3. \A f \in Frames : f \in Frames' \/ ~Ending(f)
    BY <1>b, <1>e, <2>2
  <2>4. \A s \in Consumers :
          connection'[s] \in DOMAIN upstreams' /\ upstreams'[connection'[s]].stopped =>
            /\ connection'[s] = connection[s]
            /\ connection[s] \in DOMAIN upstreams /\ upstreams[connection[s]].stopped
    BY <2>1, DisconnectStopped
  <2> QED
    BY <2>3, <2>4, StoppedKept
<1>f. ASSUME NEW t \in Consumers, NEW below \in Seq(FrameSet), Open(t, below),
             \A f \in Frames : f \in Frames' \/ ~Ending(f)
      PROVE  StoppedTells'
  <2>1. PICK u : u = Len(upstreams) + 1
    OBVIOUS
  <2>2. /\ u \in Nat \ {0} /\ u \notin DOMAIN upstreams
        /\ DOMAIN upstreams' = DOMAIN upstreams \cup {u}
        /\ \A v \in DOMAIN upstreams : upstreams'[v] = upstreams[v]
        /\ upstreams'[u] = NewUpstream
        /\ connection' = [connection EXCEPT ![t] = u]
    BY <1>f, <2>1, OpenDoes
  <2>3. \A s \in Consumers : connection'[s] = IF s = t THEN u ELSE connection[s]
    BY <1>a, <2>2
  <2>4. ~upstreams'[u].stopped
    BY <2>2 DEF NewUpstream
  <2>5. \A s \in Consumers : connection[s] # u
    BY <1>a, <2>2 DEF None, Connecting
  <2> QED
    BY <1>f, <2>2, <2>3, <2>4, <2>5, StoppedKept
<1>1. ASSUME NEW t \in Consumers, Connect(t) PROVE StoppedTells'
  <2>1. \A f \in Frames : ~Ending(f)
    BY <1>1, ConnectCalls, NothingEnds
  <2>2. CASE connection' = [connection EXCEPT ![t] = Connecting] /\ UNCHANGED upstreams
    <3>1. \A s \in Consumers : connection'[s] = IF s = t THEN Connecting ELSE connection[s]
      BY <1>a, <2>2
    <3>2. Connecting \notin DOMAIN upstreams
      BY UpstreamNumber
    <3> QED
      BY <2>1, <2>2, <3>1, <3>2, StoppedKept
  <2>3. CASE Open(t, stack)
    <3>1. PICK below \in Seq(FrameSet) : below = stack
      BY DEF Typed
    <3> QED
      BY <1>f, <2>1, <2>3, <3>1
  <2>4. CASE kind # "scoped" /\ shared \in DOMAIN upstreams
             /\ connection' = [connection EXCEPT ![t] = shared] /\ UNCHANGED upstreams
    <3>1. PICK s \in Consumers : connection[s] = shared
      BY <1>c, <2>4, MembersAre DEF OneShare
    <3>2. ~upstreams[shared].stopped
      BY <2>1, <2>4, <3>1 DEF StoppedTells
    <3>3. \A r \in Consumers : connection'[r] = IF r = t THEN shared ELSE connection[r]
      BY <1>a, <2>4
    <3> QED
      BY <2>1, <2>4, <3>2, <3>3, StoppedKept
  <2> QED
    BY <1>1, <2>2, <2>3, <2>4, ConnectCalls
<1>2. CASE Failing
  <2>1. /\ stack # <<>> /\ Top.at = "failing" /\ Below \subseteq Frames'
        /\ UNCHANGED <<connection, upstreams>>
    BY <1>2, FailingCalls
  <2> QED
    BY <1>b, <1>d, <2>1 DEF Ending
<1>3. CASE Factory
  <2>1. stack # <<>> /\ Top.at = "factory" /\ Top.who \in Consumers
    BY <1>3, FactoryCalls
  <2>2. CASE Open(Top.who, Rest)
    <3>1. PICK t \in Consumers, below \in Seq(FrameSet) : t = Top.who /\ below = Rest
      BY <1>b, <2>1
    <3>2. PICK u : u = Len(upstreams) + 1
      OBVIOUS
    <3>a. Open(t, below) /\ Below = ToSet(below)
      BY <2>2, <3>1 DEF Below
    <3>b. Frames' = ToSet(below) \cup {Call("subscribing", t, u)}
      BY <3>2, <3>a, OpenDoes
    <3>3. Below \subseteq Frames'
      BY <3>a, <3>b
    <3>4. \A f \in Frames : f \in Frames' \/ ~Ending(f)
      BY <1>b, <2>1, <3>3 DEF Ending
    <3> QED
      BY <1>f, <2>2, <3>1, <3>4
  <2>3. CASE Fail(Top.who)
    BY <1>e, <2>1, <2>3 DEF Ending
  <2>4. CASE stack' = Rest /\ UNCHANGED <<connection, upstreams>>
    <3>1. Frames' = Below
      BY <2>1, <2>4, StackPopped
    <3> QED
      BY <1>b, <1>d, <2>1, <2>4, <3>1 DEF Ending
  <2> QED
    BY <1>3, <2>2, <2>3, <2>4, FactoryCalls
<1>4. CASE GetValue
  <2>1. /\ stack # <<>> /\ Top.at = "getValue" /\ Below \subseteq Frames'
        /\ UNCHANGED <<connection, upstreams>>
    BY <1>4, GetValueCalls
  <2> QED
    BY <1>b, <1>d, <2>1 DEF Ending
<1>5. CASE GetValueThrows
  <2>1. stack # <<>> /\ Top.at = "getValue" /\ Top.who \in Consumers /\ Fail(Top.who)
    BY <1>5, GetValueThrowsCalls
  <2> QED
    BY <1>e, <2>1 DEF Ending
<1>6. CASE FirstValue
  <2>1. /\ stack # <<>> /\ Top.at = "subscribing" /\ Below \subseteq Frames'
        /\ UNCHANGED <<connection, upstreams>>
    BY <1>6, FirstValueCalls
  <2> QED
    BY <1>b, <1>d, <2>1 DEF Ending
<1>7. CASE Subscribed
  <2>1. /\ stack # <<>> /\ Top.at = "subscribing" /\ Top.up \in DOMAIN upstreams
        /\ upstreams' = [upstreams EXCEPT
              ![Top.up].producer = IF upstreams[Top.up].closed THEN "done" ELSE "attached"]
        /\ connection' = connection
    BY <1>7, SubscribedCalls
  <2>2. Below \subseteq Frames'
    BY <1>7, SubscribedCalls DEF Calling
  <2>3. PICK v \in DOMAIN upstreams, p \in {"done", "attached"} :
          v = Top.up /\ upstreams' = [upstreams EXCEPT ![v] = [@ EXCEPT !.producer = p]]
    BY <2>1
  <2>4. [upstreams[v] EXCEPT !.producer = p].stopped = upstreams[v].stopped
    BY <1>a DEF UpstreamSet
  <2>5. /\ DOMAIN upstreams' = DOMAIN upstreams
        /\ \A w \in DOMAIN upstreams : upstreams'[w].stopped = upstreams[w].stopped
    BY <2>3, <2>4 DEF Typed
  <2>6. \A f \in Frames : f \in Frames' \/ ~Ending(f)
    BY <1>b, <2>1, <2>2 DEF Ending
  <2> QED
    BY <2>1, <2>5, <2>6, StoppedKept
<1>8. CASE SubscribeThrows
  <2>1. /\ stack # <<>> /\ Top.at = "subscribing" /\ Top.up \in DOMAIN upstreams
        /\ Top.who \in Consumers /\ Members(Top.up) = {Top.who}
        /\ connection' = [connection EXCEPT ![Top.who] = None]
        /\ upstreams' = [upstreams EXCEPT ![Top.up] =
                            [stopped |-> TRUE, closed |-> TRUE, producer |-> "done"]]
        /\ Below \subseteq Frames'
    BY <1>8, SubscribeThrowsCalls
  <2>2. PICK t \in Consumers : t = Top.who
    BY <2>1
  <2>3. \A s \in Consumers : connection'[s] = IF s = t THEN None ELSE connection[s]
    BY <1>a, <2>1, <2>2
  <2>4. /\ DOMAIN upstreams' = DOMAIN upstreams
        /\ \A v \in DOMAIN upstreams : v # Top.up => upstreams'[v] = upstreams[v]
    BY <2>1
  <2>5. \A s \in Consumers : s # t => connection[s] # Top.up
    BY <2>1, <2>2, MembersAre
  <2>6. \A f \in Frames : f \in Frames' \/ ~Ending(f)
    BY <1>b, <2>1 DEF Ending
  <2> QED
    BY <1>c, <2>3, <2>4, <2>5, <2>6, StoppedKept
<1>9. CASE DeliverValue
  <2>1. /\ stack # <<>> /\ Top.what = "value" /\ Below \subseteq Frames'
        /\ UNCHANGED <<connection, upstreams>>
    BY <1>9, DeliverValueCalls
  <2> QED
    BY <1>b, <1>d, <2>1 DEF Ending
<1>10. CASE DeliverTerminal
  <2>1. stack # <<>> /\ Top.at = "fanOut" /\ Top.what = "terminal"
    BY <1>10, DeliverTerminalCalls
  <2>2. PICK t \in Consumers, g \in FrameSet, below \in Seq(FrameSet) :
          /\ g.at = "fanOut" /\ g.up = Top.up /\ g.what = Top.what
          /\ Disconnect(t, below)
          /\ Calling(Below \cup {g, Sink(t, "terminal")})
    BY <1>10, DeliverTerminalCalls
  <2>3. Below \subseteq Frames' /\ g \in Frames' /\ Ending(g) /\ g.up = Top.up
    BY <2>1, <2>2 DEF Calling, Ending
  <2> SUFFICES ASSUME NEW s \in Consumers, connection'[s] \in DOMAIN upstreams',
                      upstreams'[connection'[s]].stopped
               PROVE  \E f \in Frames' : Ending(f) /\ f.up = connection'[s]
    BY DEF StoppedTells, Ending
  <2>4. /\ connection'[s] = connection[s]
        /\ connection[s] \in DOMAIN upstreams /\ upstreams[connection[s]].stopped
    BY <2>2, DisconnectStopped
  <2>5. PICK f \in Frames : Ending(f) /\ f.up = connection[s]
    BY <2>4 DEF StoppedTells
  <2> QED
    BY <1>b, <2>1, <2>3, <2>4, <2>5
<1>11. CASE FannedOut
  <2>1. /\ stack # <<>> /\ Top.at = "fanOut" /\ Top.up \in DOMAIN upstreams /\ Left = {}
        /\ connection' = connection
    BY <1>11, FannedOutCalls
  <2>2. CASE Top.what = "value" /\ Frames' = Below /\ UNCHANGED upstreams
    BY <1>b, <1>d, <2>1, <2>2 DEF Ending
  <2>3. CASE Top.what = "terminal" /\ Unsubscribe(Top.up, "terminal", Rest)
    <3>1. PICK u \in DOMAIN upstreams, below \in Seq(FrameSet) : u = Top.up /\ below = Rest
      BY <1>b, <2>1
    <3>2. /\ DOMAIN upstreams' = DOMAIN upstreams
          /\ \A v \in DOMAIN upstreams :
               upstreams'[v] = IF v = u THEN Unsubscribed(upstreams[v]) ELSE upstreams[v]
          /\ Below \subseteq Frames'
      BY <2>3, <3>1, UnsubscribeDoes DEF Below
    <3>3. Members(u) = {}
      BY <2>1, <2>3, <3>1, EndedForAll DEF Ending
    <3> SUFFICES ASSUME NEW s \in Consumers, connection'[s] \in DOMAIN upstreams',
                        upstreams'[connection'[s]].stopped
                 PROVE  \E f \in Frames' : Ending(f) /\ f.up = connection'[s]
      BY DEF StoppedTells, Ending
    <3>4. connection[s] # u
      BY <3>3, MembersAre
    <3>5. PICK f \in Frames : Ending(f) /\ f.up = connection[s]
      BY <2>1, <3>2, <3>4 DEF StoppedTells
    <3> QED
      BY <1>b, <2>1, <3>1, <3>2, <3>4, <3>5
  <2> QED
    BY <1>11, <2>2, <2>3, FannedOutCalls
<1>12. CASE TornDown
  BY <1>12, <1>b, <1>d, TornDownCalls DEF Ending
<1>13. CASE Sunk
  BY <1>13, <1>b, <1>d, SunkCalls DEF Ending
<1>14. CASE Closed
  <2>1. /\ stack # <<>> /\ Top.at = "closing" /\ Below \subseteq Frames'
        /\ Top.who \in Consumers /\ Rest \in Seq(FrameSet) /\ Disconnect(Top.who, Rest)
    BY <1>14, ClosedCalls DEF Calling
  <2>2. PICK t \in Consumers, below \in Seq(FrameSet) : t = Top.who /\ below = Rest
    BY <2>1
  <2>3. \A s \in Consumers :
          connection'[s] \in DOMAIN upstreams' /\ upstreams'[connection'[s]].stopped =>
            /\ connection'[s] = connection[s]
            /\ connection[s] \in DOMAIN upstreams /\ upstreams[connection[s]].stopped
    BY <2>1, <2>2, DisconnectStopped
  <2>4. \A f \in Frames : f \in Frames' \/ ~Ending(f)
    BY <1>b, <2>1 DEF Ending
  <2> QED
    BY <2>3, <2>4, StoppedKept
<1>15. ASSUME NEW t \in Consumers, Close(t) PROVE StoppedTells'
  BY <1>15, <1>d, CloseCalls
<1>16. ASSUME NEW u \in DOMAIN upstreams, Emit(u) PROVE StoppedTells'
  <2>1. /\ stack' = Append(stack, FanOut(u, "value", value + 1))
        /\ UNCHANGED <<connection, upstreams>>
    BY <1>16 DEF Emit
  <2> QED
    BY <1>d, <2>1, EmitCalls, ValueNumber
<1>17. ASSUME NEW u \in DOMAIN upstreams, End(u) PROVE StoppedTells'
  <2>1. /\ stack' = Append(stack, FanOut(u, "terminal", None))
        /\ upstreams' = [upstreams EXCEPT ![u].stopped = TRUE]
        /\ connection' = connection
    BY <1>17 DEF End
  <2>2. Frames' = Frames \cup {FanOut(u, "terminal", None)}
    BY <2>1, EmitCalls, ValueNumber
  <2>3. PICK g : g = FanOut(u, "terminal", None)
    OBVIOUS
  <2>4. Ending(g) /\ g.up = u
    BY <2>3 DEF FanOut, Frame, Ending
  <2>5. DOMAIN upstreams' = DOMAIN upstreams
        /\ \A v \in DOMAIN upstreams : v # u => upstreams'[v] = upstreams[v]
    BY <2>1
  <2> SUFFICES ASSUME NEW s \in Consumers, connection'[s] \in DOMAIN upstreams',
                      upstreams'[connection'[s]].stopped
               PROVE  \E f \in Frames' : Ending(f) /\ f.up = connection'[s]
    BY DEF StoppedTells, Ending
  <2>6. CASE connection[s] = u
    BY <2>1, <2>2, <2>3, <2>4, <2>6
  <2>7. CASE connection[s] # u
    <3>1. PICK f \in Frames : Ending(f) /\ f.up = connection[s]
      BY <2>1, <2>5, <2>7 DEF StoppedTells
    <3> QED
      BY <2>1, <2>2, <3>1
  <2> QED
    BY <2>6, <2>7
<1>18. CASE Change
  BY <1>18, <1>d DEF Change, Frames
<1>19. CASE UNCHANGED vars
  BY <1>19, <1>d DEF vars, Frames
<1> QED
  BY <1>1, <1>2, <1>3, <1>4, <1>5, <1>6, <1>7, <1>8, <1>9, <1>10, <1>11, <1>12, <1>13,
     <1>14, <1>15, <1>16, <1>17, <1>18, <1>19
  DEF Next, Return, Active

\* A teardown is run by whoever released or subscribed, and caught there.
LEMMA TeardownCaughtStep ==
  Typed /\ UpstreamLife /\ ConsumerLife /\ EndingPlaced(stack) /\ EndingCallsAll
    /\ TeardownCaught /\ [Next]_vars => TeardownCaught'
<1> SUFFICES ASSUME Typed, UpstreamLife, ConsumerLife, EndingPlaced(stack), EndingCallsAll,
                    TeardownCaught, [Next]_vars
             PROVE  TeardownCaught'
  OBVIOUS
<1>b. stack # <<>> => /\ Rest \in Seq(FrameSet) /\ Frames = Below \cup {Top}
  BY TopPopped
<1>d. ASSUME escaped' = escaped,
             \A f \in Frames' : f \in Frames \/ f.at # "teardown" \/ f.what # "terminal"
      PROVE  TeardownCaught'
  BY <1>d DEF TeardownCaught
<1>e. ASSUME stack # <<>>, NEW t \in Consumers, Fail(t), escaped' = escaped
      PROVE  TeardownCaught'
  <2>1. PICK f : f = Call("failing", t, None)
    OBVIOUS
  <2>2. Calling(Below \cup {f})
    BY <1>e, <2>1, FailCalls
  <2>3. f.at # "teardown"
    BY <2>1 DEF Call, Frame
  <2> QED
    BY <1>b, <1>d, <1>e, <2>2, <2>3 DEF Calling
<1>1. ASSUME NEW t \in Consumers, Connect(t) PROVE TeardownCaught'
  <2>1. PICK u : \/ Frames' = Frames
                 \/ Frames' = Frames \cup {Call("factory", t, u)}
                 \/ Frames' = Frames \cup {Call("subscribing", t, u)}
                 \/ Frames' = Frames \cup {Call("getValue", t, u)}
    BY <1>1, ConnectCalls, Zenon
  <2>2. \A f \in Frames' : f \in Frames \/ f.at # "teardown"
    BY <2>1 DEF Call, Frame
  <2> QED
    BY <1>1, <1>d, <2>2, ConnectCalls
<1>2. CASE Failing
  <2>1. stack # <<>> /\ escaped' = escaped
    BY <1>2, FailingCalls
  <2>2. PICK f : f = Sink(Top.who, "terminal") /\ Frames' \subseteq Below \cup {f}
    BY <1>2, FailingCalls
  <2>3. f.at # "teardown"
    BY <2>2 DEF Sink, Frame
  <2> QED
    BY <1>b, <1>d, <2>1, <2>2, <2>3
<1>3. CASE Factory
  <2>1. stack # <<>> /\ Top.who \in Consumers /\ escaped' = escaped
    BY <1>3, FactoryCalls
  <2>2. CASE Open(Top.who, Rest)
    <3>1. PICK t \in Consumers, below \in Seq(FrameSet) : t = Top.who /\ below = Rest
      BY <1>b, <2>1
    <3>2. PICK u : u = Len(upstreams) + 1
      OBVIOUS
    <3>3. Open(t, below) /\ Below = ToSet(below)
      BY <2>2, <3>1 DEF Below
    <3>a. Frames' = ToSet(below) \cup {Call("subscribing", t, u)}
      BY <3>2, <3>3, OpenDoes
    <3>4. PICK f : f = Call("subscribing", t, u) /\ Frames' = ToSet(below) \cup {f}
      BY <3>a
    <3>5. f.at # "teardown"
      BY <3>4 DEF Call, Frame
    <3> QED
      BY <1>b, <1>d, <2>1, <3>3, <3>4, <3>5
  <2>3. CASE Fail(Top.who)
    BY <1>e, <2>1, <2>3
  <2>4. CASE stack' = Rest
    BY <1>b, <1>d, <2>1, <2>4, StackPopped
  <2> QED
    BY <1>3, <2>2, <2>3, <2>4, FactoryCalls
<1>4. CASE GetValue
  <2>1. stack # <<>> /\ escaped' = escaped
    BY <1>4, GetValueCalls
  <2>2. PICK f : f = Sink(Top.who, "value") /\ Frames' \subseteq Below \cup {f}
    BY <1>4, GetValueCalls
  <2>3. f.at # "teardown"
    BY <2>2 DEF Sink, Frame
  <2> QED
    BY <1>b, <1>d, <2>1, <2>2, <2>3
<1>5. CASE GetValueThrows
  BY <1>5, <1>e, GetValueThrowsCalls
<1>6. CASE FirstValue
  <2>1. stack # <<>> /\ escaped' = escaped
    BY <1>6, FirstValueCalls
  <2>2. PICK g, f : /\ g.at = "subscribing" /\ f = FanOut(Top.up, "value", value)
                    /\ Frames' = Below \cup {g, f}
    BY <1>6, FirstValueCalls
  <2>3. f.at # "teardown"
    BY <2>2 DEF FanOut, Frame
  <2> QED
    BY <1>b, <1>d, <2>1, <2>2, <2>3
<1>7. CASE Subscribed
  BY <1>7, <1>b, <1>d, SubscribedCalls DEF Calling
<1>8. CASE SubscribeThrows
  <2>1. stack # <<>> /\ escaped' = escaped
    BY <1>8, SubscribeThrowsCalls
  <2>2. PICK f : f = Call("failing", Top.who, None) /\ Frames' = Below \cup {f}
    BY <1>8, SubscribeThrowsCalls
  <2>3. f.at # "teardown"
    BY <2>2 DEF Call, Frame
  <2> QED
    BY <1>b, <1>d, <2>1, <2>2, <2>3
<1>9. CASE DeliverValue
  <2>1. stack # <<>> /\ escaped' = escaped
    BY <1>9, DeliverValueCalls
  <2>2. PICK t, g, f : /\ g.at = "fanOut" /\ f = Sink(t, "value")
                       /\ Frames' = Below \cup {g, f}
    BY <1>9, DeliverValueCalls
  <2>3. f.at # "teardown"
    BY <2>2 DEF Sink, Frame
  <2> QED
    BY <1>b, <1>d, <2>1, <2>2, <2>3
<1>10. CASE DeliverTerminal
  <2>1. stack # <<>> /\ escaped' = escaped
    BY <1>10, DeliverTerminalCalls
  <2>2. PICK t, g, f : /\ g.at = "fanOut" /\ f = Sink(t, "terminal")
                       /\ Calling(Below \cup {g, f})
    BY <1>10, DeliverTerminalCalls
  <2>3. f.at # "teardown"
    BY <2>2 DEF Sink, Frame
  <2> QED
    BY <1>b, <1>d, <2>1, <2>2, <2>3 DEF Calling
<1>11. CASE FannedOut
  <2>1. /\ stack # <<>> /\ Top.at = "fanOut" /\ Top.up \in DOMAIN upstreams /\ Left = {}
        /\ escaped' = escaped
    BY <1>11, FannedOutCalls
  <2>2. CASE Frames' = Below
    BY <1>b, <1>d, <2>1, <2>2
  <2>3. CASE Top.what = "terminal" /\ Unsubscribe(Top.up, "terminal", Rest)
    <3>1. upstreams[Top.up].closed
      BY <2>1, <2>3, EndedForAll DEF Ending, UpstreamLife, Living
    <3>2. stack' = Rest
      BY <2>3, <3>1 DEF Unsubscribe, WithTeardown
    <3> QED
      BY <1>b, <1>d, <2>1, <3>2, StackPopped
  <2> QED
    BY <1>11, <2>2, <2>3, FannedOutCalls
<1>12. CASE TornDown
  <2>1. /\ stack # <<>> /\ Top.at = "teardown" /\ Frames' = Below
        /\ escaped' \in {escaped, escaped \/ Top.what = "terminal"}
    BY <1>12, TornDownCalls
  <2>2. Top.what # "terminal" /\ escaped = FALSE
    BY <1>b, <2>1 DEF TeardownCaught, Typed
  <2>3. escaped' = FALSE
    BY <2>1, <2>2
  <2> QED
    BY <1>b, <1>d, <2>1, <2>2, <2>3
<1>13. CASE Sunk
  BY <1>13, <1>b, <1>d, SunkCalls
<1>14. CASE Closed
  BY <1>14, <1>b, <1>d, ClosedCalls DEF Calling
<1>15. ASSUME NEW t \in Consumers, Close(t) PROVE TeardownCaught'
  <2>1. PICK f : f = Call("closing", t, None) /\ Frames' = Frames \cup {f}
                 /\ escaped' = escaped
    BY <1>15, CloseCalls
  <2>2. f.at # "teardown"
    BY <2>1 DEF Call, Frame
  <2> QED
    BY <1>d, <2>1, <2>2
<1>16. ASSUME NEW u \in DOMAIN upstreams, NEW w \in {"value", "terminal"}, NEW h \in Nat,
              stack' = Append(stack, FanOut(u, w, h)), escaped' = escaped
       PROVE  TeardownCaught'
  <2>1. PICK f : f = FanOut(u, w, h) /\ Frames' = Frames \cup {f}
    BY <1>16, EmitCalls, ValueNumber
  <2>2. f.at # "teardown"
    BY <2>1 DEF FanOut, Frame
  <2> QED
    BY <1>16, <1>d, <2>1, <2>2
<1>17. ASSUME NEW u \in DOMAIN upstreams, Emit(u) \/ End(u) PROVE TeardownCaught'
  <2>0. value + 1 \in Nat /\ None \in Nat
    BY ValueNumber DEF None
  <2>1. CASE stack' = Append(stack, FanOut(u, "value", value + 1)) /\ escaped' = escaped
    BY <1>16, <2>0, <2>1
  <2>2. CASE stack' = Append(stack, FanOut(u, "terminal", None)) /\ escaped' = escaped
    BY <1>16, <2>0, <2>2
  <2> QED
    BY <1>17, <2>1, <2>2 DEF Emit, End
<1>18. CASE Change
  BY <1>18, <1>d DEF Change, Frames
<1>19. CASE UNCHANGED vars
  BY <1>19, <1>d DEF vars, Frames
<1> QED
  BY <1>1, <1>2, <1>3, <1>4, <1>5, <1>6, <1>7, <1>8, <1>9, <1>10, <1>11, <1>12, <1>13,
     <1>14, <1>15, <1>17, <1>18, <1>19
  DEF Next, Return, Active

-----------------------------------------------------------------------------
(* The theorems *)

LEMMA InitBasics == Init => Basics
<1> SUFFICES ASSUME Init PROVE Basics
  OBVIOUS
<1>1. Typed
  BY InitTyped
<1>2. /\ \A t \in Consumers : connection[t] = None /\ consumers[t] = "unused"
      /\ DOMAIN upstreams = {} /\ shared = None
  BY DEF Init
<1>3. Frames = {}
  BY ValuesEmpty DEF Init, Frames
<1>4. OneShare
  BY <1>2 DEF OneShare
<1>5. UpstreamLife /\ NoOldValue /\ StateFollowed
  BY <1>2, <1>3 DEF UpstreamLife, NoOldValue, StateFollowed, Listening
<1>6. ConsumerLife /\ CallersKnown
  BY <1>2, <1>3 DEF ConsumerLife, Settled, CallersKnown, None, Connecting
<1> QED
  BY <1>1, <1>4, <1>5, <1>6 DEF Basics

LEMMA BasicsStep == Basics /\ [Next]_vars => Basics'
BY TypedStep, OneShareStep, UpstreamLifeStep, ConsumerLifeStep, CallersKnownStep,
   NoOldValueStep, StateFollowedStep DEF Basics

LEMMA BasicsHold == Spec => []Basics
BY InitBasics, BasicsStep, PTL DEF Spec

LEMMA InitEndings == Init => Endings
<1> SUFFICES ASSUME Init PROVE Endings
  OBVIOUS
<1>1. Frames = {} /\ stack = <<>>
  BY ValuesEmpty DEF Init, Frames
<1>2. /\ DOMAIN upstreams = {} /\ escaped = FALSE
  BY DEF Init
<1>3. EndingPlaced(stack)
  BY <1>1 DEF EndingPlaced
<1> QED
  BY <1>1, <1>2, <1>3 DEF Endings, EndingCallsAll, StoppedTells, TeardownCaught

LEMMA EndingsStep ==
  ASSUME "connect" \notin EndingCalls, "end" \notin ClosingCalls
  PROVE  Basics /\ Endings /\ [Next]_vars => Endings'
BY EndingPlacedStep, EndingCallsStep, StoppedTellsStep, TeardownCaughtStep
   DEF Basics, Endings

LEMMA EndingsHold ==
  ASSUME "connect" \notin EndingCalls, "end" \notin ClosingCalls
  PROVE  Spec => [](Basics /\ Endings)
BY InitBasics, BasicsStep, InitEndings, EndingsStep, PTL DEF Spec

LEMMA NoFrames ==
  ASSUME Idle
  PROVE  Frames = {}
BY ValuesEmpty DEF Idle, Frames

\* A key has one upstream at a time, whatever is called from where (upstreams.ts: the
\* share is taken out of the map before its Subscriber is unsubscribed, and a Subscriber
\* is stored before the source is subscribed).
THEOREM OneUpstreamCorrect == Spec => []OneUpstream
<1>1. Basics => OneUpstream
  <2> SUFFICES ASSUME Basics PROVE OneUpstream
    OBVIOUS
  <2>1. Typed /\ OneShare
    BY DEF Basics
  <2>2. \A u \in DOMAIN upstreams :
          /\ upstreams[u].stopped \in BOOLEAN /\ upstreams[u].closed \in BOOLEAN
          /\ upstreams[u].producer \in {"subscribing", "attached", "done"}
    BY <2>1, UpstreamNumber DEF UpstreamSet
  <2>3. \A i \in DOMAIN stack : stack[i].at \in Outside \cup {"fanOut", "failing"}
    <3>1. stack \in Seq(FrameSet)
      BY <2>1 DEF Typed
    <3>2. \A i \in DOMAIN stack : stack[i] \in FrameSet
      BY <3>1
    <3> QED
      BY <3>2 DEF FrameSet, Points
  <2>4. /\ kind \in AllKinds
        /\ value \in 0 .. MaxValues /\ nested \in BOOLEAN
        /\ consumers \in [Consumers -> {"unused", "live", "ended"}]
        /\ connection \in [Consumers -> {Connecting, None} \cup DOMAIN upstreams]
        /\ seen \in [Consumers -> 0 .. value]
        /\ shared \in {None} \cup DOMAIN upstreams
        /\ kind = "scoped" => shared = None
        /\ escaped \in BOOLEAN
    BY <2>1 DEF Typed
  <2> QED
    BY <2>1, <2>2, <2>3, <2>4, Zenon DEF OneUpstream, TypeOK
<1> QED
  BY <1>1, BasicsHold, PTL

LEMMA NothingHeld ==
  ASSUME Basics
  PROVE  NothingLeaks
<1> SUFFICES ASSUME Idle PROVE NothingLeaks
  BY DEF NothingLeaks
<1>1. Frames = {}
  BY NoFrames
<1>2. \A t \in Consumers : consumers[t] # "live" => connection[t] = None
  BY <1>1 DEF Basics, Typed, ConsumerLife, Settled, Held
<1>3. ASSUME NEW u \in DOMAIN upstreams, Members(u) = {}
      PROVE  upstreams[u].closed /\ upstreams[u].producer = "done"
  <2>1. Living(u) /\ upstreams[u] \in UpstreamSet
    BY UpstreamNumber DEF Basics, UpstreamLife
  <2> QED
    BY <1>1, <1>3, <2>1 DEF Living, UpstreamSet
<1> QED
  BY <1>2, <1>3 DEF NothingLeaks

\* When nothing is going on no subscription that is over has a connection and no
\* upstream without consumers a producer, whatever is called from where (#release,
\* and the teardown that comes when the upstream is closed already).
THEOREM NothingLeaksCorrect == Spec => []NothingLeaks
BY BasicsHold, NothingHeld, PTL

\* Every subscription that is not over is connected to an upstream that can still
\* notify, and has the current value of a State unless that was emitted inside the fan-out
\* of an older one, when sinks of a terminal connect nobody and no source ends while a
\* consumer is being closed (#fanOut and #terminate).
THEOREM ConsumersServedCorrect ==
  ASSUME "connect" \notin EndingCalls, "end" \notin ClosingCalls
  PROVE  Spec => []ConsumersServed
<1>1. Basics /\ Endings => ConsumersServed
  <2> SUFFICES ASSUME Basics, Endings, Idle, NEW t \in Consumers, consumers[t] = "live"
               PROVE  /\ connection[t] \in Active
                      /\ kind = "state" /\ ~nested => seen[t] = value
    BY DEF ConsumersServed, Served, UpToDate, LastValueReaches
  <2>1. Frames = {}
    BY NoFrames
  <2>2. connection[t] \in DOMAIN upstreams
    BY <2>1 DEF Basics, Typed, ConsumerLife, Settled, Held
  <2>3. ~upstreams[connection[t]].stopped
    BY <2>1, <2>2 DEF Endings, StoppedTells
  <2>4. upstreams[connection[t]].producer # "done"
    BY <2>2, <2>3 DEF Basics, UpstreamLife, Living
  <2>5. kind = "state" /\ ~nested => seen[t] = value
    BY <2>1, <2>2, <2>3 DEF Basics, StateFollowed, Listening, Informed
  <2> QED
    BY <2>2, <2>3, <2>4, <2>5 DEF Active
<1> QED
  BY <1>1, EndingsHold, PTL

\* Nothing runs for nobody, and the exception of a teardown is caught where #release or
\* #subscribe runs it, under the same two hypotheses.
THEOREM UpstreamsReleasedCorrect ==
  ASSUME "connect" \notin EndingCalls, "end" \notin ClosingCalls
  PROVE  Spec => []UpstreamsReleased
<1>1. Basics /\ Endings => UpstreamsReleased
  BY NothingHeld DEF Endings, TeardownCaught, TeardownContained, UpstreamsReleased
<1> QED
  BY <1>1, EndingsHold, PTL
=============================================================================
