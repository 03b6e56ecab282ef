--------------------------- MODULE RendererStreams ---------------------------
(***************************************************************************)
(* renderer/local-generation.ts, stream-multiplexer.ts, snapshot-store.ts  *)
(* and api-lifetime.ts: the local subscribers of one operation key, the    *)
(* generation (remote subscription) they share, the snapshot of a State,   *)
(* and the store that shows it to its listeners.  Keys meet only in        *)
(* closeAll(), which ends the generations one by one.                      *)
(*                                                                         *)
(* rxjs `share' counts the subscribers, opens a generation for the first   *)
(* and closes it after the last.  A subject stands for the subscribers it  *)
(* takes, and is named by the one that made it.                            *)
(*                                                                         *)
(* The diagnostics sink, transport.control, the subscribers and the store  *)
(* listeners run inside these steps and may call the API again; so may the *)
(* transport, with a message.  `stack' holds the calls in progress, the    *)
(* innermost last.                                                         *)
(***************************************************************************)
EXTENDS Integers, Sequences, FiniteSets, SequencesExt

CONSTANTS
  Kinds,          \* the kinds of operation to check
  NumListeners,   \* how many listeners the store of a State has
  MaxSubscribers, \* bound: no subscriber or listener comes after so many
  MaxJoins,       \* bound: nor after the store has joined so often
  MaxBatches,     \* bound: the batches of a generation
  BatchSize,      \* how many values a batch has
  InnerCalls,     \* the calls made inside outside calls
  Entrances,      \* the moments a subscriber or listener also comes at (MayEnter)
  MaxDepth        \* bound: no call is made inside this many outside calls

AllKinds == {"state", "event"}
AllCalls == {"subscribe", "leave", "listen", "unlisten", "deliver", "dispose"}
AllEntrances == {"left while opened", "releasing", "disposing", "replaying"}

ASSUME KindsAssumption == Kinds \subseteq AllKinds
ASSUME CallsAssumption ==
  InnerCalls \subseteq AllCalls /\ Entrances \subseteq AllEntrances
ASSUME BoundAssumption ==
  /\ NumListeners \in Nat /\ MaxSubscribers \in Nat /\ MaxJoins \in Nat /\ MaxBatches \in Nat
  /\ BatchSize \in Nat \ {0} /\ MaxDepth \in Nat

Listeners == 1 .. NumListeners
None == 0

VARIABLES
  kind,        \* "state" or "event"
  disposed,    \* ApiLifetime: dispose() was called
  generations, \* the generations, in the order they were opened
  share,       \* its current connection (a generation) and subject, or None
  subscribers, \* the local subscribers, in the order they came
  valued,      \* the subjects that have a value to replay
  snapshot,    \* the snapshot of the State, and the generation it is of
  store,       \* the store: joined (open), its subscriber, joins, opened handle
  listeners,   \* the listeners of the store
  informed,    \* those that were called since the snapshot changed
  stack        \* the calls in progress

storeVars == <<store, listeners>>
vars == <<kind, disposed, generations, share, subscribers, valued, snapshot, storeVars,
          informed, stack>>

\* A generation: in the map of the multiplexer, active once Main has answered, the
\* last sequence; announced to the store; ended, as #connect sees it; its connection
\* stopped; its teardown attached; the subject it feeds; the batches it owes an
\* acknowledge; and whether Main has a subscription for it.
NewGeneration(subject) ==
  [mapped |-> TRUE, active |-> FALSE, last |-> -1, announced |-> FALSE, ended |-> FALSE,
   stopped |-> FALSE, attached |-> FALSE, subject |-> subject, owed |-> 0,
   main |-> "unaware"]

NoShare == [connection |-> None, subject |-> None]

Init ==
  /\ kind \in Kinds
  /\ disposed = FALSE
  /\ generations = <<>>
  /\ share = NoShare
  /\ subscribers = <<>>
  /\ valued = {}
  /\ snapshot = [status |-> "uninitialized", active |-> FALSE, of |-> None]
  /\ store = [open |-> FALSE, upstream |-> None, joins |-> 0, handle |-> FALSE]
  /\ listeners = {}
  /\ informed = {}
  /\ stack = <<>>

\* A call in progress about `on' (a generation, a subscriber, a listener); `rest' is
\* what a loop has left.
Frame(at, on, what, rest) == [at |-> at, on |-> on, what |-> what, rest |-> rest]
Call(at, on) == Frame(at, on, "none", <<>>)

Top == stack[Len(stack)]
Rest == SubSeq(stack, 1, Len(stack) - 1)
At(point) == stack # <<>> /\ Top.at = point
Idle == stack = <<>>

\* The points of the stack at which somebody else's code runs.
Outside == {"opened", "subscribing", "closed", "unsubscribing", "settling", "handler",
            "onChange", "acking"}

MayCall(call) ==
  \/ Idle
  \/ /\ ~Idle /\ call \in InnerCalls
     /\ Top.at \in Outside
     /\ Cardinality({i \in DOMAIN stack : stack[i].at \in Outside}) < MaxDepth

\* Everybody has left, or would leave with subscriber i, a generation that is still
\* being opened.
LeftWhileOpened ==
  \E g \in DOMAIN generations : generations[g].stopped /\ ~generations[g].attached
WouldLeaveWhileOpened(i) ==
  share.connection # None /\ ~generations[share.connection].attached
    /\ {k \in DOMAIN subscribers : subscribers[k].status # "gone"} = {i}

\* A subscriber or listener comes, a subscriber leaves and dispose() is called at any
\* time the constants do not rule out: the generation is left while it is being opened
\* and somebody may open the next; the last listener is just leaving; for a listener,
\* dispose() has not yet ended the generation.  And a generation ends while a value of
\* it is replayed to a subscriber and one of an earlier generation is still counted.
MayEnter(call) ==
  /\ MayCall(call) /\ Len(subscribers) < MaxSubscribers /\ store.joins < MaxJoins
  /\ "left while opened" \in Entrances \/ ~LeftWhileOpened
  /\ "releasing" \in Entrances \/ \A i \in DOMAIN stack : stack[i].at # "released"
  /\ \/ call = "subscribe" \/ "disposing" \in Entrances
     \/ ~(disposed /\ snapshot.active)

MayEnd ==
  \/ "replaying" \in Entrances
  \/ \A i \in DOMAIN stack : stack[i].at # "sharing"
  \/ \A i \in DOMAIN subscribers : subscribers[i].status # "stopped"

MayLeave(i) ==
  /\ MayCall("leave")
  /\ \/ "left while opened" \in Entrances
     \/ ~(store.handle /\ ~store.open /\ WouldLeaveWhileOpened(i))

-----------------------------------------------------------------------------
\* The subscribers `share' counts: those whose finalizer has not run.
Counted == {i \in DOMAIN subscribers : subscribers[i].status # "gone"}
\* The subscribers a subject still calls.
Taking(subject) ==
  {i \in DOMAIN subscribers :
     subscribers[i].subject = subject /\ subscribers[i].status = "live"}

\* A snapshot is set: the listeners have not seen it yet.
Show(status, g) ==
  /\ snapshot' = [status |-> status, active |-> status \in {"connecting", "current"},
                  of |-> g]
  /\ informed' = {}

\* #markInactive, for a State.
MarkInactive(g) ==
  IF kind = "state"
  THEN Show(IF snapshot.status \in {"current", "stale"} THEN "stale"
            ELSE "uninitialized", g)
  ELSE UNCHANGED <<snapshot, informed>>

\* #terminate after its guard: out of the map, then the sink, then the rest.
Terminating(g, cause, below) ==
  below \o <<Frame("ending", g, cause, <<>>), Call("closed", g)>>

\* Mutant: the multiplexer is not told of the last subscriber's leave.
TeardownSilent(g, changed, below) ==
  /\ generations' = [generations EXCEPT ![g] = changed, ![g].ended = TRUE]
  /\ stack' = below
  /\ IF generations[g].ended THEN UNCHANGED <<snapshot, informed>> ELSE MarkInactive(g)

\* The teardown #connect returned: unless the generation has ended it ends and is
\* closed in the multiplexer, which does nothing while the API is disposed.
Teardown(g, changed, below) ==
  LET closes == ~generations[g].ended /\ generations[g].mapped /\ ~disposed IN
  /\ generations' = [generations EXCEPT
       ![g] = [changed EXCEPT !.ended = TRUE, !.mapped = @ /\ ~closes]]
  /\ stack' = IF closes THEN Terminating(g, "unsubscribed", below) ELSE below
  /\ IF generations[g].ended THEN UNCHANGED <<snapshot, informed>> ELSE MarkInactive(g)

\* share, when a connection is unsubscribed: its teardown runs if it is there.
Disconnect(g, below) ==
  LET changed == [generations[g] EXCEPT !.stopped = TRUE] IN
  IF generations[g].attached
  THEN Teardown(g, changed, below)
  ELSE /\ generations' = [generations EXCEPT ![g] = changed]
       /\ stack' = below
       /\ UNCHANGED <<snapshot, informed>>

\* A subscriber is unsubscribed: its finalizer runs once, and the last one resets
\* the share before the connection is unsubscribed.
Leave(i, below) ==
  IF i = None \/ i \notin Counted
  THEN stack' = below /\ UNCHANGED <<generations, share, subscribers, snapshot, informed>>
  ELSE /\ subscribers' = [subscribers EXCEPT ![i].status = "gone"]
       /\ IF Counted # {i}
          THEN stack' = below /\ UNCHANGED <<generations, share, snapshot, informed>>
          ELSE /\ share' = NoShare
               /\ IF share.connection = None
                  THEN stack' = below /\ UNCHANGED <<generations, snapshot, informed>>
                  ELSE Disconnect(share.connection, below)

-----------------------------------------------------------------------------
\* What a subscriber is called for: one of the user runs outside, that of the store
\* notifies the listeners or finishes.
Notification(owner, i, what) ==
  IF owner = "user" THEN Call("handler", i)
  ELSE IF what = "next" THEN Call("notify", None) ELSE Call("finish", None)

\* LocalGeneration.subscribe for a new subscriber: it joins the subject of the share
\* and is given the value a ReplaySubject has; `share' then looks at the connection.
\* On a disposed API a subscriber of the user fails without further effect, that of
\* the store finishes.
Subscribe(owner, below) ==
  LET i == Len(subscribers) + 1
      subject == IF share.subject = None THEN i ELSE share.subject
      sharing == Append(below, Call("sharing", i))
  IN
  IF disposed
  THEN /\ stack' = IF owner = "store" THEN Append(below, Call("finish", None)) ELSE below
       /\ UNCHANGED <<share, subscribers>>
  ELSE /\ subscribers' = Append(subscribers,
            [owner |-> owner, subject |-> subject, status |-> "live"])
       /\ share' = [share EXCEPT !.subject = subject]
       /\ stack' = IF kind = "state" /\ subject \in valued
                   THEN Append(sharing, Notification(owner, i, "next"))
                   ELSE sharing

\* share: without a connection one is opened, up to the sink that hears of it.
Sharing ==
  LET g == Len(generations) + 1 IN
  /\ At("sharing")
  /\ IF share.connection = None /\ Counted # {}
     THEN /\ share' = [share EXCEPT !.connection = g]
          /\ generations' = Append(generations, NewGeneration(subscribers[Top.on].subject))
          /\ stack' = Rest \o <<Call("connected", g), Call("opened", g)>>
          /\ IF kind = "state" THEN Show("connecting", g)
             ELSE UNCHANGED <<snapshot, informed>>
     ELSE stack' = Rest /\ UNCHANGED <<share, generations, snapshot, informed>>
  /\ UNCHANGED <<kind, disposed, subscribers, valued, storeVars>>

\* multiplexer.open, after the sink: nothing is sent for a generation that was closed.
Opened ==
  /\ At("opened")
  /\ IF generations[Top.on].mapped
     THEN /\ generations' = [generations EXCEPT ![Top.on].main = "subscribed"]
          /\ stack' = Append(Rest, Call("subscribing", Top.on))
     ELSE stack' = Rest /\ UNCHANGED generations
  /\ UNCHANGED <<kind, disposed, share, subscribers, valued, snapshot, storeVars, informed>>

\* transport.control(subscribe) returns, or throws, and the generation fails.
Subscribing ==
  LET g == Top.on IN
  /\ At("subscribing")
  /\ \/ stack' = Rest /\ UNCHANGED generations
     \/ /\ generations[g].mapped
        /\ generations' = [generations EXCEPT ![g].mapped = FALSE, ![g].main = "gone"]
        /\ stack' = Terminating(g, "transport-failed", Rest)
  /\ UNCHANGED <<kind, disposed, share, subscribers, valued, snapshot, storeVars, informed>>

\* multiplexer.open has returned: unless it has ended already the generation is
\* announced, to the store if it is registered.
Announce(g, announced) ==
  /\ generations' = [generations EXCEPT ![g].announced = announced]
  /\ stack' = Append(Rest, Call("attaching", g))
              \o IF announced /\ kind = "state" /\ store.handle
                 THEN <<Call("generationOpened", g)>> ELSE <<>>
  /\ UNCHANGED <<kind, disposed, share, subscribers, valued, snapshot, storeVars, informed>>

Connected == At("connected") /\ Announce(Top.on, ~generations[Top.on].ended)

\* #connect returns its teardown, which runs at once when everybody has left.
Attaching ==
  LET changed == [generations[Top.on] EXCEPT !.attached = TRUE] IN
  /\ At("attaching")
  /\ IF generations[Top.on].stopped
     THEN Teardown(Top.on, changed, Rest)
     ELSE /\ generations' = [generations EXCEPT ![Top.on] = changed]
          /\ stack' = Rest
          /\ UNCHANGED <<snapshot, informed>>
  /\ UNCHANGED <<kind, disposed, share, subscribers, valued, storeVars>>

-----------------------------------------------------------------------------
\* Main answers, sends a batch or a terminal (#dispatch); only one batch waits for
\* its acknowledge.  Messages for a generation that is not in the map are dropped.
Deliver(g) ==
  LET received == [generations[g] EXCEPT !.last = @ + 1] IN
  /\ MayCall("deliver")
  /\ ~disposed
  /\ generations[g].mapped /\ generations[g].main = "subscribed"
  /\ \/ /\ ~generations[g].active
        /\ generations' = [generations EXCEPT ![g] = [received EXCEPT !.active = TRUE]]
        /\ UNCHANGED stack
     \/ /\ generations[g].active /\ generations[g].owed = 0
        /\ generations[g].last < MaxBatches
        /\ generations' = [generations EXCEPT ![g] = [received EXCEPT !.owed = 1]]
        /\ stack' = Append(stack, Frame("batch", g, "none", [n \in 1 .. BatchSize |-> n]))
     \/ /\ generations[g].active /\ MayEnd
        /\ generations' = [generations EXCEPT
             ![g] = [received EXCEPT !.mapped = FALSE, !.main = "gone"]]
        /\ stack' = Terminating(g, "ended", stack)
  /\ UNCHANGED <<kind, disposed, share, subscribers, valued, snapshot, storeVars, informed>>

\* The next value of a batch: the snapshot, then the subscribers the subject has now.
NextValue(g, below) ==
  IF generations[g].ended
  THEN stack' = below /\ UNCHANGED <<valued, snapshot, informed>>
  ELSE /\ IF kind = "state" THEN Show("current", g) ELSE UNCHANGED <<snapshot, informed>>
       /\ IF generations[g].stopped
          THEN stack' = below /\ UNCHANGED valued
          ELSE /\ valued' = valued \cup {generations[g].subject}
               /\ stack' = Append(below, Frame("fanOut", g, "next",
                    SetToSortSeq(Taking(generations[g].subject), <)))

\* Mutant: a batch whose subscribers left on the way is not acknowledged.
BatchUnacknowledged ==
  LET g == Top.on IN
  /\ At("batch")
  /\ IF generations[g].mapped /\ Top.rest # <<>>
     THEN /\ NextValue(g, Append(Rest, [Top EXCEPT !.rest = Tail(@)]))
          /\ UNCHANGED generations
     ELSE /\ IF disposed \/ ~generations[g].mapped
             THEN stack' = Rest /\ UNCHANGED generations
             ELSE /\ generations' = [generations EXCEPT ![g].owed = @ - 1]
                  /\ stack' = Append(Rest, Call("acking", g))
          /\ UNCHANGED <<valued, snapshot, informed>>
  /\ UNCHANGED <<kind, disposed, share, subscribers, storeVars>>

\* #dispatch of a batch: value by value while the generation is in the map; then it
\* is acknowledged, unless the API was disposed meanwhile.
Batch ==
  LET g == Top.on IN
  /\ At("batch")
  /\ IF generations[g].mapped /\ Top.rest # <<>>
     THEN /\ NextValue(g, Append(Rest, [Top EXCEPT !.rest = Tail(@)]))
          /\ UNCHANGED generations
     ELSE /\ IF disposed
             THEN stack' = Rest /\ UNCHANGED generations
             ELSE /\ generations' = [generations EXCEPT ![g].owed = @ - 1]
                  /\ stack' = Append(Rest, Call("acking", g))
          /\ UNCHANGED <<valued, snapshot, informed>>
  /\ UNCHANGED <<kind, disposed, share, subscribers, storeVars>>

\* The terminal of a generation: it ends, the share is reset, then its subscribers
\* are told.
Terminal(g, below) ==
  IF generations[g].ended
  THEN stack' = below /\ UNCHANGED <<generations, share, snapshot, informed>>
  ELSE /\ MarkInactive(g)
       /\ generations' = [generations EXCEPT ![g].ended = TRUE, ![g].stopped = TRUE]
       /\ IF generations[g].stopped
          THEN stack' = below /\ UNCHANGED share
          ELSE /\ share' = NoShare
               /\ stack' = Append(below, Frame("fanOut", g, "terminal",
                    SetToSortSeq(Taking(generations[g].subject), <)))

\* #terminate after the sink: unsubscribe is sent for the causes Main does not know
\* of, and the handler called unless the subscribers left by themselves.
Ending ==
  LET g == Top.on IN
  /\ At("ending")
  /\ IF Top.what \in {"unsubscribed", "disposed"}
     THEN /\ generations' = [generations EXCEPT ![g].main = "gone"]
          /\ stack' = Rest
               \o (IF Top.what = "disposed" THEN <<Frame("ending", g, "ended", <<>>)>> ELSE <<>>)
               \o <<Call("unsubscribing", g)>>
          /\ UNCHANGED <<share, snapshot, informed>>
     ELSE Terminal(g, Rest)
  /\ UNCHANGED <<kind, disposed, subscribers, valued, storeVars>>

\* The next subscriber of a fan-out that is still subscribed; after a terminal it is
\* unsubscribed.
FanOut ==
  LET left == SelectSeq(Top.rest, LAMBDA i : subscribers[i].status = "live")
      i == Head(left)
      going == Append(Rest, [Top EXCEPT !.rest = Tail(left)])
  IN
  /\ At("fanOut")
  /\ \/ /\ left = <<>>
        /\ stack' = Rest
        /\ UNCHANGED subscribers
     \/ /\ left # <<>> /\ Top.what = "next"
        /\ stack' = Append(going, Notification(subscribers[i].owner, i, "next"))
        /\ UNCHANGED subscribers
     \/ /\ left # <<>> /\ Top.what = "terminal"
        /\ subscribers' = [subscribers EXCEPT ![i].status = "stopped"]
        /\ stack' = going \o <<Call("finalizing", i),
                               Notification(subscribers[i].owner, i, "terminal")>>
  /\ UNCHANGED <<kind, disposed, generations, share, valued, snapshot, storeVars, informed>>

Finalizing ==
  /\ At("finalizing")
  /\ Leave(Top.on, Rest)
  /\ UNCHANGED <<kind, disposed, valued, storeVars>>

\* An outside call after which nothing is left to do returns.
Returned ==
  /\ \E point \in {"closed", "unsubscribing", "settling", "handler", "onChange", "acking"} :
       At(point)
  /\ stack' = Rest
  /\ UNCHANGED <<kind, disposed, generations, share, subscribers, valued, snapshot,
                 storeVars, informed>>

-----------------------------------------------------------------------------
\* snapshotStore: join().
Join(handle, below) ==
  LET i == IF disposed THEN None ELSE Len(subscribers) + 1 IN
  /\ store' = [store EXCEPT !.open = TRUE, !.joins = @ + 1, !.handle = handle]
  /\ Subscribe("store", Append(below, Frame("joined", i, "none", <<store.joins + 1>>)))

\* Mutant: a subscription that was overtaken, or is not wanted any more, is kept.
JoinedAlways ==
  /\ At("joined")
  /\ store' = [store EXCEPT !.upstream = Top.on]
  /\ stack' = Rest
  /\ UNCHANGED <<kind, disposed, generations, share, subscribers, valued, snapshot,
                 listeners, informed>>

\* state.subscribe() has returned to join(): the subscription is dropped when another
\* join came in between, or the last listener left.
Joined ==
  /\ At("joined")
  /\ IF Head(Top.rest) # store.joins \/ listeners = {}
     THEN Leave(Top.on, Rest) /\ UNCHANGED store
     ELSE /\ store' = [store EXCEPT !.upstream = Top.on]
          /\ stack' = Rest
          /\ UNCHANGED <<generations, share, subscribers, snapshot, informed>>
  /\ UNCHANGED <<kind, disposed, valued, listeners>>

\* finish(): an active generation, opened by a subscriber told before the store, is
\* joined; then the listeners are told.
Finish ==
  LET below == Append(Rest, Call("notify", None)) IN
  /\ At("finish")
  /\ IF store.handle /\ snapshot.active
     THEN Join(TRUE, below)
     ELSE /\ store' = [store EXCEPT !.open = FALSE]
          /\ stack' = below
          /\ UNCHANGED <<share, subscribers>>
  /\ UNCHANGED <<kind, disposed, generations, valued, snapshot, listeners, informed>>

\* handleOpened(): a generation somebody opened is joined, then the listeners told.
GenerationOpened ==
  LET below == Append(Rest, Call("notify", None)) IN
  /\ At("generationOpened")
  /\ IF store.open
     THEN stack' = below /\ UNCHANGED <<store, share, subscribers>>
     ELSE Join(store.handle, below)
  /\ UNCHANGED <<kind, disposed, generations, valued, snapshot, listeners, informed>>

\* notify(): the listeners there are now, as long as they stay.
Notify ==
  /\ At("notify")
  /\ stack' = Append(Rest, Frame("notifying", None, "none", SetToSortSeq(listeners, <)))
  /\ UNCHANGED <<kind, disposed, generations, share, subscribers, valued, snapshot,
                 storeVars, informed>>

Notifying ==
  LET left == SelectSeq(Top.rest, LAMBDA k : k \in listeners) IN
  /\ At("notifying")
  /\ IF left = <<>>
     THEN stack' = Rest /\ UNCHANGED informed
     ELSE /\ informed' = informed \cup {Head(left)}
          /\ stack' = Append(Append(Rest, [Top EXCEPT !.rest = Tail(left)]),
                             Call("onChange", Head(left)))
  /\ UNCHANGED <<kind, disposed, generations, share, subscribers, valued, snapshot, storeVars>>

\* A listener comes; it reads the snapshot now.  The first registers for opened
\* generations, and joins.
Listen(k) ==
  /\ MayEnter("listen")
  /\ kind = "state" /\ k \notin listeners
  /\ listeners' = listeners \cup {k}
  /\ informed' = informed \cup {k}
  /\ LET handle == store.handle \/ listeners = {} IN
     IF store.open
     THEN /\ store' = [store EXCEPT !.handle = handle]
          /\ UNCHANGED <<share, subscribers, stack>>
     ELSE Join(handle, stack)
  /\ UNCHANGED <<kind, disposed, generations, valued, snapshot>>

\* A listener leaves; the last one gives up the subscription of the store.
Unlisten(k) ==
  /\ MayCall("unlisten")
  /\ k \in listeners
  /\ listeners' = listeners \ {k}
  /\ IF listeners = {k}
     THEN /\ store' = [store EXCEPT !.open = FALSE]
          /\ Leave(store.upstream, Append(stack, Call("released", None)))
     ELSE UNCHANGED <<store, generations, share, subscribers, snapshot, informed, stack>>
  /\ UNCHANGED <<kind, disposed, valued>>

Released ==
  /\ At("released")
  /\ store' = [store EXCEPT !.upstream = None, !.handle = FALSE]
  /\ stack' = Rest
  /\ UNCHANGED <<kind, disposed, generations, share, subscribers, valued, snapshot,
                 listeners, informed>>

-----------------------------------------------------------------------------
\* A user subscribes.  On a disposed API that fails and changes nothing.
SubscribeUser ==
  /\ MayEnter("subscribe")
  /\ ~disposed
  /\ Subscribe("user", stack)
  /\ UNCHANGED <<kind, disposed, generations, valued, snapshot, storeVars, informed>>

LeaveUser(i) ==
  /\ MayLeave(i)
  /\ subscribers[i].owner = "user" /\ i \in Counted
  /\ Leave(i, stack)
  /\ UNCHANGED <<kind, disposed, valued, storeVars>>

\* ApiLifetime.dispose: the flag, the RPCs, then the streams.
Dispose ==
  /\ MayCall("dispose") /\ MayEnd
  /\ ~disposed
  /\ disposed' = TRUE
  /\ stack' = stack \o <<Call("closeAll", None), Call("settling", None)>>
  /\ UNCHANGED <<kind, generations, share, subscribers, valued, snapshot, storeVars, informed>>

\* closeAll: the generations that are in the map now, unless they leave it meanwhile.
CloseAll ==
  /\ At("closeAll")
  /\ stack' = Append(Rest, Frame("sweeping", None, "none",
       SetToSortSeq({g \in DOMAIN generations : generations[g].mapped}, <)))
  /\ UNCHANGED <<kind, disposed, generations, share, subscribers, valued, snapshot,
                 storeVars, informed>>

Sweeping ==
  LET left == SelectSeq(Top.rest, LAMBDA g : generations[g].mapped) IN
  /\ At("sweeping")
  /\ IF left = <<>>
     THEN stack' = Rest /\ UNCHANGED generations
     ELSE /\ generations' = [generations EXCEPT ![Head(left)].mapped = FALSE]
          /\ stack' = Terminating(Head(left), "disposed",
                         Append(Rest, [Top EXCEPT !.rest = Tail(left)]))
  /\ UNCHANGED <<kind, disposed, share, subscribers, valued, snapshot, storeVars, informed>>

-----------------------------------------------------------------------------
Return ==
  \/ Sharing \/ Opened \/ Subscribing \/ Connected \/ Attaching
  \/ Batch \/ Ending \/ FanOut \/ Finalizing \/ Returned
  \/ Joined \/ Finish \/ GenerationOpened \/ Notify \/ Notifying \/ Released
  \/ CloseAll \/ Sweeping

Next ==
  \/ Return
  \/ SubscribeUser
  \/ \E i \in DOMAIN subscribers : LeaveUser(i)
  \/ \E g \in DOMAIN generations : Deliver(g)
  \/ \E k \in Listeners : Listen(k) \/ Unlisten(k)
  \/ Dispose

Spec == Init /\ [][Next]_vars

-----------------------------------------------------------------------------
Mapped == {g \in DOMAIN generations : generations[g].mapped}
Live == {i \in DOMAIN subscribers : subscribers[i].status = "live"}
StoreSubscribers == {i \in Live : subscribers[i].owner = "store"}

TypeOK ==
  /\ kind \in AllKinds /\ disposed \in BOOLEAN
  /\ \A g \in DOMAIN generations :
       /\ generations[g].last \in -1 .. MaxBatches + 1
       /\ generations[g].owed \in {0, 1}
       /\ generations[g].main \in {"unaware", "subscribed", "gone"}
       /\ generations[g].subject \in DOMAIN subscribers
  /\ share.connection \in {None} \cup DOMAIN generations
  /\ share.subject \in {None} \cup DOMAIN subscribers
  /\ \A i \in DOMAIN subscribers : subscribers[i].status \in {"live", "stopped", "gone"}
  /\ valued \subseteq DOMAIN subscribers
  /\ snapshot.status \in {"uninitialized", "connecting", "current", "stale"}
  /\ store.upstream \in {None} \cup DOMAIN subscribers
  /\ listeners \subseteq Listeners /\ informed \subseteq Listeners
  /\ \A i \in DOMAIN stack : stack[i].rest \in Seq(Nat)

\* docs/design/07-renderer-streams.md, invariant 1: a key has one active generation.
OneActive == Cardinality(Mapped) <= 1

\* When nothing is going on there is a generation if and only if there are local
\* subscribers, and they are all subscribers of it; Main has a subscription for it
\* and for no other; and after dispose() there is none.
OneGeneration ==
  Idle =>
    /\ Mapped = {share.connection} \ {None}
    /\ (share.connection = None) = (Live = {})
    /\ \A i \in Live : subscribers[i].subject = generations[share.connection].subject
    /\ \A g \in DOMAIN generations : (generations[g].main = "subscribed") = (g \in Mapped)
    /\ disposed => Mapped = {}

\* Main is never left waiting: a batch that was accepted is acknowledged once, also
\* when its values made the subscribers leave; only dispose() saves that.
BatchesAcknowledged ==
  Idle /\ ~disposed => \A g \in DOMAIN generations : generations[g].owed = 0

\* When nothing is going on the snapshot is of the generation there is, and active
\* if and only if there is one.
SnapshotAgrees ==
  Idle /\ kind = "state" =>
    /\ snapshot.active = (share.connection # None)
    /\ snapshot.active => /\ snapshot.of = share.connection
                          /\ (snapshot.status = "current") = (share.subject \in valued)

\* While it has listeners the store is subscribed to whatever generation there is,
\* once; without listeners it holds no subscription.  Every listener was called since
\* the snapshot changed, except when its generation ended before it was announced.
StoreFollows ==
  Idle =>
    /\ Cardinality(StoreSubscribers) <= 1
    /\ listeners = {} => StoreSubscribers = {} /\ ~store.handle /\ ~store.open
    /\ listeners # {} =>
         /\ store.handle
         /\ share.connection # None => StoreSubscribers = {store.upstream} /\ store.open
    /\ \/ listeners \subseteq informed
       \/ snapshot.of # None /\ ~generations[snapshot.of].announced

\* The multiplexer, the share and Main agree on the generation there is.
GenerationsAgree == TypeOK /\ OneActive /\ OneGeneration

\* The snapshot and the store agree with that generation, and with each other.
StoreAgrees == SnapshotAgrees /\ StoreFollows
=============================================================================
