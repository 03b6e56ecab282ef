# A TLA+ development of rx-bridge-electron

rx-bridge-electron carries RxJS State, Events and RPC calls from an Electron Main
process to its Renderers.  This directory holds TLA+ models of the library
(`packages/rx-bridge-electron/src`), the TLC configurations that check them on
small instances, and theorems about them that the TLA+ proof system checks for
every value of the constants.

Below, `main/x.ts` stands for `packages/rx-bridge-electron/src/main/x.ts`, and
`docs/...` for a document of the repository.  `PROJECT.json` says for every
definition which lines it models, and lists the hazards, findings and theorems.

## 1. The system

A Renderer document talks to Main through a preload script.  Main keeps one
*document session* per attached webContents; every subscription and every RPC
call belongs to a session and ends with it.

```
 Renderer document                      Main
 -----------------                      ----
 create-renderer-api                    create-bridge-server
   rpc-client ---------- invoke ------->  rpc-requests ---- handler
   stream-multiplexer -- control ------>  subscriptions --- upstreams --- RxJS source
     snapshot-store <--- messages ------    delivery-window (one per consumer)
   local-generation                           bounded-queue (its Event buffer)
          \                               document-sessions (slots: session-slots)
           preload / electron-adapter ------/
```

### Components, their state and what makes them correct

| Component | State | Operations | Must hold |
|---|---|---|---|
| Bounded queue `main/bounded-queue.ts` | ring, head, length | push, shift | a bounded FIFO in each overflow policy; no reference is kept to a value given away |
| Delivery window `main/delivery-window.ts` | buffer, sequence, batch in flight, recorded terminal, concluded, closed | open, accept, ack, end, preempt, close | one unacknowledged batch; gapless numbers; order; terminal last; nothing lost; every value and terminal gets out |
| Subscriptions `main/subscriptions.ts`, `main/session-slots.ts` | pending and consumer maps per session, live sessions, watermark, slot leases, retire listeners | subscribe, ack, unsubscribe, next/end of a source, retire, dispose | slots match entries; a Renderer hears subscribed once and at most one terminal; sources are connected exactly for live consumers; a retired session keeps nothing; whoever should be told is told |
| RPC requests `main/rpc-requests.ts`, `main/authorization.ts` | active calls by request id, slot leases, deadline timers, abort controllers | dispatch, cancel, deadline, retire | concurrency limit; every call is reachable by cancel and retirement; one cause; answers agree with it; every call is answered |
| Document sessions `main/document-sessions.ts` | attachments, current session, retired clientIds per webContents | attach, detach, establish, lifecycle events, dispose | no session outlives its attachment; a retired clientId does not come back; a document does not inherit the session of another |
| Bridge server `main/create-bridge-server.ts` | disposed | handshake, dispatchRpc, cancel, controlStream, dispose | a request reaches the session of its document or is refused, and is answered once |
| Upstreams `main/upstreams.ts` | shared connections by key, tokens and their connections | connect, disconnect, fan-out | one upstream per key while somebody listens; nobody is stranded on an upstream that has ended; nothing runs for nobody; a State consumer is up to date; teardown exceptions stay inside |
| Electron adapter `main/electron-adapter.ts`, `preload/expose-bridge.ts` | IPC receivers per channel, bindings with their attached map, disposed bindings to take over | bind, attach, detach, dispose, the four channels | a namespace has one receiver; a disposed binding answers until it is taken over; work in progress can always be ended |
| Stream multiplexer `renderer/stream-multiplexer.ts` | open generations with the last sequence heard | open, close, closeAll, dispatch | stale messages are discarded; each batch is acknowledged; it and Main agree on what is subscribed |
| RPC client `renderer/rpc-client.ts`, `renderer/api-lifetime.ts` | pending calls, timers, listeners on signals | call, response, abort, timeout, dispose | a call settles once, by the first cause; Main is told to cancel exactly when the Renderer gave up; nothing is left behind |
| Local generation, snapshot store `renderer/local-generation.ts`, `renderer/snapshot-store.ts` | rxjs `share` (connection, count), snapshot, joined store, listeners | subscribe, leave, listen, unlisten | one remote subscription for any number of local ones; snapshot and store follow the generation there is |
| Registration `main/registration.ts`, `protocol/operation-key.ts`, manifest check of `renderer/create-renderer-api.ts` | trie of paths, table, manifest, tree of the API | register, check options, connect | exactly the well-formed implementations are served; the Renderer accepts what Main serves; the API is a tree |
| Values `protocol/bridge-value.ts` | stack of frames, ancestors, counts | parse | exactly the finite, legal values within the limits pass |
| Rest of Renderer API and protocol, boundaries and limits, loopback transport, contract types, demo | (mostly none) | parsing, checking, wiring | single messages are parsed and refused correctly |

### What is hard about this code

Main is single-threaded, so there are no data races.  What replaces them is
**re-entrancy**: the code calls the diagnostics sink, `authorize`, handlers, RxJS
sources and their teardowns, schemas, abort listeners and `send` synchronously,
and each of them may call the bridge again before it returns.  A half-done step
(a value taken but not yet in flight; a session no longer current but not yet
retired; a slot taken but no listener registered) can then be seen by
`server.dispose()`, by another subscribe or by the end of the source.  Then come
**awaits** (`authorize`, handlers), after which the session may be gone, **timers**
that race answers, and **bounded** buffers, slots and records.

The Renderer has the same problem with other callers: subscribers, store listeners,
the diagnostics sink, abort signals and the transport run inside the bridge's steps.
Between Renderer and Main the difficulty is **order and loss**: a channel keeps its
order, but two channels do not keep it between them, a document may be gone or its
session retired when a message arrives, and a namespace may belong to another server.

The models make every such outside call visible.  The variable `stack` holds the
calls in progress, the innermost last; a frame says at which outside call its
routine waits and what it needs to go on.  `Return` lets the innermost go on; a new
call starts from an empty stack (the event loop) or, if it is one of the calls the
run allows, on top of an outside call.  Code between two outside calls is one
step, which is what a single-threaded runtime guarantees.

## 2. The modules

| Module | Models | Rests on |
|---|---|---|
| `OverflowPolicies` | `push()` as a function of the contents | |
| `BoundedFifo` | abstract specification of the pending buffer | `OverflowPolicies` |
| `BoundedQueue` | `main/bounded-queue.ts`, the ring itself | `OverflowPolicies`; implements `BoundedFifo` |
| `AckedStream` | abstract specification: what a Renderer may rely on | |
| `DeliveryWindow` | `main/delivery-window.ts` | `OverflowPolicies`; implements `AckedStream` |
| `SequenceLemmas` | lemmas about sequences as stacks, queues and sets, which the proofs share | |
| `DeliveryWindow_proofs` | theorems about `DeliveryWindow` and `BoundedQueue` | `SequenceLemmas` |
| `Subscriptions` | `main/subscriptions.ts` with `main/session-slots.ts` | |
| `Subscriptions_proofs` | theorems about `Subscriptions` | `SequenceLemmas` |
| `RpcRequests` | `main/rpc-requests.ts` with `main/authorization.ts` and the slots | |
| `RpcRequests_proofs` | theorems about `RpcRequests` | `SequenceLemmas` |
| `DocumentSessions` | `main/document-sessions.ts` | |
| `DocumentSessions_proofs` | theorems about `DocumentSessions` | `SequenceLemmas` |
| `Upstreams` | `main/upstreams.ts` | |
| `Upstreams_proofs` | theorems about `Upstreams` | `SequenceLemmas` |
| `RpcClient` | `renderer/rpc-client.ts`, `renderer/api-lifetime.ts` | |
| `RendererStreams` | `renderer/local-generation.ts`, `renderer/stream-multiplexer.ts`, `renderer/snapshot-store.ts`, `renderer/api-lifetime.ts` | |
| `StreamSession` | the streams of a document end to end: multiplexer, channels, Main's subscriptions | composes what `RendererStreams`, `Subscriptions`, `DeliveryWindow` detail |
| `Renderer_proofs` | theorems about `StreamSession` and `RpcClient`, one after the other | `SequenceLemmas` |
| `ElectronBridge` | `main/electron-adapter.ts` with `main/create-bridge-server.ts`, `preload/expose-bridge.ts` | composes bindings, servers, sessions and documents |
| `ElectronBridge_proofs` | theorems about `ElectronBridge` | `SequenceLemmas` |
| `MCDelivery` | the ring and the window together for TLC | `BoundedQueue`, `DeliveryWindow` |
| `MCElectronBridge` | its symmetry for TLC | `ElectronBridge` |
| `Registration` | `main/registration.ts`, `protocol/operation-key.ts`, the manifest in `renderer/create-renderer-api.ts` | |
| `BridgeValues` | `protocol/bridge-value.ts` | |
| `MCProtocol` | the two together for TLC | `Registration`, `BridgeValues` |

The Event buffer of `DeliveryWindow` is the sequence of `OverflowPolicies`;
`RingImplementsFifo` proves that the ring behaves like it, so the two compose.
Specifications have CONSTANTS only for sizes and options, so the configurations
instantiate them directly, but for the three MC modules.

### BoundedQueue

`items`, `head`, `length` and `overflowPolicy` are the private fields of the class.
`PushStored`, `PushFull`, `ShiftEmpty`, `ShiftOldest` are the branches of `push`
and `shift`.  `Contents` reads the ring from `head` on, and is the refinement
mapping to `BoundedFifo`.

### DeliveryWindow

`kind`, `overflow`, `buffer`, `sequence`, `inFlight`, `pendingTerminal`,
`concluded`, `closed` are the fields of the closure.  Values are numbered in the
order the source emits them.  The window calls the sink in three places, each a
kind of frame: `dropped` (`onDropped` in `accept`), `pushed` (`onQueueDepth` in
`accept`) and `shifted` (`onQueueDepth` in `flush`, with the value taken from the
buffer).  `Flush` is `flush()`; `HandOutBatch` its last lines; `Ended` the check
made after each callback.  `out` and `acked` are what the Renderer is sent and
what it acknowledged.

### Subscriptions

`place` says in which map an entry is (`pending`, waiting for `authorize`, or
`consumer`), `lease` is its slot, `listeners` the retire listeners of a session in
the order of registration, `verdict` how far the `authorize` promise is, `window`
the part of the delivery window that decides about the life of a subscription
(one batch in flight, something queued, the recorded terminal), `upstream` the
subscriptions connected to a source.  Actions that start a call: `Subscribe`,
`Unsubscribe`, `Ack` (the `control` channel), `Emit` and `End` (the source),
`Settle` and `Decide` (`authorize` settles; the awaiter goes on in a later
microtask), `Retire`, `Dispose`.  All others are continuations: `Opened`,
`Greeted`, `Connected`, `Sent`, `Detached`, `Closing`, `Aborting` are the points
of `#start`, `#terminate`, `#send` and `#close` after each outside call, `Dispatch`
runs the retire listeners one after the other, `Sweep` is `Subscriptions.dispose()`.

`hasAuthorize` is chosen once, so one run covers servers with and without an
`authorize` function.  A send may throw, a source may throw on subscribe, a value may
fail its schema, an id may not parse and a key may be unknown: each is a disjunct of
its step.

### RpcRequests

`active` is the map by request id, `work` how far the asynchronous function of a
call is, `aborted` the state of its AbortController, `timer` the deadline.
`Dispatch`, `Begin`, `Start` and `Arm` are `dispatch()` between its outside
calls; `Settle`, `HandlerSettles` and `Resume` are the promises and the microtask
that follows; `Deadline`, `Cancel`, `Retire` abort.  `hasAuthorize` and `hasDeadline`
are the options of the server, chosen once.  `EndWork` is the `finally`
of the work; `FinishOwn` is the cleanup that must not remove the entry of a younger
call with the same id.

### DocumentSessions

Attachments are numbered in the order they are made, `homes` gives their
webContents; `attached` is the map, `watching` the lifecycle listeners that are
registered.  Documents of a webContents are numbered in the order they are
committed and `frame` is the one in its main frame, which `#admit` compares with
the sender.  A clientId is made by the preload of one document, hence a pair.
`Closing` and `Notified` are the two halves of `#retire`, around the sink and the
retire listeners.

### Upstreams

One key.  A consumer is a token of the code, numbered in the order it connects,
which is the order of a share's member map; `connection` is the token record,
`shared` the entry of the key in the map, and the members of an upstream are the
consumers whose record names it.  `upstreams` are the rxjs Subscribers that were
made: `stopped` takes no notification any more, `closed` has run (or will run at
once) the teardown of its `producer`.

`Connect`, `Open` and `Join` are `connect()`; `Factory`, `GetValue`, `Subscribed` and
their failing counterparts go on after user code; `Disconnect` is `disconnect()`
with `#release`.  `Emit` and `End` start a fan-out over a snapshot of the members,
`DeliverValue` and `DeliverTerminal` call the next member that is still connected (the
frame keeps those not yet called as a set, and `NextLeft` is the order of the map), and
`FannedOut` lets the Subscriber unsubscribe itself after a terminal.  A frame also says
which value it `hands` out, for `Emit` may come inside a fan-out of the same source, as the
code has no guard against it: the newer value then goes to everybody first, and the rest of
the outer snapshot gets the older one after it.  `nested` is a history variable: whether
the current value was emitted in this way.  `Close` and
`Closed` are the part of `Subscriptions.#close` that matters here: the window closes
first, user code runs, the consumer is disconnected last.

### RpcClient

`pending` is the map that `dispose()` walks, `settled` the calls whose settlement has
begun (`settled = true` in `beginSettlement`), `sent` those handed to
`transport.invoke`, `timer`, `listening` and `waiting` the timer, the abort listener
and the promise of the transport.  `Settle` is `cancelOnce`: it claims the
settlement before it tells the sink and the transport.  `Call`, `Respond`, `Deadline`,
`Abort`, `DisposeApi` start a race, `Invoked`, `Recorded`, `Cancelled` and
`SweepOn` go on after transport and sink; `Finally` is the microtask that
clears timer, listener and entry.  Names that `StreamSession` has too are told apart
(`ClientSpec`, `apiDisposed`), as one module holds the proofs of both.

### RendererStreams

`generations` are the remote subscriptions of a key, with their place in the
multiplexer's map, the last sequence heard, the acks owed and what Main knows.  `share`
is the state of rxjs `share`: its connection and the subject of it; `subscribers` are
the local subscribers in order, those of the store too; `snapshot` is the State's,
`store` and `listeners` the snapshot store's.  `Subscribe`, `Sharing`, `Opened`,
`Subscribing`, `Connected`, `Attaching` follow one subscribe through share,
generation, multiplexer, sink and transport; `Leave`, `Disconnect`, `Teardown` are the
way back; `Batch`, `NextValue`, `FanOut`, `Terminal`, `Ending`, `Finalizing` are
`dispatch` with its fan-out; `Join`, `Joined`, `Finish`, `GenerationOpened`,
`Notify`, `Released` are the store.

### StreamSession

One document, its multiplexer (`generations`, `opening`, `handling`), the two channels
(`control`, `stream`) and Main's side (`watermark`, `consumers`).  Both ends are
reduced to what the other one sees: a Renderer has one generation per key, Main one
batch in flight, at most one value waiting and perhaps a terminal behind it.  `Open`
and `Opened` are `open()` before and after the sink, `Receive` and `Handled` are
`dispatch`, `Arrive` is `controlStream`, `Retire` the end of the session while the
document lives, after which its subscriptions are told one by one (`Tell`) before Main
takes another command (`Retiring`).  The order of the telling is left open; in the code
it is the order of registration.  Authorize, refusals, a full session and a late command are choices
or branches of `Subscribe`.

### ElectronBridge

`receivers` are the listeners `ipcMain` has per channel, `bindings` the results of
`bindElectronBridge` with their `attached` map (`Nothing` in it is the empty detach function
the server gives an `attach()` that was overtaken), `takeovers` the entry in
`disposedBindings`, `entries` the attachments inside the servers, `requests` what the
documents sent and how often each was answered.  `Bind`, `Attach` (with `ServerAttach` and
`Enter` after those who hear of a retirement), `Detach` and `DetachEmpty` (the function that
an `attach()` returned, of an attachment or of a call that was overtaken), `Dispose`
(`Disposing`, `Releasing`), `ServerDispose` are the calls of the application, `Navigate` and
`Destroy` those of the window, `Send`, `Deliver`, `Finish` the way of a request.
`overwritten`, a history field of a binding, has the attachments whose entry in the map an
overtaken `attach()` wrote over.

### Registration and BridgeValues

`Register` visits one leaf of the implementation, in any order within what the walk
allows; `CheckOptions` is `assertNoExtraOptionPaths`, `Connect` the handshake,
`Accepted` the check of a manifest entry in the Renderer.  A name is one of a few kinds
(plain, empty, dotted, with a slash, reserved, inherited from `Object.prototype`), as
nothing else of it matters.  A manifest that Main did not make may hold any entries.

`BridgeValues` walks a graph of objects as the code does, with frames to enter and to
exit, and compares the verdict with what the tree says that the graph unfolds to.

## 3. The runs

| Run | Distinct states | Shows |
|---|---|---|
| `Delivery` | 24,158 | the ring implements the FIFO and retains nothing; State and Event windows implement `AckedStream`, lose nothing and get everything out, with a sink that acknowledges, preempts or closes |
| `Subscriptions` | 2,406,441 | the life of two subscriptions of a session, with and without `authorize`, with every call of the API made from inside every outside call |
| `RpcRequests` | 482,613 | three calls, two ids, with and without `authorize` and a deadline, with dispatches, cancels and retirements from inside every outside call; everyone is answered |
| `DocumentSessions` | 340,836 | one webContents through attach, detach, navigation, crash and destruction, with calls back from the sink and the retire listeners |
| `Upstreams` | 1,455,487 | three consumers of a State, a broadcast and a scoped Event, with sources, sinks and closing consumers that call back and make the source emit |
| `RpcClient` | 481,942 | three calls that share a signal; responses, transport, timeout, abort and disposal race; a call that was given up ends |
| `RendererStreams` | 2,058,898 | the subscribers and the store of a key with its listener, with every call and every message inside every outside call |
| `ElectronBridge` | 2,064,564 | two namespaces, two servers, a window with two documents: bindings replaced under requests that are on their way or at work, an `attach()` overtaken by another and its function called |
| `Protocol` | 1,664,451 | every implementation of up to two operations over eight kinds of names, foreign manifests, and every value of up to three objects |
| `StreamSession` | 904,278 | two streams from both ends over the two channels, with retirement, disposal and a sink that closes |

`StreamSessionReentered` and `UpstreamsReentered` end in the counterexamples of section 6.

### Bounds, and why they are enough

- `Capacity` is 3, with 9 values for the ring, so that both indices wrap twice and more,
  and 7 for the window, which fills, drops, drains and fills again.
- `MaxDepth` bounds re-entrancy.  In `Subscriptions`, `RpcRequests`, `Upstreams`,
  `RpcClient` and `RendererStreams` a call is made back only while fewer than
  `MaxDepth` outside calls are nested, so 2 gives a call from inside an outside call
  and one from inside that.  In `DeliveryWindow`, `DocumentSessions` and
  `ElectronBridge` it bounds all frames: the window has two per call at most, so 3
  allows a call inside a call inside a call; `attach`, retirement and notification of
  `DocumentSessions` take three, so 6 allows a call that retires a session from inside
  the retirement of another; `dispose` of `ElectronBridge` takes two, so 3 allows a
  call from inside it that is itself called back.  `RpcRequests` with `MaxDepth = 3` was
  checked by hand (779,116 states).
- Two subscriptions of one session are the least that make a slot limit, the order of
  listeners and the pruning of the maps matter.  Two sessions of one subscription each,
  with all seven calls, were checked by hand (9.97 million states).
  `MaxMessages` stops sources, not the terminals: a batch in flight, one queued
  and the terminal behind both fit.
- A subscribe command may come again (`Subscribe`), but only at or under the
  watermark: a repeated command above it was refused before anything was
  recorded, and a second one does what the first did.
- Three calls with two ids give a duplicate and a third party; the slot limit
  of 2 makes the third be refused.
- `MaxRetired` is the documented limit of the record of retired clientIds, with
  as many clientIds per document.  If one document used more, the oldest would be
  forgotten and could come back, which the code accepts (`docs/design/
  09-resource-limits.md`); `NoRevival` says what holds within it.
- `DocumentSessions` has one webContents, as the two maps of the module are indexed
  by it and nothing but `dispose()` walks them.  Two (`Contents = {1, 2}`, one
  document of two clientIds each, three sessions, `MaxDepth = 4`) were checked by
  hand: 3.2 million states, every invariant holds.
- `MaxAttachments`, `MaxSessions` count what happens in a behaviour; replacing,
  re-attaching and replacing again fit.
- Three consumers in `Upstreams` let a fan-out have one member before, at and behind
  the one that calls back; three values are an older one, one emitted while the older one
  is handed out, and one after both, which everybody must have in the end.
- Three calls of `RpcClient` with one signal: an abort has one to settle, one that is
  being sent and one that is made meanwhile.
- Three subscribers of one key and one store listener in `RendererStreams` allow two
  generations, the second opened from inside the end of the first, and a listener that leaves
  and comes back while the store joins.  Two listeners, of which one leaves while the other one
  is called, were checked by hand (5.10 million states).  One batch of two values has a value
  before and one after whatever a subscriber does.
- `ElectronBridge`: two bindings and two servers are what a takeover needs, two documents of
  one window a navigation; two requests can be one at work and one on the way, or the
  handshakes of both documents, the second under an attachment that overtook the `attach()`
  which retired the first.  Namespaces are symmetric; windows would be, but there is one.
- `Registration` has every pair of operations with domains of up to two names, which is
  what a collision takes; `BridgeValues` three objects of up to two keys, which is what
  a cycle through a shared object takes, with limits that are exceeded, met and kept.
- `StreamSession` has two keys, two ids and two values, a slot limit of 2: the least in
  which commands of different streams overtake each other's answers and a value waits
  behind a batch in flight.

### The calls the passing runs leave out

A re-entrant call that leads to the finding or an observation of section 6 is not
among the calls of the passing run, which would end there:

| Run | Not called back | Because of |
|---|---|---|
| `Delivery` | `end` and `accept` from the sink | observations 1, 2 |
| `RpcRequests` | a third request with the id of two others (slot limit 2) | observation 3 |
| `DocumentSessions` | `establish` from the sink; `destroyed` from either | observations 4, 5 |
| `Upstreams` | `end` while a consumer closes; `connect` while a terminal is sent | observations 6, 7 |
| `RendererStreams` | the four moments of `Entrances` | observations 13 to 16 |
| `StreamSession` | `open` from the sink | the finding |

Everywhere else the invariants hold with every call the module has.  Four properties are
weaker than what the documents promise, by an exemption that they spell out:
`UpToDate` (a value emitted inside the fan-out of an older one, the second finding),
`EveryoneIsTold` (a detach once the server is disposed, observation 8),
`StoreFollows` (a generation that ended before it was announced, observation 17) and
`WorkIsHeld` (an attachment whose entry an overtaken `attach()` wrote over, observation 12).
`DisposedIsSilent` of `DocumentSessions` is in no run (observation 9).

`CHECK_DEADLOCK` is on for the queue and the window (`Delivery`), and off elsewhere: once every
id is used up, the server is disposed, the source has ended, the value is accepted or
the document is gone, nothing can happen any more.

### Fairness, and why the code justifies it

- `WF(Return)` in `DeliveryWindow`, `RpcRequests` and `RpcClient`, `WF(Opened)` and
  `WF(Handled)` in `StreamSession`: a synchronous outside call returns.  A sink or a
  subscriber that loops for ever would stop its whole process.
- `WF(AckInFlight)` in the window: `dispatch` of the Renderer's multiplexer
  acknowledges every batch after delivering it, which `BatchesAcknowledged`
  and `NeverStalls` show.
- `WF(Resume)` in `RpcRequests`, `WF(Finally(d))` in `RpcClient`: a settled promise
  resumes its awaiter.
- `WF(Deadline)` in both: a timer that is not cleared fires.
- `WF(Receive)`, `WF(Arrive)` in `StreamSession`: a channel delivers what was sent.
- `WF(\E id : Tell(id))` in `StreamSession`: the abort of a session calls all its
  listeners, a loop over a finite list.

Nothing says that `authorize` or a handler settles, that a source emits or ends, that Main answers a
call, or that a user subscribes, leaves or disposes; the liveness properties hold
without.  `Subscriptions`, `DocumentSessions`, `Upstreams`, `RendererStreams`,
`ElectronBridge` and the protocol state safety only.

## 4. What the properties say

Each property is stated and explained above its definition.  A run that asks one
question in several parts checks their conjunction under one name:
`IndicesAndSlots` is `TypeOK` and `NoRetention`; `ValuesKept` is `NothingVanishes` and
`NewestKept`; `SlotsAndMaps` is `TypeOK` and `SlotsMatchEntries`; `SourcesEnd` is
`SourcesFollowConsumers` and `NothingLeftBehind`; `SlotsBound` is `TypeOK` and
`ConcurrencyLimit`; `Cancellation` is `StillReachable`, `RetiredAborts` and `OneCause`;
`AttachmentsConsistent` is `TypeOK`, `NoOrphans` and `ListenersMatch`;
`RetiredStaysRetired` is `NoRevival` and `DestroyedIsForgotten`; `OneUpstream` is
`TypeOK` and `OneShare`; `ConsumersServed` is `Served` and `UpToDate`;
`UpstreamsReleased` is `NothingLeaks` and `TeardownContained`.  The parts keep their own
comments.

Those that take several actors and steps to break:

- `ImplementsAckedStream`: the window, with its callbacks in every order, is an
  acknowledged stream.  `ValuesKept` accounts for every value,
  `EverythingGoesOut` for every opened gate.
- `EveryoneIsTold`: when a document outlives its session, every subscription
  accepted and not given up hears a terminal, whatever the retirement interrupted.
- `SlotsAndMaps`, `SourcesEnd`: refusals, failures, unsubscribes, retirements and
  `dispose()` inside one another give back exactly what was taken.
- `NoSourceForRetired`: no user source is subscribed for a session that has ended.
- `Cancellation`, `CancelledComesFirst`: deadline, cancel, duplicate and retirement race,
  and the record and the answer agree; the cleanup of a replaced call leaves the
  younger one alone.  `SlotsBound` is about handlers that ignore their abort signal.
- `AttachmentsConsistent`, `RetiredStaysRetired`, `OwnDocument`: whatever user code
  calls from inside a retirement, every session is current or retired, once, and no
  document inherits one.
- `OneUpstream`, `ConsumersServed`, `UpstreamsReleased`: consumers that leave, join and
  end inside each other's fan-outs, subscribes and teardowns find one live share and
  leave none.  `UpToDate`, a part of `ConsumersServed`, is about what the sinks of a State
  were given last.  `LastValueReaches` is what the documents promise and is false of the
  code (section 6); `UpToDate` says in exactly which case: when the current value was emitted
  inside the fan-out of an older one.  A value emitted at any other moment, from a sink of
  another upstream, from `getValue`, while a member closes or while nobody listens, reaches
  everybody, and the first such value after a nested one makes good what that one left.
- `SettledOnce`, `EveryCallEnds`: however its causes race in the Renderer, a call has
  one outcome, Main is told to cancel exactly when the Renderer gave it up, and it ends
  even if Main never answers.
- `GenerationsAgree`, `StoreAgrees`: share, multiplexer, Main, snapshot and store agree
  on the one generation there is, after any nesting of subscribers that come and go.
- `BatchesAcknowledged`: no ack goes missing when the values of a batch make everybody
  leave.
- `ChannelsBound`, `AnsweredOnce`, `WorkIsHeld`: one binding answers each request, once,
  through disposals and takeovers, and what works for a document can be ended: by the detach
  function in the map of its binding or, when an overtaken `attach()` wrote over that one, by
  the function its own `attach()` returned and by the server.
- `TableCorrect`, `OwnManifestConnects`, `ApiIsATree`: Main, which works on names, and
  the Renderer, which works on wire keys, refuse the same collisions.
- `ParsesExactly`: the walk decides what the unfolded tree decides, and reports a true
  reason.
- `MessagesArrive`, `InSync`, `NeverStalls`, `EveryoneHears`: the two ends of a document's
  streams never lose each other: what is on its way is in order, and when nothing is,
  both have the same subscriptions; a batch in flight is always on its way to be
  acknowledged; and whoever subscribes is told, or
  waits for `authorize` alone, which Main has no deadline for.

For each property of each passing run `PROJECT.json` names a mutant, a small change
of a definition of the code under which TLC finds the property violated.  The
mutated forms stand in the modules, before the definition they change, under a
comment that starts with "Mutant".

## 5. What is proved

### The ring

`DeliveryWindow_proofs` proves, for every `Capacity` and `MaxPushed`, under
`CapacityAssumption` and `QueueBoundAssumption` only:

- `RingCorrect`: `QueueSpec => []IndicesAndSlots`, both indices in range and values in
  exactly the slots counted from `head`;
- `RingImplementsFifo`: `QueueSpec => ImplementsFifo`, every `push` and `shift` is that of
  `BoundedFifo`.

*Argument.*  The provers know little of `%`, so everything rests on the distance
`(s - head) % Capacity` of a slot from the head.  `Wrapped` and `Distance` turn both
remainders into a case split; `SlotAtDistance` and `SlotOfDistance` say that slots and
distances correspond one to one, and `HeadMoved` that a step of the head brings every
slot one nearer but the old head, which becomes the last.  `IndicesAndSlots` is then
inductive: `push` with room fills the one slot at distance `length`, `shift` empties
the one that leaves the occupied arc, and a full ring has every slot taken.  For the
refinement `Contents` is read as `Reading(items, head, length)`, about which three
lemmas suffice: a store behind the last value appends (`ReadingAppended`), a step of
the head takes the tail (`ReadingShifted`), and a store into the head slot of a full
ring does both (`ReadingTurned`, for `drop-oldest`).  They are proved place by place
and cite `SeqEqual` of the library.

### The delivery window

`DeliveryWindow_proofs` proves, for every `Capacity`, `MaxValues`, `MaxDepth` and every
subset of `Kinds`:

- `TypeCorrect`: `Spec => []TypeOK`, which includes that no buffer holds more
  than its capacity;
- `GaplessCorrect`: `Spec => []Gapless`;
- `TerminalIsLastCorrect`: `Spec => []TerminalIsLast`;
- `OneUnackedBatchCorrect`: `QuietSink /\ Spec => []OneUnackedBatch`;
- `ValuesKeptCorrect`: `QuietSink /\ Spec => []ValuesKept`;
- `WindowImplementsStream`: `QuietSink /\ Spec => ImplementsAckedStream`.

The first three hold for every set `SinkCalls` of calls made by the sink.  The others
have the hypothesis `QuietSink`, that the sink makes no calls but acks, preemptions
and closes; without it they are false (observations 1 and 2).  They rest on the
assumptions `CapacityAssumption`, `KindsAssumption`, `SinkCallsAssumption` and
`BoundsAssumption` of the modules, which every run evaluates.

*Argument.*  Type correctness is inductive as it stands; lemmas about the stack and
the buffer (`StackParts`, `QueueParts`, `PushedType`) and about the two shared
routines (`HandOutType`, `FlushType`) carry the cases.

`Gapless` is not inductive: a message takes the number `sequence + 1`, so one has to
know that `sequence` counts the messages.  `TerminalIsLast` is not either: that
nothing is appended after a terminal depends on `concluded`.  `Numbered` is both with
what is missing: `Len(out) = sequence + 1`, and a terminal in `out` makes `concluded`
true.  `AppendKeepsNumbers` shows that one more message on a window that is not
concluded keeps it, and `StepKeepsNumbers` that every step either appends one
such message or leaves `out`, `sequence` and a true `concluded` alone.  The point
is `ReturnShifted`: it hands a value out that was taken before the sink ran, and
is only saved by looking at `Ended` again.

`OneUnackedBatch` needs to know why the gate is open when a batch goes out.  `Gate`
adds that the one unacknowledged batch is the one `inFlight` names until a terminal
went out (`GateHeld`), and that a flush suspended in the sink is the innermost call
with the gate still open (`ShiftedAlone`): `ReturnShifted` does not look at the gate,
so nothing above it may have handed out a batch.  That holds because only acks,
preemptions and closes can come on top of it, and an ack does nothing while
`inFlight` is `NoBatch`.

For the values `Order` says that what was handed out, the value suspended in the sink and
the buffer come in this order from the source: the buffer rises, and whatever is handed
out is older than whatever is not.  A value that was taken must still be the oldest when
the sink returns, which again needs that nothing was accepted meanwhile.  `Accounts` adds
to `ValuesKept` what it takes to keep it: a flush that is suspended in a concluded window
was preempted, so that a terminal of the source never leaves a value behind in the sink,
and a State window never calls the sink.  `flush()` is treated once, for
the values, the gate and the terminal its caller left (`FlushKeepsOrder`,
`FlushKeepsValues`), and the steps that hand nothing out are treated together
(`QuietKeepsValues`).  The refinement follows: `Order` gives `Deliver` its value,
`Numbered` its number, and `GateHeld` that all batches before it are acknowledged
(`HandOutDelivers`, `FlushImplements`); all other steps are `Preempt`, `Close`, an
`Acknowledge`, or stutter.

### Subscriptions

`Subscriptions_proofs` proves, for every `NumSessions`, `NumIds`, `MaxSubscriptions`,
`MaxDepth`, `MaxMessages`, every choice of `authorize` and every set `ReentrantCalls` of
calls made from inside the outside calls of Main:

- `SlotsAndMapsCorrect`: `Spec => []SlotsAndMaps`;
- `MessageProtocolCorrect`: `Spec => []MessageProtocol`;
- `EveryoneIsToldCorrect`: `Spec => []EveryoneIsTold`;
- `SourcesEndCorrect`: `Spec => []SourcesEnd`;
- `NoSourceForRetiredCorrect`: `Spec => NoSourceForRetired`, an action property;
- `InvCorrect`: `Spec => []Inv`, the invariant behind the five.

There is no hypothesis but the assumptions of the module, and no call is left out: whatever
the sink, `authorize`, a source, the transport or an abort listener calls, at any depth.

*Argument.*  A subscription is registered, announced, connected, closed and released in
steps with an outside call between any two, and any of them may be the one inside which it
is retired, left or the server disposed.  `Inv` has five parts about the whole and four
about each subscription.  `Typed` types the state and the frames.  `Nested` says which call
can be around which (`Under`): while a subscription is being opened nothing else goes on
about it further out, one call sends its terminal, `dispose()` happens once, and a
subscription that is greeted is not inside a retirement of its session.  `Retirement` says how
far the retirements and `dispose()` are, and that listeners of a retired session are left
only while somebody is calling them.  `Heard`: a subscription listens to its own session,
once.  `LiveOwns`: a live session has an entry.

`Good(c)` is what is known of one subscription: `Birth`, up to its opening (what was not
requested is untouched; what was not opened has no source and no call of the later kinds);
`Life`, from there on (what its Renderer heard, and that the window is concluded exactly
when its terminal is out, due or lost); `Slot` (the lease is held by an entry, the
listener by a held lease, and a pending one whose lease was given back is being swept by
`dispose()`); and `Told` (who was accepted has heard the end or some call, entry or
retirement will see to it).  `Overtaken` is the case that `EveryoneIsTold` exempts,
`dispose()` ending a session that was being retired (observation 8).

A step is about one subscription, one session or the server.  The lemma `OneSub` says what a
step about `c` may touch (`Touches`) so that every other subscription stays as good as it was
(`Same`, `Onward`); `OtherCalls` and `CallReturns` do it for the calls about none. `OneTalks`
and what stands around it do the same for the frames; the routines of the code that several
steps share have a lemma each (`SendKeeps`, `CloseKeeps`, `TerminateKeeps`), and every action
then has one of its own.  The points are `Dispatch`, which ends a subscription in whatever
place it is when its listener is called, and `Sweep`, which takes the entries of one session
after the other: those of a session that `dispose()` retired were told already
(`SweptUnheard`), the others are `Overtaken`. `SourcesEnd` and `EveryoneIsTold` speak of the
moments with an empty stack; `AtRest` and `RetiredIsEmpty` draw them from `Inv`.
`NoSourceForRetired` follows from `GreetedInTime`: only the return from the greeting connects a
source (`OnlyGreeted`), and a subscription whose session was retired meanwhile is closed by
then.

### RPC requests

`RpcRequests_proofs` proves, for every `NumCalls`, `NumIds`, `MaxConcurrentRpc`,
`MaxDepth`, every choice of `authorize` and deadline, and every `ReentrantCalls`:

- `SlotsBoundCorrect`: `Spec => []SlotsBound`;
- `OneCauseCorrect`: `Spec => []OneCause`;
- `CancelledComesFirstCorrect`: `Spec => CancelledComesFirst`;
- `CancellationCorrect`: `Spec => []Cancellation` if `"dispatch" \notin ReentrantCalls`.

The hypothesis of the last says that no request is dispatched from inside an outside call
of Main.  In Electron requests come from `ipcMain`, hence from the event loop, and the
hypothesis holds; a test double or a user of `createBridgeServer` that calls `dispatchRpc`
from the diagnostics sink breaks the property (observation 3).  The run goes
further than the theorem at its size: it lets every outside call dispatch, with a slot limit
under which the third request with one id is refused.  The assumptions are `CallsAssumption`,
`LimitAssumption`, `OptionsAssumption` and `DepthAssumption`.

*Argument.*  The answer to a call is written where its work ends, the cause where it is
aborted, the slot is counted where it begins, and between any two of these an outside call
may run the rest of the program.  So every frame of the stack must say what is
known when it goes on.  The invariant `IInv` has three parts:

- `Types` types the state, and each frame by the point it waits at; `Good(work, stack)`
  says that the work of a call agrees with the frame that waits for it, and that two
  frames are never about the work of one call.  Without that a continuation could
  run twice.
- `Slots` says that a slot is held exactly while the work goes on, that whoever listens
  to the retirement holds one, and that a call that begins does not listen yet.  It gives
  `SlotsBound`.
- `Told` relates the record, the abort and the answer of a call (`CallTold`) and what the
  frames still have to record (`FrameTold`): an abort without a cause is one whose listeners
  are being called.  It gives `OneCause`.

The lemmas go through the steps by kind: those that call outside and change nothing
(`SlotsQuiet`, for instance), those that begin or end the work, those that abort.
`CancelledComesFirst` speaks of two moments; `Doomed(d)` is what holds
from the first to the second, and `DoomedNext` keeps it.  `Cancellation` needs `Reach` on
top of `IInv`: while one call begins no other does and its id is free, whoever works and
was not aborted is in the map under its id and listens, and the map holds working calls only.
The step from `beginning` to the map is the one that the hypothesis protects.

### RPC client

`Renderer_proofs` proves, for every `NumCalls`, `NumSignals`, `MaxDepth` and every set
`OutsideCalls` of calls made back from sink and transport:

- `SettledOnceCorrect`: `ClientSpec => []SettledOnce`.

*Argument.*  A settlement is claimed first and carried out later, with the sink and the
transport called in between, so the invariant `ClientInv` says what is on the stack for whom.
`CallsTold`: a settlement that has begun and not ended is in progress (`Due`), no two frames
settle one call (`Apart`), each frame knows what was recorded and sent (`FrameKnown`), and the
record, the promise and the messages of a call agree (`CallTold`).  `HeldBy`: a call that is
open and not settled listens to its signal and is among those that `dispose()` walks, and if
its signal is aborted or the API disposed, a sweep in progress still has it (`Sweeps`).  An
abort or a disposal therefore reaches each call that is open, even those made while it sweeps:
they find the signal aborted or the API disposed and are refused.  When the stack is empty
there is no sweep and no settlement in progress, which is `NothingLeft`.  The lemmas go through
the steps by what they do to the stack: those that refuse or open a call, claim a settlement,
go on with one, conclude it, or begin or go on with a sweep.

### Document sessions

`DocumentSessions_proofs` proves, for every `Contents`, `NumDocuments`,
`ClientsPerDocument`, `MaxRetired` and all bounds:

- `AttachmentsConsistentCorrect`: `Spec => []AttachmentsConsistent`, for every `SinkCalls`
  and `ListenerCalls`;
- `OwnDocumentCorrect`: `Spec => []OwnDocument`, for every `SinkCalls` and
  `ListenerCalls`;
- `RetiredStaysRetiredCorrect`: `Spec => []RetiredStaysRetired` under `CallsAllowed`.

`CallsAllowed` has three parts, and with any of them missing TLC shows the property false
on a small instance: the sink makes no handshake (observation 4), nobody destroys a
webContents in the middle of a call (observation 5), and `ClientsPerDocument <= MaxRetired`.
The last is what the code counts on: `exposeBridgeInMainWorld` makes one clientId each time
a preload script calls it, that is one of a server in each load of a document, and the
record keeps the last 32 of a webContents unless told otherwise
(`main/resource-limits.ts:12`); a document that is gone is refused as such, remembered or not.

*Argument.*  `Core` is inductive for any calls.  It types the state (`Types`), ties the
maps together (`Maps`: an attachment is that of its webContents, the current session of an
attachment is open, of that attachment, and of the document that is shown), says what each
frame knows when it goes on (`FrameKnown`), that no session is being closed twice
(`Apart`), and that an open session is current or being closed (`Reached`).  The point is
`Closing`, the second half of `#retire`: it marks a session that the first half took from
its attachment, and between the halves the sink may have attached, navigated or disposed.
`FrameKnown` says that the session is still open and still not the current one, which is
all that it needs.

`NoRevival` looks at the whole past of a webContents, so `History` has to say why `establish`
never meets a clientId that had a session.  `Record`: the record follows the order of the
documents, so that what it forgets is of the oldest (`Sorted`).  `Remembered`: a session of the
document that is shown is open or in the record; there are at most `ClientsPerDocument`
clientIds of one document (`OneDocument`), so the record never forgets one of them.  `Alive`: a
session that is being closed is of no older document than any in the record, so that it may be
appended.  `Ordered`: while one is being closed no session is opened and no second one of the
webContents closed.  `Fresh`: the innermost `establish` that waits for the retirement of the
old session holds a clientId that had none.  `Gone`: after the end of a webContents its record
is empty, or a retirement is under way that will clear it.  Steps that leave the sessions alone
are covered together (`Steady`, `BegunHistory`, `HeardHistory`).

### Electron bridge

`ElectronBridge_proofs` proves, for every set of `Namespaces` and `Contents`, every
`NumDocuments`, `NumServers`, `MaxDepth` and the other bounds, and every set `InnerCalls`
of calls that those who hear of a retirement make:

- `ChannelsBoundCorrect`: `Spec => []ChannelsBound`;
- `AnsweredOnceCorrect`: `Spec => []AnsweredOnce`;
- `WorkIsHeldCorrect`: `Spec => []WorkIsHeld`;
- `InvCorrect`: `Spec => []Inv`, the invariant behind the three.

The only assumption used is that a window shows a document at first
(`NumDocuments # 0`).  The run makes every call from inside too, for two
bindings, attachments and requests; the theorems hold for any number of them.

*Argument.*  What the three properties say holds between calls, or only if something holds in
their middle, so `Inv` says of the stack what is still due.  `Owners`: all four channels of a
namespace belong to its newest binding.  A newest binding that is disposed is the one to take
over, or is still being disposed (`Leaves`), and never both, for no binding is disposed twice
at a time (`Apart`).  So when `bindElectronBridge()` finds the handlers free the binding it
replaces was in `disposedBindings`, its listeners go with its handlers, and nobody is still
disposing it, who would put it there again.  `Asked`: a document that calls or subscribes in a
namespace has met a binding of it, so there is a receiver, and exactly one; with that
`AnsweredOnce` is inductive.  `Entered`: a session belongs to an entry; a server that is
disposed and still has sessions is being closed (`Closes`); an entry is in the map of its
binding, or was there until an overtaken `attach()` wrote over it (`Kept`); and that binding is
not disposed, or it is being disposed with its map or its server still to go through
(`Watched`).  `Kept` needs the history `overwritten`: what the map has in that place afterwards
is `Nothing`, or `None` once the function of the overtaken call was called (`DetachEmpty`), or
a later attachment, and none of these tells of the one that lives.  `Watched` holds of the
calls of `attach()` in progress too, which have passed the check of the disposed flag before
those who heard of the old session's end could call `dispose()`: this is what their re-entrance
could break, and does not, because an `attach()` that goes on after its binding was disposed
finds the server disposed as well, or inside a disposal that will find its attachment.  `Held`:
work belongs to a session, which `Retire` takes with it.  The lemmas go by what a step does to
sessions and entries: `LessInv` for those that only end them, `EnteredMoved` for those that
leave them alone, and one each for `Enter`, which adds an entry, and `Deliver`, which adds a
session.

The attempt to prove the first form of `WorkIsHeld`, in which the map always has the
attachment, failed at `Enter` and led to observation 12; a second form, in which the map has
it or `Nothing`, is false once `DetachEmpty` is called.

### The streams of a document

`Renderer_proofs` proves besides, for every set of `Keys`, every `NumSubscriptions`,
`MaxValues` and `MaxSubscriptions`, and every `SinkCalls` without `"open"`:

- `MessagesArriveCorrect`: `Spec => []MessagesArrive`;
- `InSyncCorrect`: `Spec => []InSync`;
- `NeverStallsCorrect`: `Spec => []NeverStalls`;
- `InvCorrect`: `Spec => []Inv`, the invariant behind the three.

The hypothesis `"open" \notin SinkCalls` is needed: with it missing the order of the
commands is lost, which is the finding of section 6.  A sink that closes or disposes is
allowed.  The assumptions used are those of the bounds.

*Argument.*  Each property is about a moment or a channel, and none is inductive: that
both ends agree once nothing is on its way depends on everything that was.  So `Inv` says
of each id how the two ends fit together with what is between them (`Links`).
A generation in the Renderer's map is `Joined`: Main was asked or knows it,
it is not being left, and the messages on the stream are those from the last one heard to
the last one sent, each once and in order, with a terminal exactly when Main has closed
it (`Streamed`); the batch in flight is on the stream, with the subscribers, or acknowledged
on the control channel (`Answers`).  A generation that is not in the map is `Left`: each
`subscribe` still on its way has an `unsubscribe` behind it, and what Main holds has one
coming.  An id that nobody made, or that is being opened, is `Unknown` to Main.  `Ordered`
adds what the watermark needs, for a `subscribe` that is dropped as late would leave a
generation in the map with nobody to answer it; `OpensLast`, where the hypothesis is
used, says that only the newest generation is being opened, so that its `subscribe` goes
out behind all older ones; `Heard` ties the state of a generation to its `lastSequence`.

The lemmas follow the channels: what one more message, or one less, does to `Streamed`
(`StreamedNext`, `StreamedHead`, `StreamedRest`), one more command or one less to `Asks`,
`Leaves` and `Left` (`CommandedOther`, `CommandedUnsubscribed`, `CommandedRest`), and both
to `Answers`.  A step of Main tells one id something and leaves the others alone (`Told`,
`LinksMain`), a step of the Renderer changes one generation or ends all (`LinksGeneration`,
`LeaveStep`).  The points are `NextPasses`, by which `#dispatch` never drops a message of
a generation in the map, and `LinksSubscribed`, by which a `subscribe` that comes to Main
after its generation was left still finds its `unsubscribe` behind it.

### Upstreams

`Upstreams_proofs` proves, for every set of `Kinds`, every `NumConsumers`, `MaxValues`
and `MaxDepth`:

- `OneUpstreamCorrect`: `Spec => []OneUpstream`, for every set of calls back;
- `NothingLeaksCorrect`: `Spec => []NothingLeaks`, for every set of calls back;
- `ConsumersServedCorrect`: `Spec => []ConsumersServed`, and
- `UpstreamsReleasedCorrect`: `Spec => []UpstreamsReleased`, both under
  `"connect" \notin EndingCalls` and `"end" \notin ClosingCalls`.

The two hypotheses are observations 7 and 6: with either of them missing TLC shows both
`ConsumersServed` and `UpstreamsReleased` false on the instance of the run.
`NothingLeaks` is the part of `UpstreamsReleased` that needs neither.  That the members of
a fan-out are called in the order of the map is not used, so it does not matter for these
properties.

*Argument.*  All but `OneShare` and `TeardownContained` speak of the moments when nothing
is going on, and say nothing of the middle of a call; so the invariant says of every
state which call in progress still owes what is missing.

`Basics` is inductive for any calls.  `Typed` is the type of the state and of the frames.
`UpstreamLife` (`Living`): an upstream without members is closed, a closed one is stopped,
and it has no producer yet only inside the `subscribe` that will bring one, where
`Subscribed` finds it closed and tears it down.  `ConsumerLife` (`Settled`): who waits for
a factory, is failing or is connected though its subscription is over has the frame
that will settle it.  `CallersKnown` is what those frames know of their consumer: the
one that is told of a failed `connect` has no connection any more and gets none.  At
`Idle` there are no frames, which leaves `NothingLeaks`.  The rest is about the values of a
State, as long as the current one was not emitted inside the fan-out of an older one
(`~nested`).  `StateFollowed`: a consumer that can be notified has the current value or is
about to be given it (`Informs`), by its `getValue`, as a member not yet called of a fan-out
that hands out the current value, or by the source that has yet to emit while it is
subscribed.  `NoOldValue`: every fan-out in progress hands out the current value, so nobody
who has it is given an older one.  The points are `Emit`, which makes every value but the new one
old: it informs every consumer because the source's upstream is the share of the map, and if it
is not nested no other fan-out of values is going on, since a source that is still
subscribed is that upstream and an upstream without members is closed; and `Change`, which
informs nobody because nobody is connected.  That a nested emission makes both false is the
finding `UpstreamsReentered`; `ConsumersServed` then keeps `Served`, and the next value that is
not nested restores the rest, which the same invariant proves.

`Endings` is inductive with it under the hypotheses.  `EndingPlaced`: around the fan-out of
a terminal nobody is being closed, and what it calls is a sink that is handed the
terminal, so that, by the hypotheses, nobody connects inside it (`NothingEnds`).
`EndingCallsAll`: every subscribed member is still to be called.  `StoppedTells`: an
upstream that has stopped and has members is in such a fan-out, so nobody joins
one; this is what leaves `Served`.  When the fan-out is over no member is left
(`EndedForAll`: one that was not called would be in the middle of being closed,
further out), so the upstream was closed, and its teardown run and caught, by the last
`disconnect`; the Subscriber that unsubscribes itself has nothing to tear down, which is
`TeardownCaught`.

### What is only model-checked

- The invariants of `RendererStreams` and `Registration`, and `ParsesExactly`.
  `RendererStreams` would need an invariant for each of its kinds of frames, as
  `Subscriptions` has, about all subscribers of a key together instead of one at a time;
  `Registration` and `BridgeValues` compute over trees and graphs of data.
- All liveness (`EverythingGoesOut`, `EveryoneIsAnswered`, `EveryCallEnds`,
  `EveryoneHears`): the prover does not do fairness.

## 6. Where the code and its documents disagree

Two runs end in a counterexample and have their entries under "findings".

`StreamSessionReentered`: `StreamMultiplexer.open()` makes the subscription id, then
tells the diagnostics sink of `subscription-opened`, then sends `subscribe`
(`renderer/stream-multiplexer.ts:90`).  A sink that subscribes to another key, which
`docs/design/11-diagnostics.md:52` and `docs/adr/0022-renderer-diagnostics.md:107`
allow, makes the younger id leave first.  Main takes it as its watermark and drops the
older command without a word (`main/subscriptions.ts:224`); its generation waits for
ever.  `docs/design/06-stream-delivery.md:113` rests the watermark on the order of
arrival being the order of creation, and line 280 names only transports that reorder.

`UpstreamsReentered`: `#fanOut` hands a value to a snapshot of the members
(`main/upstreams.ts:289`), and a source that emits again meanwhile is not held back: the
newer value goes to everybody, then the outer loop gives the older one to the members that
are left, which stay with it until the source emits once more.
`docs/design/06-stream-delivery.md:33` promises that a State converges to its last value
("마지막 값 수렴. 중간 값은 버려질 수 있다").  What runs while a member is handed a value, and may
make the source emit, is user code in several places: the output schema
(`main/subscriptions.ts:550`), the diagnostics sink, a `send` that is synchronous, and
the abort listeners and teardowns of a member that is closed because its `send` threw.
The counterexample has two members: the first one's sink emits 2 when it is given 1, and
the second gets 2, then 1.  A schema that emits while it parses has the same effect inside
one consumer: the newer value enters the window before the older one that is still
being parsed (`main/subscriptions.ts:550`-`559`).  That is outside `Upstreams`, whose
`seen` is the last value a sink was given, not the last that it accepted.

### Observations

Seen while modelling, without a run of their own; where a module shows one, the
constants that differ from its configuration are given.

Main:

1. A source that ends from the sink that `flush()` tells the queue depth has its
   terminal handed out first, and the value already taken is lost
   (`main/delivery-window.ts:318`; `docs/design/06-stream-delivery.md:73` has the
   terminal after all waiting values).  The run `Delivery` with `SinkCalls = {"end"}` violates
   `NothingVanishes`.
2. A source that emits from the same sink call gets a second batch out while the first
   is about to be: two are then unacknowledged (`main/delivery-window.ts:317`).
   The run `Delivery` with `SinkCalls = {"accept"}` violates `OneUnackedBatch`.
3. A request dispatched from the sink that hears of the cancellation of a duplicate
   is overwritten in the map by the outer one with the same id: neither a cancel nor
   the retirement of the session reaches it (`main/rpc-requests.ts:253`), although
   `docs/design/05-rpc.md:138` takes for granted that every request of a session
   that ended was aborted.  `RpcRequests` with `NumIds = 1`, `MaxConcurrentRpc = 3`
   violates `StillReachable` and `RetiredAborts`, parts of `Cancellation`.
4. A handshake made from the session-closed diagnostics of a retirement reopens the
   clientId being retired (`main/document-sessions.ts:196`).  `DocumentSessions` with
   `SinkCalls = {"establish"}` violates `NoRevival`.
5. `destroyed` inside the retire listener of a replacing `establish` can leave the
   new session on a destroyed webContents (`main/document-sessions.ts:149`).
   `DocumentSessions` with `ListenerCalls = {"destroy"}` violates `DestroyedIsForgotten`.
6. A subscription that is being closed ignores the end of its source and is disconnected
   only after its abort listeners: when the source ends meanwhile, its teardown runs
   outside `#release`, and what it throws leaves `Upstreams` (`main/upstreams.ts:262`;
   `docs/design/06-stream-delivery.md:77` says it never does).  `Upstreams` with
   `ClosingCalls = {"end"}` violates `TeardownContained`.
7. A consumer that connects while a shared source's terminal is handed to another
   member joins the dead share, never hears of the end, and later ones join it too
   (`main/upstreams.ts:247`, `:288`).  `Upstreams` with `EndingCalls = {"connect"}`
   violates `Served`.
8. `server.dispose()` called from the session-closed diagnostics of a detach ends a
   waiting subscription without the promised `subscribed`/`CANCELLED`
   (`main/subscriptions.ts:351`; `docs/design/06-stream-delivery.md:239`), which is
   the exemption in `EveryoneIsTold`.  It also empties the maps of that session and leaves
   it in `#liveStates` (`main/subscriptions.ts:357`); nothing reads it there any more.
9. An `attach()` whose retire listener disposes the server registers itself on the
   disposed server (`main/document-sessions.ts:109`; `docs/design/10-shutdown.md:107`).
   `DocumentSessions` as configured, with the invariant `DisposedIsSilent`, shows it.
10. The record of retired clientIds is not cleared when a webContents is detached
    before it is destroyed (`docs/design/09-resource-limits.md:157` says it goes with
    the webContents).
11. Schemas and errors are read by plain property access, so an operation called like
    a member of `Object.prototype` finds one that nobody gave
    (`main/registration.ts:484`, `:485`, `:509`; the comment at line 296 and
    `docs/design/01-contract.md:92`, which does not reserve such names).  `Registration`
    with `AllNames = SomeNames = {"a", "toString"}`, `Depth = 1`, `MaxEntries = 0` violates
    `NothingInherited`.  It violates `RegistrationDecides`, a part of `TableCorrect`, as well:
    an rpc operation called `toString`, with a record of schemas for its domain that has no
    entry for it, finds the inherited function where a schema would be and is refused as
    "must be an object" (`main/registration.ts:318`, with `:484`), although the
    implementation and its options are well formed.  The run has no such names for this
    reason.
12. An `attach()` whose retire listener attaches the same window through the same binding
    gets an empty detach function from the server and writes it over the one that the
    inner call left in the map (`main/electron-adapter.ts:202`).  The binding's `dispose()`
    then does not detach that window itself (`docs/design/10-shutdown.md:130`); its session
    ends a moment later, when the server is disposed.  The same holds when the application
    calls the function that the overtaken `attach()` returned: it finds its own empty detach
    in the map and deletes the entry, although the window is attached
    (`main/electron-adapter.ts:204`); a further `attach()` of the window then does not detach
    the prior one through the map either, but the server does (`main/document-sessions.ts:108`).
    This is the exemption in `WorkIsHeld`, which the run `ElectronBridge` meets; without
    it that run ends in a counterexample.

Renderer, all of them calls from inside a subscriber, listener or sink; `RendererStreams`
lets each happen when `Entrances` holds its name:

13. `"left while opened"`: when everybody leaves a generation while it is being opened,
    rxjs `share` opens the next one before the first is torn down, so a key has two
    active generations (`renderer/local-generation.ts:195`;
    `docs/design/07-renderer-streams.md:48` promises one).  `Kinds = {"state"}`,
    `NumListeners = 1`, `BatchSize = 1`, `InnerCalls = {"leave", "deliver"}` violates
    `OneActive`.
14. `"releasing"`: a listener that comes while the last one leaves finds its handle
    removed after it registered (`renderer/snapshot-store.ts:109`-`118`).
15. `"disposing"`: a listener that comes after `dispose()` and before the generation has
    ended joins it and hears of its end; the immediate notice of
    `docs/design/10-shutdown.md:78` does not come.
16. `"replaying"`: a generation that ends while its value is replayed to one subscriber,
    and another one of an earlier generation is still counted, leaves `share` with a
    count that is too high.
17. A generation that ends before it is announced changes the snapshot without
    calling the store's listeners (`docs/design/07-renderer-streams.md:58`), which is
    the exemption in `StoreFollows`.

## 7. Abstractions

- Payloads are numbers in the window, and nothing at all in `Subscriptions`,
  `RendererStreams` and `StreamSession`.  Serialisation, size limits and schemas are the
  choice between success and failure; which values pass is `BridgeValues`.
- In `Subscriptions` and `StreamSession` the window holds "one in flight" and "something
  queued": the number of queued values and their order are `DeliveryWindow`'s.  The
  preemption, the recorded terminal and the ack gate are the same.
- In `Subscriptions` a source is either connected or not; how consumers share one is
  `Upstreams`.  There, keys do not touch each other, and a consumer has the last value its
  sink was given: its window and its schema are in other modules.
- In `StreamSession` the steps inside each end are one: what the sink, subscribers and
  sources may do in between is in the modules of the ends, but for the sink of
  `subscription-opened`, which decides what leaves first.
- In `ElectronBridge` a session is the document it belongs to: the clientIds of one
  document are `DocumentSessions`'s.  Renderer frames other than the main frame
  send nothing.
- In `BridgeValues` keys have one byte each, and bytes are counted also when there is no
  limit on them, as they are only compared when there is one.
- In `Registration` a name is its kind, and a value the kind of leaf it is: that a
  handler is a function and a State has `getValue` is checked leaf by leaf and left out.
  `options.errors` is left out: it is read and its paths are checked beside the schemas,
  by the same code (`main/registration.ts:466`, `:587`).  So are categories without operations
  and domains without categories, which add nothing to the table; their names are checked
  all the same.
- In `StreamSession` the Renderer's `transport.control()` and Main's `send` do not throw:
  `RendererStreams` has the control that fails, `Subscriptions` the send that does.
- Responses and sends on a document that is gone are not modelled as lost: what
  counts is what Main hands over.  A send that throws is modelled.
- Diagnostics other than those whose sink call matters to the order of steps, error
  codes and messages are left out.

## 8. Plan

Done: the buffers, the delivery window, subscriptions, RPC requests, document sessions,
the RPC client, upstreams, the Electron bindings with the server and the streams of a
document from end to end, with their theorems; the streams of the Renderer; registration
and values.  Left:

1. Proofs: the invariants of `RendererStreams`, frame by frame, and `ParsesExactly`' first
   half (the ancestors are the frames to exit), from their strengthenings.
2. `StreamSession`'s ends shown to be refined by `RendererStreams` and `Subscriptions`:
   the actions match by name, but the frames of the two stacks make the product larger
   than TLC can take in the time of a run.

### Not modelled

- `contract/*`: types, nothing runs.  The demo application: an example that uses the
  library.
- `protocol/messages.ts`: shape checks of single messages, field by field, without
  state.  Where they fail is a choice in the modules that call them.
- `main/payload-limits.ts`, `main/resource-limits.ts`, `main/output-boundary.ts`,
  `main/error-serializer.ts`, `renderer/remote-error.ts`: conversions and checks of one
  value.  Success, failure and the user code they call are steps of `Subscriptions` and
  `RpcRequests`.
- `testing/loopback-transport.ts`: a test double.  Its two ordered channels are those of
  `StreamSession`.
- `getDiagnosticsSnapshot()`: reads counters, changes nothing.
