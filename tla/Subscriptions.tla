---------------------------- MODULE Subscriptions ----------------------------
(***************************************************************************)
(* main/subscriptions.ts with main/session-slots.ts: the life of the       *)
(* stream subscriptions of Main, from the subscribe command to the         *)
(* terminal and the return of the slot, and their end when the document    *)
(* session is retired or the server disposed.                              *)
(*                                                                         *)
(* Everything runs on one thread, but the code calls out at many points    *)
(* (diagnostics sink, authorize, source, teardown, abort listeners, send)  *)
(* and each of them may call the bridge again before it returns.  `stack'  *)
(* holds the calls in progress, the innermost last; only that one goes on. *)
(*                                                                         *)
(* The delivery window is reduced to what decides the life of a            *)
(* subscription (DeliveryWindow.tla has the rest), the connection to the   *)
(* source to whether there is one, and a document session to its status    *)
(* and the retire listeners registered on it.                              *)
(***************************************************************************)
EXTENDS Integers, Sequences, FiniteSets, SequencesExt

CONSTANTS
  NumSessions,       \* how many document sessions exist
  NumIds,            \* how many subscriptions each Renderer requests
  MaxSubscriptions,  \* ResourceLimits.maxSubscriptions: slots per session
  AuthorizeOptions,  \* the servers considered: with an authorize function, without
  Reasons,           \* why sessions are retired
  ReentrantCalls,    \* the calls made back from inside an external call
  MaxDepth,          \* bound: no such call is made from so many nested outside calls
  MaxMessages        \* bound: a source stops emitting after so many messages

AllReasons == {"detach", "dispose", "replaced", "navigation"}
AllCalls == {"subscribe", "unsubscribe", "ack", "emit", "end", "retire", "dispose"}

ASSUME SessionsAssumption == NumSessions \in Nat /\ NumIds \in Nat
ASSUME SlotsAssumption == MaxSubscriptions \in Nat \ {0}
ASSUME OptionsAssumption ==
  /\ AuthorizeOptions \subseteq BOOLEAN
  /\ Reasons \subseteq AllReasons
  /\ ReentrantCalls \subseteq AllCalls
ASSUME LimitsAssumption == MaxDepth \in Nat /\ MaxMessages \in Nat

Sessions == 1 .. NumSessions
Subs == Sessions \X (1 .. NumIds)   \* the session and the sequence in the id
SessionOf(c) == c[1]
IdOf(c) == c[2]

VARIABLES
  hasAuthorize, \* the server was given an authorize function
  status,     \* session -> "fresh", "current", "closing" or its retire reason
  disposed,   \* server.dispose() was called
  watermark,  \* session -> the highest sequence accepted
  place,      \* subscription -> the map its entry is in
  live,       \* liveStates: the sessions said to own a subscription
  lease,      \* subscription -> its slot lease
  listeners,  \* session -> the subscriptions listening to its retirement
  verdict,    \* subscription -> how far the authorize decision is
  window,     \* subscription -> its delivery window
  upstream,   \* the subscriptions connected to their source
  stack,      \* the calls in progress
  \* History.
  requested,  \* the subscribe commands received
  left,       \* the subscriptions the Renderer unsubscribed
  lost,       \* the subscriptions a send failed for
  out         \* subscription -> the messages sent, in order

server == <<hasAuthorize, disposed>>
registry == <<place, live, lease, listeners>>
history == <<requested, left>>
vars == <<status, server, watermark, registry, verdict, window, upstream,
          stack, history, lost, out>>

Terminals == {"complete", "error", "cancelled", "rejected"}
NewWindow ==
  [closed |-> FALSE, concluded |-> FALSE, inFlight |-> FALSE, queued |-> FALSE,
   terminal |-> "none", opened |-> FALSE]

Init ==
  /\ status = [s \in Sessions |-> "fresh"]
  /\ hasAuthorize \in AuthorizeOptions
  /\ disposed = FALSE
  /\ watermark = [s \in Sessions |-> 0]
  /\ place = [c \in Subs |-> "none"]
  /\ live = {}
  /\ lease = [c \in Subs |-> "none"]
  /\ listeners = [s \in Sessions |-> <<>>]
  /\ verdict = [c \in Subs |-> "none"]
  /\ window = [c \in Subs |-> NewWindow]
  /\ upstream = {}
  /\ stack = <<>>
  /\ requested = {}
  /\ left = {}
  /\ lost = {}
  /\ out = [c \in Subs |-> <<>>]

-----------------------------------------------------------------------------
\* The calls in progress.  `at' says where a call is; `arg' is what it needs to
\* go on.
Frame(at, sub, arg) == [at |-> at, sub |-> sub, arg |-> arg]
Top == stack[Len(stack)]
Rest == SubSeq(stack, 1, Len(stack) - 1)
At(point) == stack # <<>> /\ Top.at = point

\* The frames that wait for a call of the bridge itself, not for an outside one.
Inner == {"notify", "failing", "dispatching", "disposing", "sweeping"}

MayCall(call) ==
  \/ stack = <<>>
  \/ /\ stack # <<>> /\ Top.at \notin Inner
     /\ call \in ReentrantCalls
     /\ Len(SelectSeq(stack, LAMBDA f : f.at \notin Inner)) < MaxDepth

RetireReason(s) == IF status[s] \in AllReasons THEN status[s] ELSE "none"
HeldBy(s) == {c \in Subs : SessionOf(c) = s /\ lease[c] = "held"}
Accepting(w) == ~w.closed /\ ~w.concluded /\ w.terminal = "none"

HasSlot(s) == Cardinality(HeldBy(s)) < MaxSubscriptions

\* removeEventListener for the retire listener of a subscription.
Removed(q, c) ==
  IF Contains(q, c) THEN RemoveAt(q, CHOOSE i \in DOMAIN q : q[i] = c) ELSE q

Unheard(c) == [listeners EXCEPT ![SessionOf(c)] = Removed(@, c)]

\* The sessions that own a subscription once c is dropped from the maps.
LiveWithout(c) ==
  {s \in live : s = SessionOf(c) =>
     \E d \in Subs \ {c} : SessionOf(d) = s /\ place[d] # "none"}

\* Mutant: the slot stays taken.
ForgetKeepingSlot(c) ==
  /\ place' = [place EXCEPT ![c] = "none"]
  /\ listeners' = Unheard(c)
  /\ live' = LiveWithout(c)
  /\ UNCHANGED lease

\* Drops the entry of a subscription: its slot, its retire listener, its place in the
\* maps, and the session's mark in liveStates if nothing is left of it.
Forget(c) ==
  /\ place' = [place EXCEPT ![c] = "none"]
  /\ lease' = [lease EXCEPT ![c] = IF @ = "held" THEN "released" ELSE @]
  /\ listeners' = Unheard(c)
  /\ live' = LiveWithout(c)

-----------------------------------------------------------------------------
\* The routines below go on with `below' as the rest of the stack; each sets
\* stack, window, out and lost.

\* #close: the first one records subscription-closed.
Close(c, w, below) ==
  /\ window' = [window EXCEPT ![c] = [w EXCEPT !.closed = TRUE]]
  /\ stack' = IF w.closed THEN below ELSE Append(below, Frame("closing", c, ""))

\* #send: a send that throws closes the subscription.
Send(c, message, w, below) ==
  \/ /\ out' = [out EXCEPT ![c] = Append(@, message)]
     /\ window' = [window EXCEPT ![c] = w]
     /\ stack' = Append(below, Frame("sent", c, message))
     /\ UNCHANGED lost
  \/ /\ lost' = lost \cup {c}
     /\ Close(c, w, below)
     /\ UNCHANGED out

\* endNotice: is a subscription that ended for this cause told so?
Notice(c, cause) ==
  IF cause = "admission" THEN "rejected"
  ELSE IF RetireReason(SessionOf(c)) \in {"detach", "dispose"} THEN "cancelled"
  ELSE IF RetireReason(SessionOf(c)) = "none" /\ cause = "rejected" THEN "rejected"
  ELSE "none"

\* #endUnstarted, up to its first send.
EndUnstarted(c, cause, below) ==
  /\ \/ /\ Notice(c, cause) = "none"
        /\ stack' = below
        /\ UNCHANGED <<out, lost>>
     \/ /\ Notice(c, cause) # "none"
        /\ out' = [out EXCEPT ![c] = Append(@, "subscribed")]
        /\ stack' = Append(below, Frame("noticed", c, cause))
        /\ UNCHANGED lost
     \/ /\ Notice(c, cause) # "none"
        /\ lost' = lost \cup {c}
        /\ stack' = below
        /\ UNCHANGED out
  /\ UNCHANGED window

\* #terminate: record the terminal, cut the source, send the terminal if nothing
\* is queued before it.
Terminate(c, terminal, below) ==
  /\ upstream' = IF Accepting(window[c]) THEN upstream \ {c} ELSE upstream
  /\ LET w == [window[c] EXCEPT !.terminal = terminal,
                                !.concluded = ~window[c].inFlight]
     IN \/ /\ ~Accepting(window[c])
           /\ stack' = below
           /\ UNCHANGED <<window, out, lost>>
        \/ /\ Accepting(window[c])
           /\ c \in upstream \/ ~w.concluded
           /\ window' = [window EXCEPT ![c] = w]
           /\ stack' = IF c \notin upstream THEN below
                       ELSE Append(below, Frame("detached", c,
                                     IF w.concluded THEN terminal ELSE "none"))
           /\ UNCHANGED <<out, lost>>
        \/ /\ Accepting(window[c])
           /\ c \notin upstream /\ w.concluded
           /\ Send(c, terminal, w, below)

\* Mutant: the end of a pending subscription is not told.
OnRetirePendingSilent(c, below) ==
  /\ Forget(c)
  /\ stack' = Append(below, Frame("done", c, ""))
  /\ UNCHANGED <<window, out, lost>>

\* Mutant: preempt() speaks although a terminal was handed out.
PreemptibleTwice(w) == ~w.closed

Preemptible(w) == ~w.closed /\ ~w.concluded

Preempted(w) ==
  [w EXCEPT !.concluded = TRUE, !.queued = FALSE, !.inFlight = FALSE,
            !.terminal = "none"]

\* The retire listener of a pending subscription, and of a consumer.
OnRetirePending(c, below) ==
  /\ Forget(c)
  /\ stack' = below \o <<Frame("notify", c, "retired"), Frame("done", c, "")>>
  /\ UNCHANGED <<window, out, lost>>

OnRetireConsumer(c, below) ==
  LET told == Notice(c, "retired") # "none" /\ Preemptible(window[c])
  IN \/ /\ ~window[c].opened
        /\ Close(c, window[c], Append(below, Frame("notify", c, "retired")))
        /\ UNCHANGED <<out, lost>>
     \/ /\ window[c].opened /\ told
        /\ Send(c, "cancelled", Preempted(window[c]), below)
     \/ /\ window[c].opened /\ ~told
        /\ Close(c, window[c], below)
        /\ UNCHANGED <<out, lost>>

-----------------------------------------------------------------------------
\* #start, up to its first diagnostics callback.
Start(c, below) ==
  /\ window' = [window EXCEPT ![c] = NewWindow]
  /\ stack' = Append(below, Frame("opening", c, ""))
  /\ UNCHANGED <<out, lost>>

\* #finishPending with the decision v, and what subscribe() does after it.
\* offRetire() keeps the slot of an allowed subscription.
FinishPending(c, v, below) ==
  \/ /\ place[c] # "pending"
     /\ stack' = below
     /\ UNCHANGED <<registry, window, out, lost>>
  \/ /\ place[c] = "pending"
     /\ v = "allowed" /\ RetireReason(SessionOf(c)) = "none"
     /\ place' = [place EXCEPT ![c] = "consumer"]
     /\ listeners' = Unheard(c)
     /\ Start(c, below)
     /\ UNCHANGED <<live, lease>>
  \/ /\ place[c] = "pending"
     /\ v # "allowed" \/ RetireReason(SessionOf(c)) # "none"
     /\ Forget(c)
     /\ IF v = "rejected" /\ RetireReason(SessionOf(c)) = "none"
        THEN EndUnstarted(c, "rejected", below)
        ELSE stack' = below /\ UNCHANGED <<window, out, lost>>

\* subscribe(), from the watermark to the call of authorize.  Without authorize
\* the subscription starts in the same step.
Register(c, below) ==
  LET s == SessionOf(c) IN
  /\ watermark' = [watermark EXCEPT ![s] = IdOf(c)]
  /\ \/ \* unknown key, or no slot left
        /\ stack' = Append(below, Frame("rejecting", c, "rejected"))
        /\ UNCHANGED <<registry, window, out, lost>>
     \/ \* the session was retired while it was opened: onRetire fires at once
        /\ HasSlot(s)
        /\ RetireReason(s) # "none"
        /\ lease' = [lease EXCEPT ![c] = "released"]
        /\ EndUnstarted(c, "retired", below)
        /\ UNCHANGED <<place, live, listeners>>
     \/ /\ HasSlot(s)
        /\ RetireReason(s) = "none"
        /\ lease' = [lease EXCEPT ![c] = "held"]
        /\ live' = live \cup {s}
        /\ IF hasAuthorize
           THEN /\ place' = [place EXCEPT ![c] = "pending"]
                /\ listeners' = [listeners EXCEPT ![s] = Append(@, c)]
                /\ stack' = Append(below, Frame("authorizing", c, ""))
                /\ UNCHANGED <<window, out, lost>>
           ELSE /\ place' = [place EXCEPT ![c] = "consumer"]
                /\ Start(c, below)
                /\ UNCHANGED listeners

\* subscribe() on an admitted session: an id that does not parse is refused, an
\* id at or under the watermark is dropped without a word.
Begin(c, below) ==
  \/ /\ IdOf(c) > watermark[SessionOf(c)]
     /\ stack' = Append(below, Frame("rejecting", c, "rejected"))
     /\ UNCHANGED <<watermark, registry, window, out, lost>>
  \/ /\ IdOf(c) <= watermark[SessionOf(c)]
     /\ stack' = below
     /\ UNCHANGED <<watermark, registry, window, out, lost>>
  \/ /\ IdOf(c) > watermark[SessionOf(c)]
     /\ Register(c, below)

\* The subscribe command: controlStream() and DocumentSessions.establish(), which
\* opens the session of a new document and calls the sink.  Commands come in any
\* order, and one that was accepted may come again from the event loop.
Subscribe(c) ==
  LET s == SessionOf(c) IN
  /\ MayCall("subscribe")
  /\ c \in requested =>
       stack = <<>> /\ status[s] = "current" /\ IdOf(c) <= watermark[s]
  /\ requested' = requested \cup {c}
  /\ \/ /\ ~disposed /\ status[s] = "fresh"
        /\ status' = [status EXCEPT ![s] = "current"]
        /\ stack' = Append(stack, Frame("established", c, ""))
        /\ UNCHANGED <<watermark, registry, window, out, lost>>
     \/ /\ ~disposed /\ status[s] = "current"
        /\ Begin(c, stack)
        /\ UNCHANGED status
     \/ /\ disposed \/ status[s] \notin {"fresh", "current"}
        /\ stack' = Append(stack, Frame("rejecting", c, "admission"))
        /\ UNCHANGED <<status, watermark, registry, window, out, lost>>
  /\ UNCHANGED <<server, verdict, upstream, left>>

Established ==
  /\ At("established")
  /\ Begin(Top.sub, Rest)
  /\ UNCHANGED <<status, server, verdict, upstream, history>>

\* The refusal was recorded, or a retired subscription cleaned up: say so.
Refuse ==
  /\ At("rejecting") \/ At("notify")
  /\ EndUnstarted(Top.sub, Top.arg, Rest)
  /\ UNCHANGED <<status, server, watermark, registry, verdict, upstream, history>>

\* subscribed(0) of #endUnstarted is sent; the notice is decided again.
Noticed ==
  /\ At("noticed")
  /\ \/ /\ Notice(Top.sub, Top.arg) # "none"
        /\ out' = [out EXCEPT ![Top.sub] = Append(@, Notice(Top.sub, Top.arg))]
        /\ stack' = Append(Rest, Frame("done", Top.sub, ""))
        /\ UNCHANGED lost
     \/ /\ stack' = Rest
        /\ lost' = IF Notice(Top.sub, Top.arg) = "none" THEN lost
                   ELSE lost \cup {Top.sub}
        /\ UNCHANGED out
  /\ UNCHANGED <<status, server, watermark, registry, verdict, window, upstream,
                 history>>

\* An outside call returns into code that does nothing more.
Done ==
  /\ At("done")
  /\ stack' = Rest
  /\ UNCHANGED <<status, server, watermark, registry, verdict, window, upstream,
                 history, lost, out>>

-----------------------------------------------------------------------------
\* authorize() returned its promise.
Authorizing ==
  /\ At("authorizing")
  /\ verdict' = [verdict EXCEPT ![Top.sub] = "waiting"]
  /\ stack' = Rest
  /\ UNCHANGED <<status, server, watermark, registry, window, upstream, history,
                 lost, out>>

\* The promise of authorize() settles; a denial is recorded first.
Settle(c, v) ==
  /\ stack = <<>>
  /\ verdict[c] = "waiting"
  /\ \/ /\ v # "denied" \/ place[c] # "pending"
        /\ verdict' = [verdict EXCEPT ![c] =
                         IF place[c] = "pending" THEN v ELSE "cancelled"]
        /\ UNCHANGED stack
     \/ /\ v = "denied" /\ place[c] = "pending"
        /\ stack' = <<Frame("denying", c, "")>>
        /\ UNCHANGED verdict
  /\ UNCHANGED <<status, server, watermark, registry, window, upstream, history,
                 lost, out>>

Denying ==
  /\ At("denying")
  /\ verdict' = [verdict EXCEPT ![Top.sub] = "rejected"]
  /\ stack' = Rest
  /\ UNCHANGED <<status, server, watermark, registry, window, upstream, history,
                 lost, out>>

\* subscribe() goes on after its await, in a later microtask.
Decide(c) ==
  /\ stack = <<>>
  /\ verdict[c] \in {"allowed", "rejected", "cancelled"}
  /\ verdict' = [verdict EXCEPT ![c] = "none"]
  /\ FinishPending(c, verdict[c], stack)
  /\ UNCHANGED <<status, server, watermark, upstream, history>>

\* subscription-opened is recorded: listen to the retirement, or act on one that
\* happened meanwhile; then send subscribed(0) unless that closed the window.
Opened ==
  LET c == Top.sub
      s == SessionOf(c)
      w == window[c]
  IN
  /\ At("opening")
  /\ \/ /\ RetireReason(s) # "none"
        /\ OnRetireConsumer(c, Rest)
        /\ UNCHANGED listeners
     \/ /\ RetireReason(s) = "none" /\ w.closed
        /\ stack' = Rest
        /\ UNCHANGED <<listeners, window, out, lost>>
     \/ /\ RetireReason(s) = "none" /\ ~w.closed
        /\ listeners' = [listeners EXCEPT ![s] = Append(@, c)]
        /\ \/ /\ out' = [out EXCEPT ![c] = Append(@, "subscribed")]
              /\ window' = [window EXCEPT ![c].opened = TRUE]
              /\ stack' = Append(Rest, Frame("greeted", c, ""))
              /\ UNCHANGED lost
           \/ /\ lost' = lost \cup {c}
              /\ Close(c, [w EXCEPT !.opened = TRUE], Rest)
              /\ UNCHANGED out
  /\ UNCHANGED <<status, server, watermark, place, live, lease, verdict, upstream,
                 history>>

\* Mutant: the window is not checked after subscribed(0).
GreetedUnchecked ==
  /\ At("greeted")
  /\ upstream' = upstream \cup {Top.sub}
  /\ stack' = Append(Rest, Frame("connecting", Top.sub, ""))
  /\ UNCHANGED <<status, server, watermark, registry, verdict, window, history,
                 lost, out>>

\* subscribed(0) is sent: connect to the source, unless the window was closed.
Greeted ==
  /\ At("greeted")
  /\ IF window[Top.sub].closed
     THEN stack' = Rest /\ UNCHANGED upstream
     ELSE /\ upstream' = upstream \cup {Top.sub}
          /\ stack' = Append(Rest, Frame("connecting", Top.sub, ""))
  /\ UNCHANGED <<status, server, watermark, registry, verdict, window, history,
                 lost, out>>

\* The source was subscribed, or threw and Upstreams disconnected it.
Connected ==
  /\ At("connecting")
  /\ \/ /\ stack' = Rest
        /\ UNCHANGED upstream
     \/ /\ stack' = IF Top.sub \in upstream
                    THEN Append(Rest, Frame("failed", Top.sub, ""))
                    ELSE Append(Rest, Frame("failing", Top.sub, ""))
        /\ upstream' = upstream \ {Top.sub}
  /\ UNCHANGED <<status, server, watermark, registry, verdict, window, history,
                 lost, out>>

\* The error of connect(), or of an output that fails its schema once
\* validation-failed is recorded, ends the subscription.
Failed ==
  /\ At("failed") \/ At("failing")
  /\ Terminate(Top.sub, "error", Rest)
  /\ UNCHANGED <<status, server, watermark, registry, verdict, history>>

\* A send returns; after a terminal, #send closes the subscription.
Sent ==
  /\ At("sent")
  /\ IF Top.arg \in Terminals THEN Close(Top.sub, window[Top.sub], Rest)
                              ELSE stack' = Rest /\ UNCHANGED window
  /\ UNCHANGED <<status, server, watermark, registry, verdict, upstream, history,
                 lost, out>>

\* The teardown of the source returns into #terminate, which sends the terminal
\* the window handed out.
Detached ==
  /\ At("detached")
  /\ IF Top.arg \in Terminals
     THEN Send(Top.sub, Top.arg, window[Top.sub], Rest)
     ELSE stack' = Rest /\ UNCHANGED <<window, out, lost>>
  /\ UNCHANGED <<status, server, watermark, registry, verdict, upstream, history>>

\* #close, after subscription-closed is recorded: give the slot back, then call
\* the abort listeners of the source's context.
Closing ==
  /\ At("closing")
  /\ Forget(Top.sub)
  /\ stack' = Append(Rest, Frame("aborting", Top.sub, ""))
  /\ UNCHANGED <<status, server, watermark, verdict, window, upstream, history,
                 lost, out>>

\* Mutant: #close leaves the source connected.
AbortingOnly ==
  /\ At("aborting")
  /\ stack' = Rest
  /\ UNCHANGED <<status, server, watermark, registry, verdict, window, upstream,
                 history, lost, out>>

Aborting ==
  /\ At("aborting")
  /\ upstream' = upstream \ {Top.sub}
  /\ stack' = IF Top.sub \in upstream THEN Append(Rest, Frame("done", Top.sub, ""))
              ELSE Rest
  /\ UNCHANGED <<status, server, watermark, registry, verdict, window, history,
                 lost, out>>

-----------------------------------------------------------------------------
\* #next: a value of the source is parsed with the schema of the application,
\* unless the window takes no more.
Emit(c) ==
  /\ MayCall("emit")
  /\ c \in upstream
  /\ Accepting(window[c])
  /\ Len(out[c]) < MaxMessages
  /\ stack' = Append(stack, Frame("parsing", c, ""))
  /\ UNCHANGED <<status, server, watermark, registry, verdict, window, upstream,
                 history, lost, out>>

\* The value is parsed: the window, which may have changed meanwhile, accepts it.
Parsed ==
  LET c == Top.sub
      w == window[c]
  IN
  /\ At("parsing")
  /\ \/ /\ ~Accepting(w)
        /\ stack' = Rest
        /\ UNCHANGED <<upstream, window, lost, out>>
     \/ /\ Accepting(w) /\ ~w.inFlight
        /\ Send(c, "batch", [w EXCEPT !.inFlight = TRUE], Rest)
        /\ UNCHANGED upstream
     \/ /\ Accepting(w) /\ w.inFlight
        /\ window' = [window EXCEPT ![c].queued = TRUE]
        /\ stack' = Rest
        /\ UNCHANGED <<upstream, lost, out>>
     \/ \* the buffer was full, and its policy is error
        /\ w.queued
        /\ Terminate(c, "error", Rest)
     \/ \* the value fails the schema, which is recorded
        /\ stack' = Append(Rest, Frame("failed", c, ""))
        /\ UNCHANGED <<upstream, window, lost, out>>
  /\ UNCHANGED <<status, server, watermark, registry, verdict, history>>

\* The source completes or fails.
End(c, terminal) ==
  /\ MayCall("end")
  /\ c \in upstream
  /\ Terminate(c, terminal, stack)
  /\ UNCHANGED <<status, server, watermark, registry, verdict, history>>

\* control(): an acknowledgement of the batch in flight.
Ack(c) ==
  LET w == window[c] IN
  /\ MayCall("ack")
  /\ status[SessionOf(c)] = "current" /\ ~disposed
  /\ place[c] = "consumer"
  /\ w.inFlight /\ ~w.closed /\ ~w.concluded
  /\ \/ /\ w.queued
        /\ Send(c, "batch", [w EXCEPT !.queued = FALSE], stack)
     \/ /\ ~w.queued /\ w.terminal # "none"
        /\ Send(c, w.terminal, [w EXCEPT !.inFlight = FALSE, !.concluded = TRUE],
                stack)
     \/ /\ ~w.queued /\ w.terminal = "none"
        /\ window' = [window EXCEPT ![c].inFlight = FALSE]
        /\ UNCHANGED <<stack, out, lost>>
  /\ UNCHANGED <<status, server, watermark, registry, verdict, upstream, history>>

\* control(): an unsubscribe, of a pending subscription or of a consumer.
Unsubscribe(c) ==
  /\ MayCall("unsubscribe")
  /\ status[SessionOf(c)] = "current" /\ ~disposed
  /\ place[c] # "none"
  /\ left' = left \cup {c}
  /\ \/ /\ place[c] = "pending"
        /\ Forget(c)
        /\ stack' = Append(stack, Frame("done", c, ""))
        /\ UNCHANGED window
     \/ /\ place[c] = "consumer"
        /\ Close(c, window[c], stack)
        /\ UNCHANGED registry
  /\ UNCHANGED <<status, server, watermark, verdict, upstream, requested, lost, out>>

-----------------------------------------------------------------------------
\* DocumentSessions.#retire, up to the session-closed diagnostics.
Retiring(s, reason, below) ==
  /\ status' = [status EXCEPT ![s] = "closing"]
  /\ stack' = Append(below, Frame("retiring", <<s, 0>>, reason))

Retire(s, reason) ==
  /\ MayCall("retire")
  /\ ~disposed
  /\ status[s] = "current"
  /\ Retiring(s, reason, stack)
  /\ UNCHANGED <<server, watermark, registry, verdict, window, upstream, history,
                 lost, out>>

\* The reason is set first, then the listeners run.
Retired ==
  /\ At("retiring")
  /\ status' = [status EXCEPT ![SessionOf(Top.sub)] = Top.arg]
  /\ stack' = Append(Rest, Frame("dispatching", Top.sub, Top.arg))
  /\ UNCHANGED <<server, watermark, registry, verdict, window, upstream, history,
                 lost, out>>

\* The abort event calls the listeners still registered, in their order, each
\* once (addEventListener with once).
Dispatch ==
  LET s == SessionOf(Top.sub)
      c == Head(listeners[s])
  IN
  /\ At("dispatching")
  /\ \/ /\ listeners[s] = <<>>
        /\ stack' = Rest
        /\ UNCHANGED <<registry, window, lost, out>>
     \/ /\ listeners[s] # <<>>
        /\ place[c] = "pending"
        /\ OnRetirePending(c, stack)
     \/ /\ listeners[s] # <<>>
        /\ place[c] # "pending"
        /\ listeners' = [listeners EXCEPT ![s] = Tail(@)]
        /\ OnRetireConsumer(c, stack)
        /\ UNCHANGED <<place, live, lease>>
  /\ UNCHANGED <<status, server, watermark, verdict, upstream, history>>

\* server.dispose(): retire the current sessions one after the other, then close
\* what is left.
Dispose ==
  /\ MayCall("dispose")
  /\ ~disposed
  /\ disposed' = TRUE
  /\ stack' = Append(stack, Frame("disposing", <<0, 0>>, ""))
  /\ UNCHANGED <<hasAuthorize, status, watermark, registry, verdict, window, upstream,
                 history, lost, out>>

Least(S) == CHOOSE x \in S : \A y \in S : x <= y

DisposeSessions ==
  LET current == {s \in Sessions : status[s] = "current"} IN
  /\ At("disposing")
  /\ IF current # {}
     THEN Retiring(Least(current), "dispose", stack)
     ELSE /\ stack' = Append(Rest, Frame("sweeping", <<0, 0>>, ""))
          /\ UNCHANGED status
  /\ UNCHANGED <<server, watermark, registry, verdict, window, upstream, history,
                 lost, out>>

\* Subscriptions.dispose(), one entry at a time, session by session: the pending
\* entries give their slot back and are aborted, then leave the map together;
\* then the consumers are closed.
Unswept(c) ==
  /\ SessionOf(c) \in live
  /\ place[c] = "pending" \/ (place[c] = "consumer" /\ ~window[c].closed)

Sweep ==
  LET s == Least({SessionOf(c) : c \in {d \in Subs : Unswept(d)}})
      waiting == {c \in HeldBy(s) : place[c] = "pending"}
      pending == {c \in Subs : SessionOf(c) = s /\ place[c] = "pending"}
      first(S) == CHOOSE c \in S : \A d \in S : IdOf(c) <= IdOf(d)
  IN
  /\ At("sweeping")
  /\ \/ /\ \A c \in Subs : ~Unswept(c)
        /\ stack' = Rest
        /\ UNCHANGED <<registry, window>>
     \/ /\ \E c \in Subs : Unswept(c)
        /\ waiting # {}
        /\ lease' = [lease EXCEPT ![first(waiting)] = "released"]
        /\ listeners' = Unheard(first(waiting))
        /\ stack' = Append(stack, Frame("done", first(waiting), ""))
        /\ UNCHANGED <<place, live, window>>
     \/ /\ \E c \in Subs : Unswept(c)
        /\ waiting = {} /\ pending # {}
        /\ place' = [c \in Subs |-> IF c \in pending THEN "none" ELSE place[c]]
        /\ UNCHANGED <<live, lease, listeners, window, stack>>
     \/ /\ \E c \in Subs : Unswept(c)
        /\ pending = {}
        /\ LET c == first({d \in Subs : SessionOf(d) = s /\ Unswept(d)})
           IN Close(c, window[c], stack)
        /\ UNCHANGED registry
  /\ UNCHANGED <<status, server, watermark, verdict, upstream, history, lost, out>>

-----------------------------------------------------------------------------
\* The innermost call goes on.
Return ==
  \/ Established \/ Refuse \/ Noticed \/ Done
  \/ Authorizing \/ Denying \/ Opened \/ Greeted \/ Connected \/ Failed
  \/ Sent \/ Parsed \/ Detached \/ Closing \/ Aborting
  \/ Retired \/ Dispatch \/ DisposeSessions \/ Sweep

Next ==
  \/ Return
  \/ \E c \in Subs :
       \/ Subscribe(c)
       \/ \E v \in {"allowed", "denied", "rejected"} : Settle(c, v)
       \/ Decide(c)
       \/ Emit(c)
       \/ \E terminal \in {"complete", "error"} : End(c, terminal)
       \/ Ack(c)
       \/ Unsubscribe(c)
  \/ \E s \in Sessions, reason \in Reasons \ {"dispose"} : Retire(s, reason)
  \/ Dispose

Spec == Init /\ [][Next]_vars

-----------------------------------------------------------------------------
Idle == stack = <<>>
OpenIn(s) == {c \in Subs : SessionOf(c) = s /\ place[c] # "none"}

TypeOK ==
  /\ status \in [Sessions -> {"fresh", "current", "closing"} \cup AllReasons]
  /\ hasAuthorize \in AuthorizeOptions /\ disposed \in BOOLEAN
  /\ watermark \in [Sessions -> 0 .. NumIds]
  /\ place \in [Subs -> {"none", "pending", "consumer"}]
  /\ live \subseteq Sessions
  /\ lease \in [Subs -> {"none", "held", "released"}]
  /\ listeners \in [Sessions -> Seq(Subs)]
  /\ verdict \in [Subs -> {"none", "waiting", "allowed", "rejected", "cancelled"}]
  /\ window \in [Subs -> [closed : BOOLEAN, concluded : BOOLEAN, inFlight : BOOLEAN,
                          queued : BOOLEAN, opened : BOOLEAN,
                          terminal : {"none", "complete", "error"}]]
  /\ upstream \subseteq Subs
  /\ \A i \in 1 .. Len(stack) : DOMAIN stack[i] = {"at", "sub", "arg"}
  /\ requested \subseteq Subs /\ left \subseteq Subs /\ lost \subseteq Subs
  /\ out \in [Subs -> Seq({"subscribed", "batch"} \cup Terminals)]

\* A slot is taken for exactly the subscriptions in the pending and consumer maps,
\* at every point where the code calls out, so that no interleaving of refusal,
\* unsubscribe, failure, retirement and dispose leaks a slot or frees it twice; only
\* dispose() gives the slots of pending subscriptions back before it clears the map.
\* Between two events liveStates holds the sessions that own a subscription, and no
\* other, until dispose() clears maps without looking at it.
SlotsMatchEntries ==
  /\ \A c \in Subs :
       /\ lease[c] = "held" => place[c] # "none"
       /\ place[c] # "none" /\ lease[c] # "held" =>
            place[c] = "pending" /\ \E i \in DOMAIN stack : stack[i].at = "sweeping"
  /\ Idle /\ ~disposed => live = {s \in Sessions : OpenIn(s) # {}}

\* What a Renderer hears of one subscription: subscribed once and first, and
\* nothing after a terminal, even when the terminal of the source, a retirement
\* and an unsubscribe overtake each other.
MessageProtocol ==
  \A c \in Subs : \A i \in 1 .. Len(out[c]) :
    /\ out[c][i] = "subscribed" <=> i = 1
    /\ out[c][i] \in Terminals => i = Len(out[c])

\* Between two events, a source is connected exactly for the consumers that still
\* take values, and no consumer outlives its terminal or its window.
SourcesFollowConsumers ==
  Idle => \A c \in Subs :
    /\ c \in upstream <=> place[c] = "consumer" /\ Accepting(window[c])
    /\ place[c] = "consumer" => ~window[c].closed /\ ~window[c].concluded

\* A retired session keeps nothing: no entry, no slot, no source, no listener.
NothingLeftBehind ==
  Idle => \A s \in Sessions : RetireReason(s) # "none" =>
    /\ OpenIn(s) = {} /\ HeldBy(s) = {} /\ listeners[s] = <<>>
    /\ \A c \in upstream : SessionOf(c) # s

\* When the document outlives its session (detach, dispose), every subscription
\* that was accepted and neither unsubscribed nor cut off hears its end.  A detach is
\* not counted once the server is disposed: dispose() may have ended the subscriptions
\* of a session whose detach was in progress without a word.
EveryoneIsTold ==
  Idle => \A c \in Subs :
    /\ RetireReason(SessionOf(c)) \in {"detach", "dispose"}
    /\ RetireReason(SessionOf(c)) = "detach" => ~disposed
    /\ lease[c] # "none" /\ c \notin left /\ c \notin lost
    => out[c] # <<>> /\ out[c][Len(out[c])] \in Terminals

\* No user source is subscribed for a session that has been retired, whenever the
\* retirement slips in between authorize, the diagnostics and the sends.
NoSourceForRetired ==
  [][\A c \in upstream' \ upstream : RetireReason(SessionOf(c)) = "none"]_vars

\* The maps, the slots and the live sessions, which many paths change one by one, agree
\* at every point where user code can look at them.
SlotsAndMaps == TypeOK /\ SlotsMatchEntries

\* A source is released when its consumer ends, by whichever of its ends comes first,
\* and nothing of a session survives it.
SourcesEnd == SourcesFollowConsumers /\ NothingLeftBehind
=============================================================================
