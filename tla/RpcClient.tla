------------------------------ MODULE RpcClient ------------------------------
(***************************************************************************)
(* renderer/rpc-client.ts with the lifetime of renderer/api-lifetime.ts:   *)
(* the RPC calls of one Renderer API, from call() to the settled promise.  *)
(*                                                                         *)
(* A response, the transport, the timeout, the caller's signal and the     *)
(* disposal of the API race to settle a call; the first cause wins, and    *)
(* Main is told when the Renderer gave up a call it had sent.              *)
(*                                                                         *)
(* The diagnostics sink, transport.invoke and transport.cancel run inside  *)
(* these steps and may call the API, abort a signal or dispose.  `stack'   *)
(* holds the calls in progress, the innermost last.  The options of a call *)
(* are plain data: reading them runs no code.                              *)
(***************************************************************************)
EXTENDS Integers, Sequences, FiniteSets, SequencesExt

CONSTANTS
  NumCalls,       \* how many calls are made
  NumSignals,     \* how many AbortSignals they use; fewer are shared
  OutsideCalls,   \* the calls made back from inside an outside call
  MaxDepth        \* bound: no such call is made inside this many outside calls

ASSUME CallsAssumption == NumCalls \in Nat /\ NumSignals \in Nat \ {0}
ASSUME OutsideAssumption == OutsideCalls \subseteq {"call", "abort", "dispose"}
ASSUME DepthAssumption == MaxDepth \in Nat

Calls == 1 .. NumCalls
Signals == 1 .. NumSignals
SignalOf(d) == ((d - 1) % NumSignals) + 1

VARIABLES
  apiDisposed,  \* ApiLifetime: dispose() was called
  aborted,    \* the signals that are aborted
  phase,      \* call -> "new", "open", or "closed": its finally has run
  settled,    \* the calls whose settlement has begun
  sent,       \* the calls handed to transport.invoke
  timer,      \* the calls whose timer runs
  listening,  \* the calls that listen to their signal
  pending,    \* the calls that dispose() settles
  waiting,    \* the calls whose invoke returned a promise that is unsettled
  recorded,   \* call -> the causes the sink was told, in order
  result,     \* call -> its promise: "none", "resolved" or "rejected"
  messages,   \* call -> what the transport was told of it, in order
  stack       \* the calls in progress

clientVars == <<apiDisposed, aborted, phase, settled, sent, timer, listening, pending,
                waiting, recorded, result, messages, stack>>

\* The causes that give a call up in the Renderer, and those that answer it.
GivenUp == {"aborted", "deadline", "disposed"}
Replies == {"ok", "remote-error", "malformed-response", "transport-failed"}
Refusals == {"disposed", "aborted", "invalid-options"}

ClientInit ==
  /\ apiDisposed = FALSE
  /\ aborted = {}
  /\ phase = [d \in Calls |-> "new"]
  /\ settled = {}
  /\ sent = {}
  /\ timer = {}
  /\ listening = {}
  /\ pending = {}
  /\ waiting = {}
  /\ recorded = [d \in Calls |-> <<>>]
  /\ result = [d \in Calls |-> "none"]
  /\ messages = [d \in Calls |-> <<>>]
  /\ stack = <<>>

\* A call in progress about call `d'; a sweep has the calls `rest' still to settle, in
\* the order in which they were made.
Frame(at, d, cause, rest) == [at |-> at, call |-> d, cause |-> cause, rest |-> rest]
Sweep(cause, calls) == Frame("sweeping", 0, cause, calls)

Top == stack[Len(stack)]
Rest == SubSeq(stack, 1, Len(stack) - 1)
At(point) == stack # <<>> /\ Top.at = point
Idle == stack = <<>>

MayCallBack(call) ==
  \/ Idle
  \/ /\ ~Idle /\ Top.at # "sweeping"
     /\ call \in OutsideCalls
     /\ Cardinality({i \in DOMAIN stack : stack[i].at # "sweeping"}) < MaxDepth

-----------------------------------------------------------------------------
\* Mutant: the settlement is not claimed first.
SettleUnclaimed(d, cause, below) ==
  /\ settled' = settled \cup {d}
  /\ recorded' = [recorded EXCEPT ![d] = Append(@, cause)]
  /\ stack' = Append(below, Frame("recording", d, cause, {}))

\* rejectOnce, resolveOnce and cancelOnce up to the sink: only the first cause
\* gets through beginSettlement.
Settle(d, cause, below) ==
  IF d \in settled
  THEN stack' = below /\ UNCHANGED <<settled, recorded>>
  ELSE /\ settled' = settled \cup {d}
       /\ recorded' = [recorded EXCEPT ![d] = Append(@, cause)]
       /\ stack' = Append(below, Frame("recording", d, cause, {}))

\* The promise of a call settles, which it does once.
Conclude(d, cause) ==
  /\ result' = [result EXCEPT ![d] =
       IF @ # "none" THEN @ ELSE IF cause = "ok" THEN "resolved" ELSE "rejected"]
  /\ stack' = Rest

\* call() does not open a call once the API is disposed, on an aborted signal or
\* with a bad timeout.
RefuseCall(d) ==
  /\ \E cause \in Refusals :
       /\ (cause = "disposed") = apiDisposed
       /\ ~apiDisposed => (cause = "aborted") = (SignalOf(d) \in aborted)
       /\ Settle(d, cause, stack)
  /\ phase' = [phase EXCEPT ![d] = "closed"]
  /\ UNCHANGED <<sent, timer, listening, pending, messages>>

\* call(), up to transport.invoke; without a timer when the timeout is Infinity.
OpenCall(d) ==
  /\ ~apiDisposed /\ SignalOf(d) \notin aborted
  /\ phase' = [phase EXCEPT ![d] = "open"]
  /\ pending' = pending \cup {d}
  /\ listening' = listening \cup {d}
  /\ timer' \in {timer, timer \cup {d}}
  /\ sent' = sent \cup {d}
  /\ messages' = [messages EXCEPT ![d] = Append(@, "invoke")]
  /\ stack' = Append(stack, Frame("invoking", d, "none", {}))
  /\ UNCHANGED <<settled, recorded>>

Call(d) ==
  /\ MayCallBack("call")
  /\ phase[d] = "new"
  /\ \A e \in 1 .. d - 1 : phase[e] # "new"
  /\ RefuseCall(d) \/ OpenCall(d)
  /\ UNCHANGED <<apiDisposed, aborted, waiting, result>>

\* transport.invoke returns a promise, or throws.
Invoked ==
  /\ At("invoking")
  /\ \/ /\ waiting' = waiting \cup {Top.call}
        /\ stack' = Rest
        /\ UNCHANGED <<settled, recorded>>
     \/ /\ Settle(Top.call, "transport-failed", Rest)
        /\ UNCHANGED waiting
  /\ UNCHANGED <<apiDisposed, aborted, phase, sent, timer, listening, pending, result,
                 messages>>

\* The sink has heard of the settlement.  cancelOnce goes on to tell Main, if Main
\* was sent the request; the others settle the promise.
Recorded ==
  LET d == Top.call IN
  /\ At("recording")
  /\ IF Top.cause \in GivenUp /\ d \in sent
     THEN /\ messages' = [messages EXCEPT ![d] = Append(@, "cancel")]
          /\ stack' = Append(Rest, [Top EXCEPT !.at = "cancelling"])
          /\ UNCHANGED result
     ELSE Conclude(d, Top.cause) /\ UNCHANGED messages
  /\ UNCHANGED <<apiDisposed, aborted, phase, settled, sent, timer, listening, pending,
                 waiting, recorded>>

\* transport.cancel returns; or it throws, and the sink hears of that first.
Cancelled ==
  /\ \/ At("cancelling") /\ Conclude(Top.call, Top.cause)
     \/ At("reporting") /\ Conclude(Top.call, Top.cause)
     \/ /\ At("cancelling")
        /\ stack' = Append(Rest, [Top EXCEPT !.at = "reporting"])
        /\ UNCHANGED result
  /\ UNCHANGED <<apiDisposed, aborted, phase, settled, sent, timer, listening, pending,
                 waiting, recorded, messages>>

-----------------------------------------------------------------------------
\* The promise of invoke settles: a result, an error of Main, something that is not
\* the response of this request, or a rejection.
Respond(d) ==
  /\ Idle
  /\ d \in waiting
  /\ waiting' = waiting \ {d}
  /\ \E cause \in Replies : Settle(d, cause, stack)
  /\ UNCHANGED <<apiDisposed, aborted, phase, sent, timer, listening, pending, result,
                 messages>>

\* The microtask after a settled promise: timer and listeners are removed.
Settled == {d \in Calls : phase[d] = "open" /\ result[d] # "none"}

Finally(d) ==
  /\ Idle
  /\ d \in Settled
  /\ phase' = [phase EXCEPT ![d] = "closed"]
  /\ timer' = timer \ {d}
  /\ listening' = listening \ {d}
  /\ pending' = pending \ {d}
  /\ UNCHANGED <<apiDisposed, aborted, settled, sent, waiting, recorded, result,
                 messages, stack>>

\* Mutant: the timer fires but does not settle the call.
DeadlineSilent(d) ==
  /\ Idle /\ Settled = {}
  /\ d \in timer
  /\ timer' = timer \ {d}
  /\ UNCHANGED <<apiDisposed, aborted, phase, settled, sent, listening, pending, waiting,
                 recorded, result, messages, stack>>

\* The timer fires, which microtasks come before.
Deadline(d) ==
  /\ Idle /\ Settled = {}
  /\ d \in timer
  /\ timer' = timer \ {d}
  /\ Settle(d, "deadline", stack)
  /\ UNCHANGED <<apiDisposed, aborted, phase, sent, listening, pending, waiting,
                 result, messages>>

\* The caller aborts a signal, which calls the listeners it has then.
Abort(s) ==
  /\ MayCallBack("abort")
  /\ s \notin aborted
  /\ aborted' = aborted \cup {s}
  /\ stack' = Append(stack, Sweep("aborted", {d \in listening : SignalOf(d) = s}))
  /\ UNCHANGED <<apiDisposed, phase, settled, sent, timer, listening, pending, waiting,
                 recorded, result, messages>>

\* ApiLifetime.dispose: the flag, then settleAllAsDisposed.  The streams are closed
\* after that, which changes nothing here.
DisposeApi ==
  /\ MayCallBack("dispose")
  /\ ~apiDisposed
  /\ apiDisposed' = TRUE
  /\ pending' = {}
  /\ stack' = Append(stack, Sweep("disposed", pending))
  /\ UNCHANGED <<aborted, phase, settled, sent, timer, listening, waiting, recorded,
                 result, messages>>

\* The next listener of a sweep; one of a signal is called once.
SweepOn ==
  /\ At("sweeping")
  /\ IF Top.rest = {}
     THEN stack' = Rest /\ UNCHANGED <<settled, recorded, listening>>
     ELSE LET d == Min(Top.rest) IN
          /\ Settle(d, Top.cause, Append(Rest, [Top EXCEPT !.rest = @ \ {d}]))
          /\ listening' = IF Top.cause = "aborted" THEN listening \ {d} ELSE listening
  /\ UNCHANGED <<apiDisposed, aborted, phase, sent, timer, pending, waiting, result,
                 messages>>

-----------------------------------------------------------------------------
Return == Invoked \/ Recorded \/ Cancelled \/ SweepOn

ClientNext ==
  \/ Return
  \/ \E d \in Calls : Call(d) \/ Respond(d) \/ Finally(d) \/ Deadline(d)
  \/ \E s \in Signals : Abort(s)
  \/ DisposeApi

ClientSpec == ClientInit /\ [][ClientNext]_clientVars

\* Outside calls return, microtasks run and timers fire; a response may never come.
ClientFairSpec ==
  /\ ClientSpec
  /\ WF_clientVars(Return)
  /\ \A d \in Calls : WF_clientVars(Finally(d)) /\ WF_clientVars(Deadline(d))

-----------------------------------------------------------------------------
Records(d) == {recorded[d][i] : i \in DOMAIN recorded[d]}
GaveUp(d) == SignalOf(d) \in aborted \/ apiDisposed

ClientTypeOK ==
  /\ apiDisposed \in BOOLEAN
  /\ aborted \subseteq Signals
  /\ phase \in [Calls -> {"new", "open", "closed"}]
  /\ \A set \in {settled, sent, timer, listening, pending, waiting} : set \subseteq Calls
  /\ recorded \in [Calls -> Seq(GivenUp \cup Replies \cup Refusals)]
  /\ result \in [Calls -> {"none", "resolved", "rejected"}]
  /\ messages \in [Calls -> Seq({"invoke", "cancel"})]
  /\ \A i \in DOMAIN stack :
       stack[i].at \in {"invoking", "recording", "cancelling", "reporting", "sweeping"}

\* Whatever races to settle a call, one cause is recorded, and the promise agrees
\* with it; and the request is cancelled in Main, once and after it was sent, if
\* and only if it was the Renderer that gave it up.
OneOutcome ==
  \A d \in Calls :
    /\ Len(recorded[d]) <= 1
    /\ result[d] # "none" => ((result[d] = "resolved") = (recorded[d] = <<"ok">>))
    /\ messages[d] \in {<<>>, <<"invoke">>, <<"invoke", "cancel">>}
    /\ Idle /\ recorded[d] # <<>> =>
         /\ result[d] # "none"
         /\ messages[d] # <<>> =>
              ((Records(d) \subseteq GivenUp) = (messages[d] = <<"invoke", "cancel">>))

\* When nothing is going on, no call that its signal or dispose() gave up waits for
\* Main; and a call that is over holds no timer, listener or entry.
NothingLeft ==
  Idle => \A d \in Calls :
    /\ phase[d] = "open" /\ GaveUp(d) => d \in settled
    /\ phase[d] = "closed" => d \in settled /\ d \notin timer \cup listening \cup pending

\* A call with a timeout, and one that was given up, ends even if Main never answers.
EveryCallEnds ==
  \A d \in Calls :
    phase[d] = "open" /\ (d \in timer \/ GaveUp(d)) ~> phase[d] = "closed"

\* A call is settled once, by one of the causes that race for it, and leaves nothing.
SettledOnce == ClientTypeOK /\ OneOutcome /\ NothingLeft
=============================================================================
