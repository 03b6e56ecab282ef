----------------------------- MODULE RpcRequests -----------------------------
(***************************************************************************)
(* main/rpc-requests.ts, with the authorize step of main/authorization.ts  *)
(* and the slots of main/session-slots.ts: the requests of one document    *)
(* session, from their arrival to the response and the end of their work.  *)
(*                                                                         *)
(* A request is answered by its work or by the server deadline, whichever  *)
(* comes first; a cancel, a duplicate request id and the end of the        *)
(* session abort it; and its slot stays taken until the work has really    *)
(* ended.  The code calls out synchronously (diagnostics sink, authorize,  *)
(* handler, abort listeners) and may be called again from there: `stack'   *)
(* holds the calls in progress, the innermost last.                        *)
(***************************************************************************)
EXTENDS Integers, SequencesExt

CONSTANTS
  NumCalls,          \* how many requests arrive
  NumIds,            \* how many request ids they use; fewer make duplicates
  MaxConcurrentRpc,  \* ResourceLimits.maxConcurrentRpc: slots of the session
  AuthorizeOptions,  \* the servers considered: with an authorize function, without
  DeadlineOptions,   \* and with a finite maxRpcDurationMs, without
  ReentrantCalls,    \* the calls made back from inside an external call
  MaxDepth           \* bound: no such call is made from so many nested outside calls

ASSUME CallsAssumption == NumCalls \in Nat /\ NumIds \in Nat \ {0}
ASSUME LimitAssumption == MaxConcurrentRpc \in Nat \ {0}
ASSUME OptionsAssumption ==
  /\ AuthorizeOptions \subseteq BOOLEAN /\ DeadlineOptions \subseteq BOOLEAN
  /\ ReentrantCalls \subseteq {"dispatch", "cancel", "retire"}
ASSUME DepthAssumption == MaxDepth \in Nat

Calls == 1 .. NumCalls
Ids == 1 .. NumIds
IdOf(d) == ((d - 1) % NumIds) + 1
NoCall == 0

VARIABLES
  hasAuthorize, \* the server was given an authorize function
  hasDeadline,  \* calls have a deadline
  session,    \* "current", "closing" (session-closed is being recorded), "retired"
  active,     \* request id -> the call that cancel reaches, or NoCall
  work,       \* call -> how far its work is
  aborted,    \* the calls whose signal is aborted
  lease,      \* call -> its slot lease
  listeners,  \* the calls listening to the retirement, in order
  timer,      \* the calls whose deadline timer runs
  answer,     \* call -> the response, or "none"
  recorded,   \* call -> the diagnostics about it, in order
  stack       \* the calls in progress

options == <<hasAuthorize, hasDeadline>>
slots == <<lease, listeners>>
vars == <<options, session, active, work, aborted, slots, timer, answer, recorded, stack>>

\* The work of a call: not begun; waiting for authorize; its verdict known;
\* waiting for the handler; the handler's outcome known; its output being checked;
\* ended.
WorkStates == {"new", "begun", "authorizing", "allowed", "refused", "cancelled",
               "running", "succeeded", "failed", "checking", "ended"}
Answers == {"none", "ok", "error", "cancelled", "deadline"}

Frame(at, d, arg) == [at |-> at, call |-> d, arg |-> arg]
Top == stack[Len(stack)]
Rest == SubSeq(stack, 1, Len(stack) - 1)
At(point) == stack # <<>> /\ Top.at = point
Inner == {"beginning", "starting", "arming", "dispatching"}

OutsideDepth == Len(SelectSeq(stack, LAMBDA f : f.at \notin Inner))

MayCall(call) ==
  \/ stack = <<>>
  \/ /\ stack # <<>> /\ Top.at \notin Inner
     /\ call \in ReentrantCalls
     /\ OutsideDepth < MaxDepth

Init ==
  /\ hasAuthorize \in AuthorizeOptions
  /\ hasDeadline \in DeadlineOptions
  /\ session = "current"
  /\ active = [i \in Ids |-> NoCall]
  /\ work = [d \in Calls |-> "new"]
  /\ aborted = {}
  /\ lease = [d \in Calls |-> "none"]
  /\ listeners = <<>>
  /\ timer = {}
  /\ answer = [d \in Calls |-> "none"]
  /\ recorded = [d \in Calls |-> <<>>]
  /\ stack = <<>>

\* The listeners q without the one of call d, which registers once.
Removed(q, d) ==
  IF Contains(q, d) THEN RemoveAt(q, CHOOSE i \in DOMAIN q : q[i] = d) ELSE q

Without(d) == Removed(listeners, d)

Held == {d \in Calls : lease[d] = "held"}

HasSlot == Cardinality(Held) < MaxConcurrentRpc

-----------------------------------------------------------------------------
\* #cancelActive(id): take the call out of the map and abort it, unless the
\* deadline did; the sink hears of it after the abort listeners ran.
CancelActive(id, heard, below) ==
  LET d == active[id] IN
  \/ /\ d = NoCall
     /\ listeners' = heard
     /\ stack' = below
     /\ UNCHANGED <<active, aborted>>
  \/ /\ d # NoCall
     /\ active' = [active EXCEPT ![id] = NoCall]
     /\ listeners' = Removed(heard, d)
     /\ aborted' = aborted \cup {d}
     /\ stack' = IF d \in aborted THEN below
                 ELSE Append(below, Frame("aborting", d, "rpc-cancelled"))

\* The abort listeners return: the cause is recorded.
Aborting ==
  /\ At("aborting")
  /\ recorded' = [recorded EXCEPT ![Top.call] = Append(@, Top.arg)]
  /\ stack' = Append(Rest, Frame(Top.arg, Top.call, ""))
  /\ UNCHANGED <<options, session, active, work, aborted, slots, timer, answer>>

\* The sink returns from rpc-cancelled, or from a refusal without a slot.
Recorded ==
  /\ At("rpc-cancelled") \/ At("rejected")
  /\ stack' = Rest
  /\ answer' = IF Top.at = "rejected"
               THEN [answer EXCEPT ![Top.call] = "error"] ELSE answer
  /\ UNCHANGED <<options, session, active, work, aborted, slots, timer, recorded>>

\* The sink returns from rpc-timed-out: the deadline answers.
TimedOut ==
  /\ At("rpc-timed-out")
  /\ stack' = Rest
  /\ answer' = [answer EXCEPT ![Top.call] = IF @ = "none" THEN "deadline" ELSE @]
  /\ UNCHANGED <<options, session, active, work, aborted, slots, timer, recorded>>

-----------------------------------------------------------------------------
\* dispatch(): an unknown operation and a call beyond the limit are refused
\* before they touch a call in progress; else a call with the same id is
\* cancelled first.
Dispatch(d) ==
  /\ MayCall("dispatch")
  /\ session = "current"
  /\ work[d] = "new"
  /\ \A e \in Calls : e < d => work[e] # "new"
  /\ \/ /\ work' = [work EXCEPT ![d] = "ended"]
        /\ stack' = Append(stack, Frame("rejected", d, ""))
        /\ UNCHANGED <<active, aborted, slots>>
     \/ /\ HasSlot
        /\ work' = [work EXCEPT ![d] = "begun"]
        /\ lease' = [lease EXCEPT ![d] = "held"]
        /\ CancelActive(IdOf(d), listeners,
                        Append(stack, Frame("beginning", d, "")))
  /\ UNCHANGED <<options, session, timer, answer, recorded>>

\* The rest of #begin: enter the map and listen to the retirement, which is
\* heard at once when the session has ended meanwhile.
Begin ==
  LET d == Top.call
      below == Append(Rest, Frame("starting", d, ""))
  IN
  /\ At("beginning")
  /\ IF session = "retired"
     THEN /\ active' = [active EXCEPT ![IdOf(d)] = NoCall]
          /\ aborted' = aborted \cup {d}
          /\ stack' = Append(below, Frame("aborting", d, "rpc-cancelled"))
          /\ UNCHANGED listeners
     ELSE /\ active' = [active EXCEPT ![IdOf(d)] = d]
          /\ listeners' = Append(listeners, d)
          /\ stack' = below
          /\ UNCHANGED aborted
  /\ UNCHANGED <<options, session, work, lease, timer, answer, recorded>>

-----------------------------------------------------------------------------
\* Mutant: the entry of a younger call with the same id is removed.
FinishById(d) == [active EXCEPT ![IdOf(d)] = NoCall]

\* #finish(): the entry goes only if it still is the one of this call.
FinishOwn(d) == [i \in Ids |-> IF active[i] = d THEN NoCall ELSE active[i]]

\* The work of a call ends: #finish, the slot given back, rpc-finished recorded.
EndWork(d, response, below) ==
  /\ active' = FinishOwn(d)
  /\ lease' = [lease EXCEPT ![d] = "released"]
  /\ listeners' = Without(d)
  /\ work' = [work EXCEPT ![d] = "ended"]
  /\ recorded' = [recorded EXCEPT ![d] = Append(@, "rpc-finished")]
  /\ stack' = Append(below, Frame("finishing", d, response))

Finished ==
  /\ At("finishing")
  /\ answer' = [answer EXCEPT ![Top.call] = IF @ = "none" THEN Top.arg ELSE @]
  /\ stack' = Rest
  /\ UNCHANGED <<options, session, active, work, aborted, slots, timer, recorded>>

CancelledIfAborted(d, response) == IF d \in aborted THEN "cancelled" ELSE response

\* The work goes no further for now, or waits for the sink (point) before it ends.
Suspend(d, state, point, below) ==
  /\ work' = [work EXCEPT ![d] = state]
  /\ stack' = IF point = "" THEN below ELSE Append(below, Frame(point, d, ""))
  /\ UNCHANGED <<active, slots, recorded>>

\* #runRegistered: the input schema of the application is called first.
RunRegistered(d, below) == Suspend(d, "begun", "parsing", below)

\* An input that fails its checks is refused, as cancelled if the call was; a good
\* one goes to the handler.
Parsed ==
  LET d == Top.call IN
  /\ At("parsing")
  /\ \/ Suspend(d, "begun", "handling", Rest)
     \/ d \in aborted /\ EndWork(d, "cancelled", Rest)
     \/ d \notin aborted /\ Suspend(d, "begun", "refusing", Rest)
  /\ UNCHANGED <<options, session, aborted, timer, answer>>

\* Mutant: the signal is not looked at after the handler.
OutcomeUnchecked(d, result, below) ==
  \/ /\ result = "failed"
     /\ EndWork(d, CancelledIfAborted(d, "error"), below)
  \/ /\ result = "succeeded"
     /\ Suspend(d, "checking", "checking", below)

\* #runRegistered, after the handler, up to the output schema.
Outcome(d, result, below) ==
  \/ d \in aborted /\ EndWork(d, "cancelled", below)
  \/ /\ d \notin aborted /\ result = "failed"
     /\ EndWork(d, "error", below)
  \/ /\ d \notin aborted /\ result = "succeeded"
     /\ Suspend(d, "checking", "checking", below)

\* A bad output is recorded as validation-failed; a good one is not held against
\* the signal again.
Checked ==
  /\ At("checking")
  /\ \/ EndWork(Top.call, "ok", Rest)
     \/ Suspend(Top.call, "checking", "invalidating", Rest)
  /\ UNCHANGED <<options, session, aborted, timer, answer>>

\* The work starts: authorize is called, or without one the handler.
Start ==
  LET d == Top.call
      below == Append(Rest, Frame("arming", d, ""))
  IN
  /\ At("starting")
  /\ \/ hasAuthorize /\ Suspend(d, "begun", "asking", below)
     \/ ~hasAuthorize /\ d \in aborted /\ EndWork(d, "cancelled", below)
     \/ ~hasAuthorize /\ d \notin aborted /\ RunRegistered(d, below)
  /\ UNCHANGED <<options, session, aborted, timer, answer>>

\* Mutant: the deadline covers the handler, and not authorize.
ArmHandler ==
  /\ At("arming")
  /\ timer' = IF hasDeadline /\ work[Top.call] = "running"
              THEN timer \cup {Top.call} ELSE timer
  /\ stack' = Rest
  /\ UNCHANGED <<options, session, active, work, aborted, slots, answer, recorded>>

\* dispatch() goes on when the work first waits: the deadline starts.
Arm ==
  /\ At("arming")
  /\ timer' = IF hasDeadline /\ answer[Top.call] = "none"
              THEN timer \cup {Top.call} ELSE timer
  /\ stack' = Rest
  /\ UNCHANGED <<options, session, active, work, aborted, slots, answer, recorded>>

\* An outside call made by the work returns: authorize, the handler, or the sink
\* that heard of a denial, a bad input or a bad output.
Asked ==
  /\ At("asking")
  /\ Suspend(Top.call, "authorizing", "", Rest)
  /\ UNCHANGED <<options, session, aborted, timer, answer>>

Handled ==
  /\ At("handling")
  /\ \/ Suspend(Top.call, "running", "", Rest)
     \/ Outcome(Top.call, "failed", Rest)
  /\ UNCHANGED <<options, session, aborted, timer, answer>>

Denied ==
  /\ At("denying")
  /\ Suspend(Top.call, "refused", "", Rest)
  /\ UNCHANGED <<options, session, aborted, timer, answer>>

Refused ==
  /\ At("refusing")
  /\ EndWork(Top.call, "error", Rest)
  /\ UNCHANGED <<options, session, aborted, timer, answer>>

Invalidated ==
  /\ At("invalidating")
  /\ EndWork(Top.call, CancelledIfAborted(Top.call, "error"), Rest)
  /\ UNCHANGED <<options, session, aborted, timer, answer>>

-----------------------------------------------------------------------------
\* The promise of authorize() settles: settle() of authorization.ts.
Settle(d) ==
  /\ stack = <<>>
  /\ work[d] = "authorizing"
  /\ \/ d \in aborted /\ Suspend(d, "cancelled", "", stack)
     \/ d \notin aborted /\ Suspend(d, "allowed", "", stack)
     \/ d \notin aborted /\ Suspend(d, "refused", "", stack)
     \/ d \notin aborted /\ Suspend(d, "authorizing", "denying", stack)
  /\ UNCHANGED <<options, session, aborted, timer, answer>>

\* The promise of the handler settles.
HandlerSettles(d) ==
  /\ stack = <<>>
  /\ work[d] = "running"
  /\ \E result \in {"succeeded", "failed"} : Suspend(d, result, "", stack)
  /\ UNCHANGED <<options, session, aborted, timer, answer>>

\* The work goes on after an await, in a microtask.
Resumable == {d \in Calls : work[d] \in {"allowed", "refused", "cancelled",
                                         "succeeded", "failed"}}
Resume(d) ==
  /\ stack = <<>>
  /\ \/ work[d] = "allowed" /\ RunRegistered(d, stack)
     \/ work[d] = "refused" /\ EndWork(d, "error", stack)
     \/ work[d] = "cancelled" /\ EndWork(d, "cancelled", stack)
     \/ work[d] \in {"succeeded", "failed"} /\ Outcome(d, work[d], stack)
  /\ UNCHANGED <<options, session, aborted, timer, answer>>

\* Mutant: the timer gives the slot back although the work goes on.
DeadlineReleasing(d) ==
  /\ stack = <<>> /\ Resumable = {}
  /\ d \in timer /\ answer[d] = "none"
  /\ timer' = timer \ {d}
  /\ aborted' = aborted \cup {d}
  /\ lease' = [lease EXCEPT ![d] = "released"]
  /\ listeners' = Without(d)
  /\ stack' = <<Frame("aborting", d, "rpc-timed-out")>>
  /\ UNCHANGED <<options, session, active, work, answer, recorded>>

\* The deadline timer fires, which no microtask waits for.  A call that is
\* already aborted is only answered.
Deadline(d) ==
  /\ stack = <<>> /\ Resumable = {}
  /\ d \in timer /\ answer[d] = "none"
  /\ timer' = timer \ {d}
  /\ \/ /\ d \in aborted
        /\ answer' = [answer EXCEPT ![d] = "cancelled"]
        /\ UNCHANGED <<aborted, stack>>
     \/ /\ d \notin aborted
        /\ aborted' = aborted \cup {d}
        /\ stack' = <<Frame("aborting", d, "rpc-timed-out")>>
        /\ UNCHANGED answer
  /\ UNCHANGED <<options, session, active, work, slots, recorded>>

\* cancel(): the Renderer gave up.
Cancel(id) ==
  /\ MayCall("cancel")
  /\ session = "current"
  /\ CancelActive(id, listeners, stack)
  /\ UNCHANGED <<options, session, work, lease, timer, answer, recorded>>

-----------------------------------------------------------------------------
\* The session ends: session-closed is recorded, the reason set, and then every
\* lease still listening cancels the call that has its id.
Retire ==
  /\ MayCall("retire")
  /\ session = "current"
  /\ session' = "closing"
  /\ stack' = Append(stack, Frame("retiring", NoCall, ""))
  /\ UNCHANGED <<options, active, work, aborted, slots, timer, answer, recorded>>

Retired ==
  /\ At("retiring")
  /\ session' = "retired"
  /\ stack' = Append(Rest, Frame("dispatching", NoCall, ""))
  /\ UNCHANGED <<options, active, work, aborted, slots, timer, answer, recorded>>

NotifyRetired ==
  /\ At("dispatching")
  /\ \/ /\ listeners = <<>>
        /\ stack' = Rest
        /\ UNCHANGED <<active, aborted, listeners>>
     \/ /\ listeners # <<>>
        /\ CancelActive(IdOf(Head(listeners)), Tail(listeners), stack)
  /\ UNCHANGED <<options, session, work, lease, timer, answer, recorded>>

-----------------------------------------------------------------------------
Return ==
  \/ Aborting \/ Recorded \/ TimedOut \/ Begin \/ Start \/ Arm
  \/ Asked \/ Parsed \/ Handled \/ Checked \/ Denied \/ Refused \/ Invalidated \/ Finished
  \/ Retired \/ NotifyRetired

Next ==
  \/ Return
  \/ \E d \in Calls :
       Dispatch(d) \/ Settle(d) \/ HandlerSettles(d) \/ Resume(d) \/ Deadline(d)
  \/ \E id \in Ids : Cancel(id)
  \/ Retire

Spec == Init /\ [][Next]_vars

\* Outside calls return, microtasks run, and timers fire; authorize and handlers
\* may never settle.
FairSpec ==
  /\ Spec
  /\ WF_vars(Return)
  /\ \A d \in Calls : WF_vars(Resume(d)) /\ WF_vars(Deadline(d))

-----------------------------------------------------------------------------
Idle == stack = <<>>
Unfinished == {d \in Calls : work[d] \notin {"new", "ended"}}
Records(d) == {recorded[d][i] : i \in 1 .. Len(recorded[d])}

TypeOK ==
  /\ hasAuthorize \in AuthorizeOptions /\ hasDeadline \in DeadlineOptions
  /\ session \in {"current", "closing", "retired"}
  /\ active \in [Ids -> Calls \cup {NoCall}]
  /\ work \in [Calls -> WorkStates]
  /\ aborted \subseteq Calls
  /\ lease \in [Calls -> {"none", "held", "released"}]
  /\ listeners \in Seq(Calls) /\ Len(listeners) <= MaxConcurrentRpc
  /\ timer \subseteq Calls
  /\ answer \in [Calls -> Answers]
  /\ recorded \in [Calls -> Seq({"rpc-cancelled", "rpc-timed-out", "rpc-finished"})]
  /\ \A i \in 1 .. Len(stack) : stack[i].call \in Calls \cup {NoCall}

\* No more calls than slots have work under way, however many were cancelled or
\* answered by the deadline: a cancelled handler that goes on keeps its slot.
ConcurrencyLimit ==
  Cardinality(Unfinished) <= MaxConcurrentRpc /\ Unfinished = Held

\* Between two events, a call that still works and was not aborted can be reached
\* by cancel under its id, and hears the end of the session.
StillReachable ==
  Idle => \A d \in Unfinished \ aborted :
    /\ active[IdOf(d)] = d
    /\ \E i \in 1 .. Len(listeners) : listeners[i] = d

\* When the session has ended, every call still working has been told to stop, and
\* the session is not referred to any more.
RetiredAborts ==
  Idle /\ session = "retired" =>
    /\ Unfinished \subseteq aborted
    /\ listeners = <<>>
    /\ \A i \in Ids : active[i] = NoCall \/ active[i] \in aborted

\* One cause at most is recorded, rpc-timed-out or rpc-cancelled, and only once,
\* with rpc-finished once at the end of the work; and no call is answered as
\* cancelled, or late, that was not, whichever of deadline, cancel, retirement and
\* the end of the work comes first.
OneCause ==
  \A d \in Calls :
    /\ ~({"rpc-timed-out", "rpc-cancelled"} \subseteq Records(d))
    /\ Cardinality(Records(d)) = Len(recorded[d])
    /\ Idle /\ recorded[d] # <<>> => (d \in aborted <=> Records(d) # {"rpc-finished"})
    /\ answer[d] = "cancelled" => d \in aborted
    /\ answer[d] = "deadline" => "rpc-timed-out" \in Records(d)

\* CANCELLED comes first: a call aborted before its output was checked does not
\* succeed, whichever boundary it is at.
CancelledComesFirst ==
  \A d \in Calls :
    [](d \in aborted /\ work[d] \notin {"checking", "ended"} => [](answer[d] # "ok"))

\* Every request is answered when there is a deadline, even if authorize or the
\* handler never settles.
EveryoneIsAnswered ==
  \A d \in Calls : hasDeadline /\ work[d] # "new" ~> answer[d] # "none"

\* The slots bound the work under way, as the code counts it.
SlotsBound == TypeOK /\ ConcurrencyLimit

\* Cancel, deadline, duplicate and retirement reach every call that works, and what is
\* recorded and answered agrees on which of them came first.
Cancellation == StillReachable /\ RetiredAborts /\ OneCause
=============================================================================
