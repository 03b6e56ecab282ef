------------------------- MODULE RpcRequests_proofs -------------------------
(***************************************************************************)
(* Theorems about RpcRequests.tla, for every number of calls and request   *)
(* ids, every limit, every depth and every set of re-entrant calls.        *)
(***************************************************************************)
EXTENDS RpcRequests, SequenceLemmas

Causes == {"rpc-cancelled", "rpc-timed-out"}

\* The frames in which the work of a call waits for something outside.
BegunPoints == {"beginning", "starting", "asking", "parsing", "handling", "refusing"}
CheckPoints == {"checking", "invalidating"}
WorkPoints == BegunPoints \cup CheckPoints \cup {"denying"}
WaitPoints == WorkPoints \ {"beginning"}

Expected(point) ==
  IF point \in BegunPoints THEN "begun"
  ELSE IF point \in CheckPoints THEN "checking" ELSE "authorizing"

PlainFrames == [at : WorkPoints \cup Causes \cup {"rejected", "arming"},
                call : Calls, arg : {""}]
AbortFrames == [at : {"aborting"}, call : Calls, arg : Causes]
FinishFrames == [at : {"finishing"}, call : Calls, arg : {"ok", "error", "cancelled"}]
SessionFrames == [at : {"retiring", "dispatching"}, call : {NoCall}, arg : {""}]
FrameSet == PlainFrames \cup AbortFrames \cup FinishFrames \cup SessionFrames

\* No frame of q is about the work of d.
Free(q, d) == \A i \in 1 .. Len(q) : q[i].at \in WorkPoints => q[i].call # d

\* The frames of q agree with the work w of the calls, and no two of them are about
\* the work of one call.
Good(w, q) ==
  /\ q \in Seq(FrameSet)
  /\ \A i \in 1 .. Len(q) : q[i].at \in WorkPoints => w[q[i].call] = Expected(q[i].at)
  /\ \A i, j \in 1 .. Len(q) :
       i # j /\ q[i].at \in WorkPoints /\ q[j].at \in WorkPoints => q[i].call # q[j].call

Types ==
  /\ hasAuthorize \in AuthorizeOptions /\ hasDeadline \in DeadlineOptions
  /\ session \in {"current", "closing", "retired"}
  /\ active \in [Ids -> Calls \cup {NoCall}]
  /\ work \in [Calls -> WorkStates]
  /\ aborted \subseteq Calls
  /\ lease \in [Calls -> {"none", "held", "released"}]
  /\ listeners \in Seq(Calls)
  /\ timer \subseteq Calls
  /\ answer \in [Calls -> Answers]
  /\ recorded \in [Calls -> Seq({"rpc-cancelled", "rpc-timed-out", "rpc-finished"})]
  /\ Good(work, stack)

-----------------------------------------------------------------------------
(* Frames and stacks *)

\* The id of a call.
LEMMA IdOfCall ==
  ASSUME NEW d \in Calls
  PROVE  IdOf(d) \in Ids
BY CallsAssumption DEF IdOf, Ids, Calls

\* What kinds of frames there are.
LEMMA FrameParts ==
  ASSUME NEW f \in FrameSet
  PROVE  /\ f.at \in {"retiring", "dispatching"} <=> f.call \notin Calls
         /\ f.call \in Calls \cup {NoCall}
         /\ f.at = "aborting" => f.arg \in Causes
         /\ f.at = "finishing" => f.arg \in {"ok", "error", "cancelled"}
<1>1. NoCall \notin Calls
  BY DEF NoCall, Calls
<1>2. CASE f \in PlainFrames
  BY <1>1, <1>2 DEF PlainFrames, WorkPoints, BegunPoints, CheckPoints, Causes
<1>3. CASE f \in AbortFrames
  BY <1>1, <1>3 DEF AbortFrames
<1>4. CASE f \in FinishFrames
  BY <1>1, <1>4 DEF FinishFrames
<1>5. CASE f \in SessionFrames
  BY <1>1, <1>5 DEF SessionFrames
<1> QED
  BY <1>2, <1>3, <1>4, <1>5 DEF FrameSet

\* What frames can be made.
LEMMA FrameMade ==
  /\ \A at \in WorkPoints \cup Causes \cup {"rejected", "arming"}, d \in Calls :
       Frame(at, d, "") \in FrameSet
  /\ \A d \in Calls, arg \in Causes : Frame("aborting", d, arg) \in FrameSet
  /\ \A d \in Calls, arg \in {"ok", "error", "cancelled"} :
       Frame("finishing", d, arg) \in FrameSet
  /\ Frame("retiring", NoCall, "") \in FrameSet
  /\ Frame("dispatching", NoCall, "") \in FrameSet
BY DEF Frame, FrameSet, PlainFrames, AbortFrames, FinishFrames, SessionFrames

\* The empty stack is in order.
LEMMA GoodEmpty ==
  ASSUME NEW w
  PROVE  Good(w, <<>>) /\ \A d : Free(<<>>, d)
BY DEF Good, Free

\* What is under the top of a stack in order is so, and is not about the same work.
LEMMA GoodRest ==
  ASSUME NEW w, NEW q, Good(w, q), NEW r, NEW f, Popped(q, r, f)
  PROVE  /\ Good(w, r) /\ f \in FrameSet
         /\ f.at \in WorkPoints => w[f.call] = Expected(f.at) /\ Free(r, f.call)
         /\ \A d : Free(q, d) => Free(r, d)
<1>1. /\ Len(q) \in Nat \ {0} /\ f = q[Len(q)] /\ f \in FrameSet
      /\ r \in Seq(FrameSet) /\ Len(r) = Len(q) - 1
      /\ \A i \in 1 .. Len(q) - 1 : r[i] = q[i]
  <2>1. q \in Seq(FrameSet) /\ q # <<>> /\ r = SubSeq(q, 1, Len(q) - 1) /\ f = q[Len(q)]
    BY DEF Good, Popped
  <2> QED
    BY <2>1, StackParts
<1>2. Good(w, r)
  BY <1>1 DEF Good
<1>3. f.at \in WorkPoints => w[f.call] = Expected(f.at) /\ Free(r, f.call)
  BY <1>1 DEF Good, Free
<1>4. \A d : Free(q, d) => Free(r, d)
  BY <1>1 DEF Free
<1> QED
  BY <1>1, <1>2, <1>3, <1>4

\* The work of a call the stack is not about may change.
LEMMA GoodFree ==
  ASSUME NEW w \in [Calls -> WorkStates], NEW q, Good(w, q), NEW d, Free(q, d),
         NEW state, NEW v, v = [w EXCEPT ![d] = state]
  PROVE  Good(v, q)
<1>1. ASSUME NEW i \in 1 .. Len(q), q[i].at \in WorkPoints
      PROVE  v[q[i].call] = w[q[i].call]
  <2>1. q[i] \in FrameSet /\ q[i].call # d
    BY <1>1 DEF Good, Free
  <2>2. q[i].call \in Calls
    BY <1>1, <2>1, FrameParts DEF WorkPoints, BegunPoints, CheckPoints
  <2> QED
    BY <2>1, <2>2
<1> QED
  BY <1>1 DEF Good

\* Frames that are not about work, and one about work the stack was not about.
LEMMA GoodPush ==
  ASSUME NEW w, NEW q, Good(w, q), NEW f \in FrameSet,
         f.at \in WorkPoints => w[f.call] = Expected(f.at) /\ Free(q, f.call),
         NEW r, r = Append(q, f)
  PROVE  /\ Good(w, r)
         /\ \A d : Free(q, d) /\ (f.at \in WorkPoints => f.call # d) => Free(r, d)
<1>1. /\ q \in Seq(FrameSet) /\ r \in Seq(FrameSet) /\ Len(r) = Len(q) + 1
      /\ \A i \in 1 .. Len(q) : r[i] = q[i]
      /\ r[Len(q) + 1] = f /\ Len(q) \in Nat
  BY Appended DEF Good
<1>2. \A i \in 1 .. Len(r) : i \in 1 .. Len(q) \/ i = Len(q) + 1
  BY <1>1
<1>3. Good(w, r)
  <2>1. \A i \in 1 .. Len(r) : r[i].at \in WorkPoints => w[r[i].call] = Expected(r[i].at)
    BY <1>1, <1>2 DEF Good
  <2>2. ASSUME NEW i \in 1 .. Len(r), NEW j \in 1 .. Len(r), i # j,
               r[i].at \in WorkPoints, r[j].at \in WorkPoints
        PROVE  r[i].call # r[j].call
    BY <1>1, <1>2, <2>2 DEF Good, Free
  <2> QED
    BY <1>1, <2>1, <2>2 DEF Good
<1>4. \A d : Free(q, d) /\ (f.at \in WorkPoints => f.call # d) => Free(r, d)
  BY <1>1, <1>2 DEF Free
<1> QED
  BY <1>3, <1>4

\* A call whose work is at none of the points is not on the stack.
LEMMA GoodNew ==
  ASSUME NEW w, NEW q, Good(w, q), NEW d, w[d] \notin {"begun", "checking", "authorizing"}
  PROVE  Free(q, d)
BY DEF Good, Free, Expected

-----------------------------------------------------------------------------
(* Types *)

\* The listeners without a call are listeners.
LEMMA RemovedType ==
  ASSUME NEW q \in Seq(Calls), NEW d
  PROVE  Removed(q, d) \in Seq(Calls)
<1>1. CASE Contains(q, d)
  <2>1. PICK k \in 1 .. Len(q) : k = CHOOSE i \in DOMAIN q : q[i] = d
    BY <1>1 DEF Contains
  <2> QED
    BY <1>1, <2>1, RemovedAt DEF Removed
<1>2. CASE ~Contains(q, d)
  BY <1>2 DEF Removed
<1> QED
  BY <1>1, <1>2

LEMMA CancelTypes ==
  ASSUME Types, NEW id \in Ids, NEW heard \in Seq(Calls), NEW below, NEW w, Good(w, below),
         CancelActive(id, heard, below)
  PROVE  /\ active' \in [Ids -> Calls \cup {NoCall}]
         /\ aborted' \subseteq Calls
         /\ listeners' \in Seq(Calls)
         /\ Good(w, stack')
         /\ \A d : Free(below, d) => Free(stack', d)
<1>1. CASE active[id] = NoCall
  BY <1>1 DEF CancelActive, Types
<1>2. CASE active[id] # NoCall
  <2> DEFINE d == active[id]
             f == Frame("aborting", d, "rpc-cancelled")
  <2>1. d \in Calls
    BY <1>2 DEF Types
  <2>2. f \in FrameSet /\ f.at \notin WorkPoints
    BY <2>1, FrameMade DEF Frame, Causes, WorkPoints, BegunPoints, CheckPoints
  <2>3. /\ active' = [active EXCEPT ![id] = NoCall]
        /\ listeners' = Removed(heard, d)
        /\ aborted' = aborted \cup {d}
        /\ stack' = below \/ stack' = Append(below, f)
    BY <1>2 DEF CancelActive
  <2>4. /\ active' \in [Ids -> Calls \cup {NoCall}]
        /\ aborted' \subseteq Calls
    BY <2>1, <2>3 DEF Types
  <2>5. listeners' \in Seq(Calls)
    BY <2>3, RemovedType
  <2>6. Good(w, stack') /\ \A e : Free(below, e) => Free(stack', e)
    <3> HIDE DEF f
    <3>1. CASE stack' = below
      BY <3>1
    <3>2. CASE stack' = Append(below, f)
      BY <2>2, <3>2, GoodPush
    <3> QED
      BY <2>3, <3>1, <3>2
  <2> QED
    BY <2>4, <2>5, <2>6
<1> QED
  BY <1>1, <1>2

LEMMA EndWorkTypes ==
  ASSUME Types, NEW d \in Calls, NEW response \in {"ok", "error", "cancelled"},
         NEW below, Good(work, below), Free(below, d), EndWork(d, response, below)
  PROVE  /\ active' \in [Ids -> Calls \cup {NoCall}]
         /\ lease' \in [Calls -> {"none", "held", "released"}]
         /\ listeners' \in Seq(Calls)
         /\ work' \in [Calls -> WorkStates]
         /\ recorded' \in [Calls -> Seq({"rpc-cancelled", "rpc-timed-out", "rpc-finished"})]
         /\ Good(work', stack')
<1> DEFINE f == Frame("finishing", d, response)
<1>1. /\ active' \in [Ids -> Calls \cup {NoCall}]
      /\ lease' \in [Calls -> {"none", "held", "released"}]
      /\ work' \in [Calls -> WorkStates] /\ work' = [work EXCEPT ![d] = "ended"]
  BY DEF EndWork, FinishOwn, Types, WorkStates
<1>2. listeners' \in Seq(Calls)
  BY RemovedType DEF EndWork, Without, Types
<1>3. recorded' \in [Calls -> Seq({"rpc-cancelled", "rpc-timed-out", "rpc-finished"})]
  BY DEF EndWork, Types
<1>4. f \in FrameSet /\ f.at \notin WorkPoints
  BY FrameMade DEF Frame, WorkPoints, BegunPoints, CheckPoints
<1>5. stack' = Append(below, f)
  BY DEF EndWork
<1>6. Good(work', below)
  BY <1>1, GoodFree DEF Types
<1>7. Good(work', stack')
  <2> HIDE DEF f
  <2> QED
    BY <1>4, <1>5, <1>6, GoodPush
<1> QED
  BY <1>1, <1>2, <1>3, <1>7

LEMMA SuspendTypes ==
  ASSUME Types, NEW d \in Calls, NEW state \in WorkStates, NEW point,
         point # "" => point \in WorkPoints /\ Expected(point) = state,
         NEW below, Good(work, below), Free(below, d), Suspend(d, state, point, below)
  PROVE  /\ active' \in [Ids -> Calls \cup {NoCall}]
         /\ lease' \in [Calls -> {"none", "held", "released"}]
         /\ listeners' \in Seq(Calls)
         /\ work' \in [Calls -> WorkStates]
         /\ recorded' \in [Calls -> Seq({"rpc-cancelled", "rpc-timed-out", "rpc-finished"})]
         /\ Good(work', stack')
<1> DEFINE f == Frame(point, d, "")
<1>1. /\ work' = [work EXCEPT ![d] = state] /\ work' \in [Calls -> WorkStates]
      /\ work'[d] = state
      /\ UNCHANGED <<active, lease, listeners, recorded>>
      /\ stack' = IF point = "" THEN below ELSE Append(below, f)
  BY DEF Suspend, Types, slots
<1>2. Good(work', below)
  BY <1>1, GoodFree DEF Types
<1>3. CASE point = ""
  BY <1>1, <1>2, <1>3 DEF Types
<1>4. CASE point # ""
  <2>1. /\ f \in FrameSet /\ f.call = d /\ f.at = point
        /\ f.at \in WorkPoints => work'[f.call] = Expected(f.at) /\ Free(below, f.call)
    BY <1>1, <1>4, FrameMade DEF Frame
  <2>2. stack' = Append(below, f)
    BY <1>1, <1>4
  <2> HIDE DEF f
  <2>3. Good(work', stack')
    BY <1>2, <2>1, <2>2, GoodPush
  <2> QED
    BY <1>1, <2>3 DEF Types
<1> QED
  BY <1>3, <1>4

\* What is known of the frame on top.
LEMMA TopParts ==
  ASSUME Types, stack # <<>>
  PROVE  /\ Top \in FrameSet /\ Good(work, Rest)
         /\ Top.at \notin {"retiring", "dispatching"} => Top.call \in Calls
         /\ Top.at \in WorkPoints => work[Top.call] = Expected(Top.at) /\ Free(Rest, Top.call)
         /\ Top.at = "aborting" => Top.arg \in Causes
         /\ Top.at = "finishing" => Top.arg \in {"ok", "error", "cancelled"}
<1>1. Good(work, stack)
  BY DEF Types
<1>2. /\ Good(work, Rest) /\ Top \in FrameSet
      /\ Top.at \in WorkPoints => work[Top.call] = Expected(Top.at) /\ Free(Rest, Top.call)
  <2>1. Popped(stack, Rest, Top)
    BY DEF Popped, Top, Rest
  <2> QED
    BY <1>1, <2>1, GoodRest
<1> QED
  BY <1>2, FrameParts

\* The work of a call ends or waits on a stack that is not about it.
LEMMA WorkTypes ==
  ASSUME Types, NEW d \in Calls, NEW below, Good(work, below), Free(below, d),
         \/ \E response \in {"ok", "error", "cancelled"} : EndWork(d, response, below)
         \/ \E point \in WorkPoints : Suspend(d, Expected(point), point, below)
         \/ \E state \in WorkStates : Suspend(d, state, "", below),
         UNCHANGED <<options, session, aborted, timer, answer>>
  PROVE  Types'
<1>1. \A point \in WorkPoints : Expected(point) \in WorkStates
  BY DEF Expected, WorkStates
<1>2. /\ active' \in [Ids -> Calls \cup {NoCall}]
      /\ lease' \in [Calls -> {"none", "held", "released"}]
      /\ listeners' \in Seq(Calls)
      /\ work' \in [Calls -> WorkStates]
      /\ recorded' \in [Calls -> Seq({"rpc-cancelled", "rpc-timed-out", "rpc-finished"})]
      /\ Good(work', stack')
  <2>1. CASE \E response \in {"ok", "error", "cancelled"} : EndWork(d, response, below)
    BY <2>1, EndWorkTypes
  <2>2. CASE \E point \in WorkPoints : Suspend(d, Expected(point), point, below)
    BY <2>2, <1>1, SuspendTypes
  <2>3. CASE \E state \in WorkStates : Suspend(d, state, "", below)
    BY <2>3, SuspendTypes
  <2> QED
    BY <2>1, <2>2, <2>3
<1> QED
  BY <1>2 DEF Types, options

\* The same for the call on top of the stack.
LEMMA TopWorkTypes ==
  ASSUME Types, stack # <<>>, Top.at \in WorkPoints,
         NEW below, below = Rest \/ below = Append(Rest, Frame("arming", Top.call, "")),
         \/ \E response \in {"ok", "error", "cancelled"} : EndWork(Top.call, response, below)
         \/ \E point \in WorkPoints : Suspend(Top.call, Expected(point), point, below)
         \/ \E state \in WorkStates : Suspend(Top.call, state, "", below),
         UNCHANGED <<options, session, aborted, timer, answer>>
  PROVE  Types'
<1> DEFINE f == Frame("arming", Top.call, "")
<1>1. Top.call \in Calls /\ Good(work, Rest) /\ Free(Rest, Top.call)
  BY TopParts DEF WorkPoints, BegunPoints, CheckPoints
<1>2. f \in FrameSet /\ f.at \notin WorkPoints
  BY <1>1, FrameMade DEF Frame, WorkPoints, BegunPoints, CheckPoints
<1>3. Good(work, below) /\ Free(below, Top.call)
  <2>1. CASE below = Rest
    BY <1>1, <2>1
  <2>2. CASE below = Append(Rest, f)
    <3> HIDE DEF f
    <3> QED
      BY <1>1, <1>2, <2>2, GoodPush
  <2> QED
    BY <2>1, <2>2
<1> QED
  BY <1>1, <1>3, WorkTypes

\* The initial states have the types.
LEMMA TypesInit == Init => Types
<1> SUFFICES ASSUME Init PROVE Types
  OBVIOUS
<1>1. Good(work, stack)
  BY GoodEmpty DEF Init
<1> QED
  BY <1>1 DEF Init, Types, WorkStates, Answers, NoCall

\* The frames under the top of the stack, or a new one on them.
LEMMA StackTypes ==
  ASSUME Types, stack # <<>>, NEW f \in FrameSet, f.at \notin WorkPoints,
         stack' = Rest \/ stack' = Append(Rest, f), work' = work
  PROVE  Good(work', stack')
<1>1. Good(work, Rest)
  BY TopParts
<1>2. CASE stack' = Rest
  BY <1>1, <1>2
<1>3. CASE stack' = Append(Rest, f)
  BY <1>1, <1>3, GoodPush
<1> QED
  BY <1>2, <1>3

\* Every step keeps the types: one step for each action.
LEMMA TypesNext ==
  ASSUME Types, [Next]_vars
  PROVE  Types'
<1> USE DEF options, slots
<1>1. CASE Aborting
  <2>1. stack # <<>> /\ Top.at = "aborting"
    BY <1>1 DEF Aborting, At
  <2>2. Top.call \in Calls /\ Top.arg \in Causes
    BY <2>1, TopParts
  <2> DEFINE f == Frame(Top.arg, Top.call, "")
  <2>3. f \in FrameSet /\ f.at \notin WorkPoints
    BY <2>2, FrameMade DEF Frame, Causes, WorkPoints, BegunPoints, CheckPoints
  <2>4. stack' = Append(Rest, f) /\ work' = work
    BY <1>1 DEF Aborting
  <2>5. Good(work', stack')
    <3> HIDE DEF f
    <3> QED
      BY <2>1, <2>3, <2>4, StackTypes
  <2>6. recorded' \in [Calls -> Seq({"rpc-cancelled", "rpc-timed-out", "rpc-finished"})]
    <3> DEFINE c == Top.call
               arg == Top.arg
               S == {"rpc-cancelled", "rpc-timed-out", "rpc-finished"}
    <3>1. recorded' = [recorded EXCEPT ![c] = Append(@, arg)]
      BY <1>1 DEF Aborting
    <3>2. recorded \in [Calls -> Seq(S)] /\ arg \in S
      BY <2>2 DEF Types, Causes
    <3> HIDE DEF c, arg, S
    <3>3. recorded' \in [Calls -> Seq(S)]
      <4>1. \A q \in Seq(S) : Append(q, arg) \in Seq(S)
        BY <3>2
      <4> QED
        BY <3>1, <3>2, <4>1
    <3> QED
      BY <3>3 DEF S
  <2> QED
    BY <1>1, <2>5, <2>6 DEF Types, Aborting
<1>2. CASE Recorded
  <2>1. stack # <<>> /\ stack' = Rest /\ work' = work
    BY <1>2 DEF Recorded, At
  <2>2. Good(work', stack')
    BY <2>1, TopParts
  <2> QED
    BY <1>2, <2>2 DEF Types, Recorded, Answers
<1>3. CASE TimedOut
  <2>1. stack # <<>> /\ stack' = Rest /\ work' = work
    BY <1>3 DEF TimedOut, At
  <2>2. Good(work', stack')
    BY <2>1, TopParts
  <2> QED
    BY <1>3, <2>2 DEF Types, TimedOut, Answers
<1>4. CASE Begin
  <2> DEFINE d == Top.call
             f == Frame("starting", d, "")
             g == Frame("aborting", d, "rpc-cancelled")
             below == Append(Rest, f)
  <2>1. stack # <<>> /\ Top.at = "beginning"
    BY <1>4 DEF Begin, At
  <2>2. d \in Calls /\ Good(work, Rest) /\ Free(Rest, d) /\ work[d] = "begun"
    BY <2>1, TopParts DEF Expected, WorkPoints, BegunPoints
  <2>3. /\ f \in FrameSet /\ f.at = "starting" /\ f.call = d /\ Expected(f.at) = "begun"
        /\ g \in FrameSet /\ g.at \notin WorkPoints
    BY <2>2, FrameMade DEF Frame, Expected, Causes, WorkPoints, BegunPoints, CheckPoints
  <2>4. stack' = below \/ stack' = Append(below, g)
    BY <1>4 DEF Begin
  <2>5. Good(work, stack')
    <3> HIDE DEF f, g, d
    <3>1. Good(work, below)
      BY <2>2, <2>3, GoodPush
    <3> HIDE DEF below
    <3>2. Good(work, Append(below, g))
      BY <2>3, <3>1, GoodPush
    <3> QED
      BY <2>4, <3>1, <3>2
  <2>6. /\ active' \in [Ids -> Calls \cup {NoCall}]
        /\ listeners' \in Seq(Calls) /\ aborted' \subseteq Calls
    <3>1. /\ \/ active' = [active EXCEPT ![IdOf(d)] = NoCall]
             \/ active' = [active EXCEPT ![IdOf(d)] = d]
          /\ aborted' = aborted \cup {d} \/ aborted' = aborted
          /\ listeners' = Append(listeners, d) \/ listeners' = listeners
      BY <1>4 DEF Begin
    <3> HIDE DEF d
    <3>2. active' \in [Ids -> Calls \cup {NoCall}]
      BY <2>2, <3>1 DEF Types
    <3>3. listeners' \in Seq(Calls)
      <4>1. listeners \in Seq(Calls)
        BY DEF Types
      <4>2. Append(listeners, d) \in Seq(Calls)
        BY <2>2, <4>1, Appended
      <4> QED
        BY <3>1, <4>1, <4>2
    <3>4. aborted' \subseteq Calls
      BY <2>2, <3>1 DEF Types
    <3> QED
      BY <3>2, <3>3, <3>4
  <2> QED
    BY <1>4, <2>5, <2>6 DEF Types, Begin
<1>5. CASE Start
  <2> DEFINE below == Append(Rest, Frame("arming", Top.call, ""))
  <2>1. /\ stack # <<>> /\ Top.at = "starting"
        /\ UNCHANGED <<options, session, aborted, timer, answer>>
        /\ \/ Suspend(Top.call, "begun", "asking", below)
           \/ Suspend(Top.call, "begun", "parsing", below)
           \/ EndWork(Top.call, "cancelled", below)
    BY <1>5 DEF Start, At, RunRegistered
  <2>2. Expected("asking") = "begun" /\ Expected("parsing") = "begun"
    BY DEF Expected, BegunPoints
  <2> QED
    BY <2>1, <2>2, TopWorkTypes DEF WorkPoints, BegunPoints
<1>6. CASE Arm
  <2>1. stack # <<>> /\ stack' = Rest /\ work' = work /\ Top.at = "arming"
    BY <1>6 DEF Arm, At
  <2>2. Good(work', stack') /\ Top.call \in Calls
    BY <2>1, TopParts
  <2> QED
    BY <1>6, <2>2 DEF Types, Arm
<1>7. CASE Asked \/ Parsed \/ Handled \/ Checked \/ Denied \/ Refused \/ Invalidated
  <2>1. /\ stack # <<>> /\ Top.at \in WorkPoints
        /\ UNCHANGED <<options, session, aborted, timer, answer>>
    BY <1>7 DEF Asked, Parsed, Handled, Checked, Denied, Refused, Invalidated, At,
                WorkPoints, BegunPoints, CheckPoints
  <2>2. \/ Suspend(Top.call, "authorizing", "", Rest)
        \/ Suspend(Top.call, "running", "", Rest)
        \/ Suspend(Top.call, "refused", "", Rest)
        \/ Suspend(Top.call, "begun", "handling", Rest)
        \/ Suspend(Top.call, "begun", "refusing", Rest)
        \/ Suspend(Top.call, "checking", "checking", Rest)
        \/ Suspend(Top.call, "checking", "invalidating", Rest)
        \/ EndWork(Top.call, "cancelled", Rest)
        \/ EndWork(Top.call, "error", Rest)
        \/ EndWork(Top.call, "ok", Rest)
    BY <1>7 DEF Asked, Parsed, Handled, Checked, Denied, Refused, Invalidated,
                Outcome, CancelledIfAborted
  <2>3. /\ \E response \in {"ok", "error", "cancelled"} : response = "ok"
        /\ Expected("handling") = "begun" /\ Expected("refusing") = "begun"
        /\ Expected("checking") = "checking" /\ Expected("invalidating") = "checking"
    BY DEF Expected, BegunPoints, CheckPoints
  <2>4. \/ \E response \in {"ok", "error", "cancelled"} : EndWork(Top.call, response, Rest)
        \/ \E point \in WorkPoints : Suspend(Top.call, Expected(point), point, Rest)
        \/ \E state \in WorkStates : Suspend(Top.call, state, "", Rest)
    BY <2>2, <2>3 DEF WorkStates, WorkPoints, BegunPoints, CheckPoints
  <2> QED
    BY <2>1, <2>4, TopWorkTypes
<1>8. CASE Finished
  <2>1. stack # <<>> /\ stack' = Rest /\ work' = work /\ Top.at = "finishing"
    BY <1>8 DEF Finished, At
  <2>2. Good(work', stack') /\ Top.arg \in {"ok", "error", "cancelled"}
    BY <2>1, TopParts
  <2> QED
    BY <1>8, <2>2 DEF Types, Finished, Answers
<1>9. CASE Retired
  <2> DEFINE f == Frame("dispatching", NoCall, "")
  <2>1. stack # <<>> /\ stack' = Append(Rest, f) /\ work' = work
    BY <1>9 DEF Retired, At
  <2>2. f \in FrameSet /\ f.at \notin WorkPoints
    BY FrameMade DEF Frame, WorkPoints, BegunPoints, CheckPoints
  <2>3. Good(work', stack')
    <3> HIDE DEF f
    <3> QED
      BY <2>1, <2>2, StackTypes
  <2> QED
    BY <1>9, <2>3 DEF Types, Retired
<1>10. CASE NotifyRetired
  <2>1. stack # <<>> /\ Good(work, stack)
    BY <1>10 DEF NotifyRetired, At, Types
  <2>2. CASE listeners = <<>>
    <3>1. stack' = Rest /\ UNCHANGED <<active, aborted, listeners>>
      BY <1>10, <2>2 DEF NotifyRetired, CancelActive
    <3>2. Good(work', stack')
      BY <1>10, <2>1, <3>1, TopParts DEF NotifyRetired
    <3> QED
      BY <1>10, <3>1, <3>2 DEF Types, NotifyRetired
  <2>3. CASE listeners # <<>>
    <3> DEFINE id == IdOf(Head(listeners))
               heard == Tail(listeners)
    <3>1. Head(listeners) \in Calls /\ heard \in Seq(Calls)
      BY <2>3, QueueParts DEF Types
    <3>2. id \in Ids
      BY <3>1, IdOfCall
    <3>3. CancelActive(id, heard, stack)
      BY <1>10, <2>3 DEF NotifyRetired
    <3> HIDE DEF id, heard
    <3>4. /\ active' \in [Ids -> Calls \cup {NoCall}] /\ aborted' \subseteq Calls
          /\ listeners' \in Seq(Calls) /\ Good(work, stack')
      BY <2>1, <3>1, <3>2, <3>3, CancelTypes
    <3> QED
      BY <1>10, <3>4 DEF Types, NotifyRetired
  <2> QED
    BY <2>2, <2>3
<1>11. ASSUME NEW d \in Calls, Dispatch(d)
       PROVE  Types'
  <2>1. work[d] = "new" /\ Good(work, stack)
    BY <1>11 DEF Dispatch, Types
  <2>2. Free(stack, d)
    BY <2>1, GoodNew
  <2>3. CASE /\ work' = [work EXCEPT ![d] = "ended"]
             /\ stack' = Append(stack, Frame("rejected", d, ""))
             /\ UNCHANGED <<active, aborted, slots>>
    <3> DEFINE f == Frame("rejected", d, "")
    <3>1. f \in FrameSet /\ f.at \notin WorkPoints
      BY FrameMade DEF Frame, WorkPoints, BegunPoints, CheckPoints
    <3>2. work' \in [Calls -> WorkStates]
      BY <2>3 DEF Types, WorkStates
    <3>3. Good(work', stack)
      BY <2>1, <2>2, <2>3, GoodFree DEF Types
    <3>4. Good(work', stack')
      <4>1. stack' = Append(stack, f)
        BY <2>3
      <4> HIDE DEF f
      <4> QED
        BY <3>1, <3>3, <4>1, GoodPush
    <3> QED
      BY <1>11, <2>3, <3>2, <3>4 DEF Types, Dispatch
  <2>4. CASE /\ work' = [work EXCEPT ![d] = "begun"]
             /\ lease' = [lease EXCEPT ![d] = "held"]
             /\ CancelActive(IdOf(d), listeners,
                             Append(stack, Frame("beginning", d, "")))
    <3> DEFINE f == Frame("beginning", d, "")
               below == Append(stack, f)
    <3>1. /\ work' \in [Calls -> WorkStates] /\ work'[d] = "begun"
          /\ lease' \in [Calls -> {"none", "held", "released"}]
      BY <2>4 DEF Types, WorkStates
    <3>2. f \in FrameSet /\ f.at = "beginning" /\ f.call = d
      BY FrameMade DEF Frame, WorkPoints, BegunPoints
    <3>3. Good(work', stack)
      BY <2>1, <2>2, <2>4, GoodFree DEF Types
    <3>4. Good(work', below)
      <4> HIDE DEF f
      <4> QED
        BY <2>2, <3>1, <3>2, <3>3, GoodPush DEF Expected, BegunPoints
    <3>5. IdOf(d) \in Ids
      BY IdOfCall
    <3>6. CancelActive(IdOf(d), listeners, below)
      BY <2>4
    <3> HIDE DEF below
    <3>7. /\ active' \in [Ids -> Calls \cup {NoCall}] /\ aborted' \subseteq Calls
          /\ listeners' \in Seq(Calls) /\ Good(work', stack')
      BY <3>4, <3>5, <3>6, CancelTypes DEF Types
    <3> QED
      BY <1>11, <3>1, <3>7 DEF Types, Dispatch
  <2> QED
    BY <1>11, <2>3, <2>4 DEF Dispatch
<1>12. ASSUME NEW d \in Calls, Settle(d) \/ HandlerSettles(d) \/ Resume(d)
       PROVE  Types'
  <2>1. /\ stack = <<>>
        /\ UNCHANGED <<options, session, aborted, timer, answer>>
    BY <1>12 DEF Settle, HandlerSettles, Resume
  <2>2. \/ \E state \in WorkStates : Suspend(d, state, "", stack)
        \/ Suspend(d, "authorizing", "denying", stack)
        \/ Suspend(d, "begun", "parsing", stack)
        \/ Suspend(d, "checking", "checking", stack)
        \/ EndWork(d, "error", stack) \/ EndWork(d, "cancelled", stack)
    BY <1>12 DEF Settle, HandlerSettles, Resume, Outcome, RunRegistered, WorkStates
  <2>3. /\ Expected("denying") = "authorizing" /\ Expected("parsing") = "begun"
        /\ Expected("checking") = "checking"
    BY DEF Expected, BegunPoints, CheckPoints
  <2>4. \/ \E response \in {"ok", "error", "cancelled"} : EndWork(d, response, stack)
        \/ \E point \in WorkPoints : Suspend(d, Expected(point), point, stack)
        \/ \E state \in WorkStates : Suspend(d, state, "", stack)
    BY <2>2, <2>3 DEF WorkPoints, BegunPoints, CheckPoints
  <2>5. Good(work, stack) /\ Free(stack, d)
    BY <2>1, GoodEmpty
  <2> QED
    BY <2>1, <2>4, <2>5, WorkTypes
<1>13. ASSUME NEW d \in Calls, Deadline(d)
       PROVE  Types'
  <2> DEFINE f == Frame("aborting", d, "rpc-timed-out")
  <2>1. stack = <<>> /\ Good(work, stack)
    BY <1>13 DEF Deadline, Types
  <2>2. stack' = stack \/ stack' = <<f>>
    BY <1>13 DEF Deadline
  <2>3. f \in FrameSet /\ f.at \notin WorkPoints
    BY FrameMade DEF Frame, Causes, WorkPoints, BegunPoints, CheckPoints
  <2>4. Good(work, stack')
    <3> HIDE DEF f
    <3>1. <<f>> = Append(stack, f)
      BY <2>1
    <3> QED
      BY <2>1, <2>2, <2>3, <3>1, GoodPush
  <2> QED
    BY <1>13, <2>4 DEF Types, Deadline, Answers
<1>14. ASSUME NEW id \in Ids, Cancel(id)
       PROVE  Types'
  <2>1. /\ active' \in [Ids -> Calls \cup {NoCall}] /\ aborted' \subseteq Calls
        /\ listeners' \in Seq(Calls) /\ Good(work, stack')
    BY <1>14, CancelTypes DEF Cancel, Types
  <2> QED
    BY <1>14, <2>1 DEF Types, Cancel
<1>15. CASE Retire
  <2> DEFINE f == Frame("retiring", NoCall, "")
  <2>1. Good(work, stack) /\ stack' = Append(stack, f) /\ work' = work
    BY <1>15 DEF Retire, Types
  <2>2. f \in FrameSet /\ f.at \notin WorkPoints
    BY FrameMade DEF Frame, WorkPoints, BegunPoints, CheckPoints
  <2>3. Good(work', stack')
    <3> HIDE DEF f
    <3> QED
      BY <2>1, <2>2, GoodPush
  <2> QED
    BY <1>15, <2>3 DEF Types, Retire
<1>16. CASE UNCHANGED vars
  BY <1>16 DEF Types, vars
<1> QED
  BY <1>1, <1>2, <1>3, <1>4, <1>5, <1>6, <1>7, <1>8, <1>9, <1>10, <1>11, <1>12, <1>13,
     <1>14, <1>15, <1>16 DEF Next, Return

-----------------------------------------------------------------------------
(* What the steps do to the frames *)

\* No two frames abort one call.
Apart(q) ==
  \A i, j \in 1 .. Len(q) :
    i # j /\ q[i].at = "aborting" /\ q[j].at = "aborting" => q[i].call # q[j].call

\* A frame that may be put on q without a second one aborting a call.
Alone(q, f) ==
  f.at = "aborting" => \A g \in ToSet(q) : g.at = "aborting" => g.call # f.call

LEMMA ApartAppended ==
  ASSUME NEW q \in Seq(FrameSet), NEW f \in FrameSet, Apart(q), Alone(q, f),
         NEW r, Pushed(q, r, f)
  PROVE  Apart(r)
<1>1. /\ Len(r) = Len(q) + 1 /\ Len(q) \in Nat
      /\ \A i \in 1 .. Len(q) : r[i] = q[i]
      /\ r[Len(q) + 1] = f
  BY Appended DEF Pushed
<1>2. \A i \in 1 .. Len(r) : i \in 1 .. Len(q) \/ i = Len(q) + 1
  BY <1>1
<1>3. \A i \in 1 .. Len(q) : q[i] \in ToSet(q)
  BY Values
<1> QED
  BY <1>1, <1>2, <1>3 DEF Apart, Alone

LEMMA ApartPopped ==
  ASSUME NEW q \in Seq(FrameSet), NEW r, NEW f, Popped(q, r, f), Apart(q)
  PROVE  Apart(r) /\ Alone(r, f)
<1>1. q # <<>> /\ r = SubSeq(q, 1, Len(q) - 1) /\ f = q[Len(q)]
  BY DEF Popped
<1>2. /\ Len(q) \in Nat \ {0} /\ r \in Seq(FrameSet) /\ Len(r) = Len(q) - 1
      /\ \A i \in 1 .. Len(q) - 1 : r[i] = q[i]
  BY <1>1, StackParts
<1>3. f = q[Len(q)]
  BY <1>1
<1>4. (\A i \in 1 .. Len(r) : i \in 1 .. Len(q) /\ i # Len(q)) /\ Len(q) \in 1 .. Len(q)
  BY <1>2
<1>5. \A i \in 1 .. Len(r) : r[i] = q[i]
  BY <1>2
<1>6. Apart(r)
  BY <1>4, <1>5 DEF Apart
<1>7. Alone(r, f)
  <2>1. \A g \in ToSet(r) : \E i \in 1 .. Len(r) : r[i] = g
    BY <1>2, Values
  <2> QED
    BY <1>3, <1>4, <1>5, <2>1 DEF Apart, Alone
<1> QED
  BY <1>6, <1>7

\* The frame on top and the frames under it, and new ones on them.
LEMMA TopFrames ==
  ASSUME Types, stack # <<>>
  PROVE  /\ Rest \in Seq(FrameSet) /\ ToSet(stack) = ToSet(Rest) \cup {Top}
         /\ \A f \in FrameSet : /\ Append(Rest, f) \in Seq(FrameSet)
                                /\ ToSet(Append(Rest, f)) = ToSet(Rest) \cup {f}
         /\ Apart(stack) => Apart(Rest) /\ Alone(Rest, Top)
         /\ Top.at \in WorkPoints =>
              \A f \in ToSet(Rest) : f.at \in WorkPoints => f.call # Top.call
<1>1. Popped(stack, Rest, Top) /\ stack \in Seq(FrameSet)
  BY DEF Popped, Top, Rest, Types, Good
<1>2. Rest \in Seq(FrameSet) /\ ToSet(stack) = ToSet(Rest) \cup {Top}
  BY <1>1, ValuesPopped
<1>3. \A f \in FrameSet : /\ Append(Rest, f) \in Seq(FrameSet)
                          /\ ToSet(Append(Rest, f)) = ToSet(Rest) \cup {f}
  <2>1. ASSUME NEW f \in FrameSet, NEW r, Pushed(Rest, r, f)
        PROVE  r \in Seq(FrameSet) /\ ToSet(r) = ToSet(Rest) \cup {f}
    BY <1>2, <2>1, ValuesAppended
  <2> QED
    BY <2>1 DEF Pushed
<1>4. Apart(stack) => Apart(Rest) /\ Alone(Rest, Top)
  BY <1>1, ApartPopped
<1>5. ASSUME Top.at \in WorkPoints, NEW f \in ToSet(Rest), f.at \in WorkPoints
      PROVE  f.call # Top.call
  <2>1. Free(Rest, Top.call)
    BY <1>5, TopParts
  <2>2. PICK i \in 1 .. Len(Rest) : Rest[i] = f
    BY <1>2, <1>5, Values
  <2> QED
    BY <1>5, <2>1, <2>2 DEF Free
<1> QED
  BY <1>2, <1>3, <1>4, <1>5

\* A call whose work goes on.
Going(d) == work[d] \notin {"new", "ended"}

\* The frames that are there after a step of the work: the others, and new ones.
FramesKept(d, new) ==
  /\ \A f \in ToSet(stack') : f \in ToSet(stack) \/ (f.at \in new /\ f.call = d)
  /\ \A f \in ToSet(stack) : f.at \notin WaitPoints => f \in ToSet(stack')
  /\ Apart(stack) => Apart(stack')

\* The work of d goes on.
WorkKept(d) ==
  /\ UNCHANGED <<active, lease, listeners, recorded>>
  /\ \A e \in Calls : e # d => work'[e] = work[e]
  /\ work'[d] \notin {"new", "ended"}
  /\ work'[d] = "cancelled" => d \in aborted
  /\ work'[d] = "checking" => work[d] = "checking" \/ d \notin aborted
  /\ FramesKept(d, WaitPoints \cup {"arming"})

\* The work of d ends.
WorkEnded(d, response) ==
  /\ active' = FinishOwn(d)
  /\ lease' = [lease EXCEPT ![d] = "released"]
  /\ listeners' = Without(d)
  /\ \A e \in Calls : e # d => work'[e] = work[e]
  /\ work'[d] = "ended"
  /\ recorded' = [recorded EXCEPT ![d] = Append(@, "rpc-finished")]
  /\ response = "cancelled" => d \in aborted
  /\ response = "ok" => work[d] = "checking"
  /\ FramesKept(d, {"arming", "finishing"})
  /\ Frame("finishing", d, response) \in ToSet(stack')
  /\ \A f \in ToSet(stack') :
       f \in ToSet(stack) \/ (f.at = "arming" /\ f.call = d) \/
       f = Frame("finishing", d, response)

\* A step of the work of d.
WorkStep(d) ==
  /\ Going(d)
  /\ UNCHANGED <<options, session, aborted, timer, answer>>
  /\ \/ WorkKept(d)
     \/ \E response \in {"ok", "error", "cancelled"} : WorkEnded(d, response)

\* A stack on which the work of a call can wait or end: what was there, without the
\* frame the work was in, and maybe the rest of dispatch().
Below(below, d) ==
  /\ below \in Seq(FrameSet)
  /\ Apart(stack) => Apart(below)
  /\ \A f \in ToSet(below) : f \in ToSet(stack) \/ (f.at = "arming" /\ f.call = d)
  /\ \A f \in ToSet(stack) : f.at \notin WaitPoints => f \in ToSet(below)

\* One more frame, which aborts nothing.
LEMMA BelowPushed ==
  ASSUME NEW d, NEW below, Below(below, d), NEW f \in FrameSet, f.at # "aborting",
         NEW r, Pushed(below, r, f)
  PROVE  /\ Apart(stack) => Apart(r)
         /\ f \in ToSet(r)
         /\ \A g \in ToSet(r) : g \in ToSet(stack) \/ (g.at = "arming" /\ g.call = d) \/ g = f
         /\ \A g \in ToSet(stack) : g.at \notin WaitPoints => g \in ToSet(r)
<1>1. below \in Seq(FrameSet)
  BY DEF Below
<1>2. ToSet(r) = ToSet(below) \cup {f}
  BY <1>1, ValuesAppended
<1>3. Apart(below) => Apart(r)
  BY <1>1, ApartAppended DEF Alone
<1> QED
  BY <1>2, <1>3 DEF Below

LEMMA KeptFrom ==
  ASSUME Types, NEW d \in Calls, NEW below, Below(below, d), NEW state, NEW point,
         state \notin {"new", "ended"}, state = "cancelled" => d \in aborted,
         state = "checking" => work[d] = "checking" \/ d \notin aborted,
         point = "" \/ point \in WaitPoints,
         Suspend(d, state, point, below)
  PROVE  WorkKept(d)
<1> DEFINE f == Frame(point, d, "")
<1>1. /\ UNCHANGED <<active, lease, listeners, recorded>>
      /\ work' = [work EXCEPT ![d] = state]
      /\ stack' = IF point = "" THEN below ELSE Append(below, f)
  BY DEF Suspend, slots
<1>2. (\A e \in Calls : e # d => work'[e] = work[e]) /\ work'[d] = state
  BY <1>1 DEF Types
<1>3. FramesKept(d, WaitPoints \cup {"arming"})
  <2>1. CASE point = ""
    BY <1>1, <2>1 DEF Below, FramesKept
  <2>2. CASE point # ""
    <3>1. Pushed(below, stack', f)
      BY <1>1, <2>2 DEF Pushed
    <3>2. f \in FrameSet /\ f.at # "aborting"
      BY <2>2, FrameMade DEF Frame, WaitPoints, WorkPoints, BegunPoints, CheckPoints
    <3>5. f.at \in WaitPoints /\ f.call = d
      BY <2>2 DEF Frame
    <3> HIDE DEF f
    <3>3. /\ Apart(stack) => Apart(stack')
          /\ \A g \in ToSet(stack') :
               g \in ToSet(stack) \/ (g.at = "arming" /\ g.call = d) \/ g = f
          /\ \A g \in ToSet(stack) : g.at \notin WaitPoints => g \in ToSet(stack')
      BY <3>1, <3>2, BelowPushed
    <3>4. ASSUME NEW g \in ToSet(stack')
          PROVE  \/ g \in ToSet(stack)
                 \/ g.at \in WaitPoints \cup {"arming"} /\ g.call = d
      <4>1. CASE g = f
        BY <3>5, <4>1
      <4> QED
        BY <3>3, <4>1
    <3> QED
      BY <3>3, <3>4 DEF FramesKept
  <2> QED
    BY <2>1, <2>2
<1> QED
  BY <1>1, <1>2, <1>3 DEF WorkKept

LEMMA EndedFrom ==
  ASSUME Types, NEW d \in Calls, NEW below, Below(below, d),
         NEW response \in {"ok", "error", "cancelled"},
         response = "cancelled" => d \in aborted, response = "ok" => work[d] = "checking",
         EndWork(d, response, below)
  PROVE  WorkEnded(d, response)
<1> DEFINE f == Frame("finishing", d, response)
<1>1. /\ active' = FinishOwn(d)
      /\ lease' = [lease EXCEPT ![d] = "released"]
      /\ listeners' = Without(d)
      /\ recorded' = [recorded EXCEPT ![d] = Append(@, "rpc-finished")]
      /\ stack' = Append(below, f)
  BY DEF EndWork
<1>2. (\A e \in Calls : e # d => work'[e] = work[e]) /\ work'[d] = "ended"
  BY DEF EndWork, Types
<1>3. /\ f \in FrameSet /\ f.at = "finishing" /\ f.call = d
  BY FrameMade DEF Frame
<1>4. Pushed(below, stack', f)
  BY <1>1 DEF Pushed
<1>5. /\ FramesKept(d, {"arming", "finishing"})
      /\ f \in ToSet(stack')
      /\ \A g \in ToSet(stack') : g \in ToSet(stack) \/ (g.at = "arming" /\ g.call = d) \/ g = f
  <2> HIDE DEF f
  <2> QED
    BY <1>3, <1>4, BelowPushed DEF FramesKept
<1> QED
  BY <1>1, <1>2, <1>5 DEF WorkEnded

\* Where the work of the call on top, or of any call when the stack is empty, goes on.
LEMMA BelowTop ==
  ASSUME Types, stack # <<>>, Top.at \in WaitPoints
  PROVE  /\ Top.call \in Calls /\ Going(Top.call) /\ work[Top.call] = Expected(Top.at)
         /\ Below(Rest, Top.call)
         /\ Below(Append(Rest, Frame("arming", Top.call, "")), Top.call)
<1> DEFINE f == Frame("arming", Top.call, "")
<1>1. Top.call \in Calls /\ work[Top.call] = Expected(Top.at)
  BY TopParts DEF WaitPoints, WorkPoints, BegunPoints, CheckPoints
<1>2. Going(Top.call)
  BY <1>1 DEF Going, Expected
<1>3. f \in FrameSet /\ f.at = "arming" /\ f.call = Top.call
  BY <1>1, FrameMade DEF Frame
<1>4. Below(Rest, Top.call)
  BY TopFrames DEF Below
<1>5. Below(Append(Rest, f), Top.call)
  <2> DEFINE r == Append(Rest, f)
  <2> HIDE DEF f
  <2>1. /\ r \in Seq(FrameSet) /\ ToSet(r) = ToSet(Rest) \cup {f}
        /\ Rest \in Seq(FrameSet)
        /\ Apart(stack) => Apart(Rest)
        /\ ToSet(stack) = ToSet(Rest) \cup {Top}
    BY <1>3, TopFrames
  <2>2. Apart(Rest) => Apart(r)
    BY <1>3, <2>1, ApartAppended DEF Alone, Pushed
  <2> HIDE DEF r
  <2>3. Below(r, Top.call)
    BY <1>3, <2>1, <2>2 DEF Below
  <2> QED
    BY <2>3 DEF r
<1> QED
  BY <1>1, <1>2, <1>4, <1>5

LEMMA BelowEmpty ==
  ASSUME stack = <<>>, NEW d
  PROVE  Below(stack, d)
BY DEF Below

\* The actions that are steps of the work of a call.
LEMMA TopWorkSteps ==
  ASSUME Types, Start \/ Asked \/ Parsed \/ Handled \/ Checked \/ Denied \/ Refused \/ Invalidated
  PROVE  WorkStep(Top.call)
<1> DEFINE d == Top.call
           below == Append(Rest, Frame("arming", Top.call, ""))
<1>1. /\ stack # <<>> /\ Top.at \in WaitPoints
      /\ UNCHANGED <<options, session, aborted, timer, answer>>
  BY DEF Start, Asked, Parsed, Handled, Checked, Denied, Refused, Invalidated, At,
         WaitPoints, WorkPoints, BegunPoints, CheckPoints
<1>2. /\ d \in Calls /\ Going(d) /\ work[d] = Expected(Top.at)
      /\ Below(Rest, d) /\ Below(below, d)
  BY <1>1, BelowTop
<1>3. Top.at \in {"checking", "invalidating"} => work[d] = "checking"
  BY <1>2 DEF Expected, BegunPoints, CheckPoints
<1>4. \/ \E b \in {Rest, below}, point \in {"", "asking", "parsing", "handling", "refusing"},
            state \in {"begun", "authorizing", "running", "refused"} :
           Suspend(d, state, point, b)
      \/ work[d] = "checking" /\ Suspend(d, "checking", "invalidating", Rest)
      \/ d \notin aborted /\ Suspend(d, "checking", "checking", Rest)
      \/ \E b \in {Rest, below} : d \in aborted /\ EndWork(d, "cancelled", b)
      \/ EndWork(d, "error", Rest)
      \/ work[d] = "checking" /\ EndWork(d, "ok", Rest)
  <2>1. CASE Start
    BY <2>1 DEF Start, RunRegistered
  <2>2. CASE Asked \/ Denied \/ Refused
    BY <2>2 DEF Asked, Denied, Refused
  <2>3. CASE Parsed
    BY <2>3 DEF Parsed
  <2>4. CASE Handled
    BY <2>4 DEF Handled, Outcome
  <2>5. CASE Checked
    <3>1. work[d] = "checking"
      BY <1>3, <2>5 DEF Checked, At
    <3> QED
      BY <2>5, <3>1 DEF Checked
  <2>6. CASE Invalidated
    BY <2>6 DEF Invalidated, CancelledIfAborted
  <2> QED
    BY <2>1, <2>2, <2>3, <2>4, <2>5, <2>6
<1> HIDE DEF d, below
<1>5. ASSUME NEW b \in {Rest, below}, NEW state, NEW point, Suspend(d, state, point, b),
             \/ state \in {"begun", "authorizing", "running", "refused"}
             \/ state = "checking" /\ (work[d] = "checking" \/ d \notin aborted),
             point \in {"", "asking", "parsing", "handling", "refusing", "checking",
                        "invalidating"}
      PROVE  WorkKept(d)
  <2>1. /\ state \notin {"new", "ended"}
        /\ state = "cancelled" => d \in aborted
        /\ state = "checking" => work[d] = "checking" \/ d \notin aborted
    BY <1>5
  <2>2. point = "" \/ point \in WaitPoints
    BY <1>5 DEF WaitPoints, WorkPoints, BegunPoints, CheckPoints
  <2> QED
    BY <1>2, <1>5, <2>1, <2>2, KeptFrom
<1>6. ASSUME NEW b \in {Rest, below}, NEW response \in {"ok", "error", "cancelled"},
             EndWork(d, response, b), response = "cancelled" => d \in aborted,
             response = "ok" => work[d] = "checking"
      PROVE  WorkEnded(d, response)
  BY <1>2, <1>6, EndedFrom
<1>7. WorkKept(d) \/ \E response \in {"ok", "error", "cancelled"} : WorkEnded(d, response)
  <2>1. CASE \E b \in {Rest, below}, state \in {"begun", "authorizing", "running", "refused"},
               point \in {"", "asking", "parsing", "handling", "refusing"} :
               Suspend(d, state, point, b)
    <3>1. PICK b \in {Rest, below}, state \in {"begun", "authorizing", "running", "refused"},
               point \in {"", "asking", "parsing", "handling", "refusing"} :
                 Suspend(d, state, point, b)
      BY <2>1
    <3>2. point \in {"", "asking", "parsing", "handling", "refusing", "checking",
                     "invalidating"}
      OBVIOUS
    <3>3. WorkKept(d)
      <4>1. \/ state \in {"begun", "authorizing", "running", "refused"}
            \/ state = "checking" /\ (work[d] = "checking" \/ d \notin aborted)
        OBVIOUS
      <4> QED
        BY <1>5, <3>1, <3>2, <4>1
    <3> QED
      BY <3>3
  <2>2. CASE \/ work[d] = "checking" /\ Suspend(d, "checking", "invalidating", Rest)
             \/ d \notin aborted /\ Suspend(d, "checking", "checking", Rest)
    BY <1>5, <2>2
  <2>3. CASE \/ \E b \in {Rest, below} : d \in aborted /\ EndWork(d, "cancelled", b)
             \/ EndWork(d, "error", Rest)
             \/ work[d] = "checking" /\ EndWork(d, "ok", Rest)
    BY <1>6, <2>3
  <2> QED
    BY <1>4, <2>1, <2>2, <2>3
<1> QED
  BY <1>1, <1>2, <1>7 DEF WorkStep, d

LEMMA FreeWorkSteps ==
  ASSUME Types, NEW d \in Calls, Settle(d) \/ HandlerSettles(d) \/ Resume(d),
         work[d] = "cancelled" => d \in aborted
  PROVE  WorkStep(d)
<1>1. /\ stack = <<>> /\ Going(d)
      /\ UNCHANGED <<options, session, aborted, timer, answer>>
  BY DEF Settle, HandlerSettles, Resume, Going
<1>2. \/ \E point \in {"", "denying", "parsing"},
            state \in {"begun", "authorizing", "allowed", "refused", "succeeded", "failed"} :
           Suspend(d, state, point, stack)
      \/ d \in aborted /\ Suspend(d, "cancelled", "", stack)
      \/ d \notin aborted /\ Suspend(d, "checking", "checking", stack)
      \/ d \in aborted /\ EndWork(d, "cancelled", stack)
      \/ EndWork(d, "error", stack)
  <2>1. CASE Settle(d)
    BY <2>1 DEF Settle
  <2>2. CASE HandlerSettles(d)
    BY <2>2 DEF HandlerSettles
  <2>3. CASE Resume(d)
    BY <2>3 DEF Resume, Outcome, RunRegistered
  <2> QED
    BY <2>1, <2>2, <2>3
<1>3. Below(stack, d)
  BY <1>1, BelowEmpty
<1>4. ASSUME NEW state, NEW point, Suspend(d, state, point, stack),
             \/ state \in {"begun", "authorizing", "allowed", "refused", "succeeded", "failed"}
             \/ state = "cancelled" /\ d \in aborted
             \/ state = "checking" /\ d \notin aborted,
             point \in {"", "denying", "parsing", "checking"}
      PROVE  WorkKept(d)
  <2>1. /\ state \notin {"new", "ended"}
        /\ state = "cancelled" => d \in aborted
        /\ state = "checking" => work[d] = "checking" \/ d \notin aborted
    BY <1>4
  <2>2. point = "" \/ point \in WaitPoints
    BY <1>4 DEF WaitPoints, WorkPoints, BegunPoints, CheckPoints
  <2> QED
    BY <1>3, <1>4, <2>1, <2>2, KeptFrom
<1>5. WorkKept(d) \/ \E response \in {"ok", "error", "cancelled"} : WorkEnded(d, response)
  BY <1>2, <1>3, <1>4, EndedFrom
<1> QED
  BY <1>1, <1>5 DEF WorkStep

-----------------------------------------------------------------------------
(* The listeners of the session and what a cancellation changes *)

\* The listeners without a call.
LEMMA RemovedParts ==
  ASSUME NEW q \in Seq(Calls), Once(q), NEW d
  PROVE  /\ Removed(q, d) \in Seq(Calls) /\ Once(Removed(q, d))
         /\ ToSet(Removed(q, d)) = ToSet(q) \ {d}
<1>1. CASE Contains(q, d)
  <2>1. PICK k \in 1 .. Len(q) : k = CHOOSE i \in DOMAIN q : q[i] = d
    BY <1>1 DEF Contains
  <2>2. q[k] = d
    BY <1>1, <2>1 DEF Contains
  <2>3. Removed(q, d) = RemoveAt(q, k)
    BY <1>1, <2>1 DEF Removed
  <2> QED
    BY <2>2, <2>3, ValuesRemoved
<1>2. CASE ~Contains(q, d)
  <2>1. d \notin ToSet(q)
    BY <1>2, Values DEF Contains
  <2> QED
    BY <1>2, <2>1 DEF Removed
<1> QED
  BY <1>1, <1>2

\* A cancellation of d, which was not aborted or was.
Cancelled(d, id, heard, below) ==
  /\ d \in Calls /\ active[id] = d
  /\ active' = [active EXCEPT ![id] = NoCall]
  /\ aborted' = aborted \cup {d}
  /\ Once(listeners') /\ ToSet(listeners') = ToSet(heard) \ {d}
  /\ \/ d \in aborted /\ stack' = below
     \/ /\ d \notin aborted
        /\ Pushed(below, stack', Frame("aborting", d, "rpc-cancelled"))

LEMMA CancelParts ==
  ASSUME Types, NEW id \in Ids, NEW heard \in Seq(Calls), Once(heard), NEW below,
         CancelActive(id, heard, below)
  PROVE  \/ /\ active[id] = NoCall /\ UNCHANGED <<active, aborted>>
            /\ listeners' = heard /\ stack' = below
         \/ \E d \in Calls : Cancelled(d, id, heard, below)
<1>1. CASE active[id] = NoCall
  BY <1>1 DEF CancelActive
<1>2. CASE active[id] # NoCall
  <2>1. active[id] \in Calls
    BY <1>2 DEF Types
  <2>2. Cancelled(active[id], id, heard, below)
    BY <1>2, <2>1, RemovedParts DEF CancelActive, Cancelled, Pushed
  <2> QED
    BY <2>1, <2>2
<1> QED
  BY <1>1, <1>2

-----------------------------------------------------------------------------
(* The slots *)

\* A slot is held while the work goes on; who listens holds a slot, and is past the
\* point where it begins to listen.
Slots ==
  /\ \A d \in Calls : /\ lease[d] = "held" <=> Going(d)
                      /\ work[d] = "new" => lease[d] = "none"
  /\ Cardinality(Held) <= MaxConcurrentRpc
  /\ Once(listeners)
  /\ \A d \in ToSet(listeners) : lease[d] = "held"
  /\ \A f \in ToSet(stack) : f.at = "beginning" => f.call \notin ToSet(listeners)

\* No more beginning than before, and the same work goes on.
LEMMA SlotsQuiet ==
  ASSUME Slots, lease' = lease, \A d \in Calls : work[d] # "new" => work'[d] # "new",
         \A d \in Calls : Going(d) <=> work'[d] \notin {"new", "ended"},
         Once(listeners'), ToSet(listeners') \subseteq ToSet(listeners),
         \A f \in ToSet(stack') : f \in ToSet(stack) \/ f.at # "beginning"
  PROVE  Slots'
<1>1. Held' = Held
  BY DEF Held
<1> QED
  BY <1>1 DEF Slots, Going

\* The work of a call ends: its slot is free.
LEMMA SlotsEnded ==
  ASSUME Types, Slots, NEW d \in Calls, Going(d), NEW response, WorkEnded(d, response)
  PROVE  Slots'
<1>1. /\ lease'[d] = "released" /\ \A e \in Calls : e # d => lease'[e] = lease[e]
  BY DEF Types, WorkEnded
<1>2. Once(listeners') /\ ToSet(listeners') = ToSet(listeners) \ {d}
  BY RemovedParts DEF Types, Slots, WorkEnded, Without
<1>3. Cardinality(Held') <= MaxConcurrentRpc
  <2>1. Held' \subseteq Held
    BY <1>1 DEF Held
  <2>2. IsFiniteSet(Held)
    <3>1. IsFiniteSet(Calls)
      BY CallsAssumption, FS_Interval DEF Calls
    <3> QED
      BY <3>1, FS_Subset DEF Held
  <2>3. Cardinality(Held') <= Cardinality(Held)
    BY <2>1, <2>2, FS_Subset
  <2>4. Cardinality(Held') \in Nat /\ Cardinality(Held) \in Nat
    BY <2>1, <2>2, FS_Subset, FS_CardinalityType
  <2> QED
    BY <2>3, <2>4, LimitAssumption DEF Slots
<1>4. /\ work'[d] = "ended" /\ \A e \in Calls : e # d => work'[e] = work[e]
      /\ \A f \in ToSet(stack') : f \in ToSet(stack) \/ f.at # "beginning"
  BY DEF WorkEnded, Frame
<1>5. \A e \in ToSet(listeners) : e \in Calls
  BY Values DEF Types
<1>6. /\ \A e \in Calls : /\ lease'[e] = "held" <=> work'[e] \notin {"new", "ended"}
                          /\ work'[e] = "new" => lease'[e] = "none"
  BY <1>1, <1>4 DEF Slots, Going
<1>7. \A e \in ToSet(listeners') : lease'[e] = "held"
  BY <1>1, <1>2, <1>5 DEF Slots
<1>8. \A f \in ToSet(stack') : f.at = "beginning" => f.call \notin ToSet(listeners')
  BY <1>2, <1>4 DEF Slots
<1> QED
  BY <1>2, <1>3, <1>6, <1>7, <1>8 DEF Slots, Going

LEMMA SlotsInit == Init => Slots
<1> SUFFICES ASSUME Init PROVE Slots
  OBVIOUS
<1>1. Held = {} /\ Cardinality(Held) = 0
  BY FS_EmptySet DEF Held, Init
<1>2. ToSet(listeners) = {} /\ Once(listeners) /\ ToSet(stack) = {}
  BY ValuesEmpty DEF Init
<1> QED
  BY <1>1, <1>2, LimitAssumption DEF Init, Slots, Going

\* The slots of a call that enters, when there is one more.
LEMMA SlotsTaken ==
  ASSUME Types, Slots, NEW d \in Calls, work[d] = "new", HasSlot,
         work' = [work EXCEPT ![d] = "begun"], lease' = [lease EXCEPT ![d] = "held"],
         Once(listeners'), ToSet(listeners') \subseteq ToSet(listeners),
         \A f \in ToSet(stack') :
           f \in ToSet(stack) \/ f.at # "beginning" \/ f.call = d
  PROVE  Slots'
<1>1. /\ lease'[d] = "held" /\ \A e \in Calls : e # d => lease'[e] = lease[e]
      /\ work'[d] = "begun" /\ \A e \in Calls : e # d => work'[e] = work[e]
  BY DEF Types
<1>2. lease[d] = "none" /\ d \notin ToSet(listeners)
  BY DEF Slots
<1>3. Cardinality(Held') <= MaxConcurrentRpc
  <2>1. Held' = Held \cup {d}
    BY <1>1 DEF Held
  <2>2. IsFiniteSet(Held)
    <3>1. IsFiniteSet(Calls)
      BY CallsAssumption, FS_Interval DEF Calls
    <3> QED
      BY <3>1, FS_Subset DEF Held
  <2>3. d \notin Held
    BY <1>2 DEF Held
  <2>4. Cardinality(Held') = Cardinality(Held) + 1 /\ Cardinality(Held) \in Nat
    BY <2>1, <2>2, <2>3, FS_AddElement, FS_CardinalityType
  <2> QED
    BY <2>4, LimitAssumption DEF HasSlot
<1>4. \A e \in ToSet(listeners) : e \in Calls
  BY Values DEF Types
<1>5. \A e \in Calls : /\ lease'[e] = "held" <=> work'[e] \notin {"new", "ended"}
                       /\ work'[e] = "new" => lease'[e] = "none"
  BY <1>1 DEF Slots, Going
<1>6. \A e \in ToSet(listeners') : lease'[e] = "held"
  BY <1>1, <1>4 DEF Slots
<1>7. \A f \in ToSet(stack') : f.at = "beginning" => f.call \notin ToSet(listeners')
  BY <1>2 DEF Slots
<1> QED
  BY <1>3, <1>5, <1>6, <1>7 DEF Slots, Going

\* A cancellation takes a call out of the listeners at most.
LEMMA SlotsCancelled ==
  ASSUME Types, Slots, NEW id \in Ids, NEW heard \in Seq(Calls), Once(heard),
         ToSet(heard) \subseteq ToSet(listeners), NEW below \in Seq(FrameSet),
         CancelActive(id, heard, below)
  PROVE  /\ Once(listeners') /\ ToSet(listeners') \subseteq ToSet(listeners)
         /\ \A f \in ToSet(stack') : f \in ToSet(below) \/ f.at = "aborting"
<1>1. CASE listeners' = heard /\ stack' = below
  BY <1>1
<1>2. ASSUME NEW d \in Calls, Cancelled(d, id, heard, below)
      PROVE  /\ Once(listeners') /\ ToSet(listeners') \subseteq ToSet(listeners)
             /\ \A f \in ToSet(stack') : f \in ToSet(below) \/ f.at = "aborting"
  <2> DEFINE f == Frame("aborting", d, "rpc-cancelled")
  <2>1. f \in FrameSet /\ f.at = "aborting"
    BY FrameMade DEF Frame, Causes
  <2>2. stack' = below \/ Pushed(below, stack', f)
    BY <1>2 DEF Cancelled
  <2>3. \A g \in ToSet(stack') : g \in ToSet(below) \/ g.at = "aborting"
    <3> HIDE DEF f
    <3>1. CASE stack' = below
      BY <3>1
    <3>2. CASE Pushed(below, stack', f)
      BY <2>1, <3>2, ValuesAppended
    <3> QED
      BY <2>2, <3>1, <3>2
  <2> QED
    BY <1>2, <2>3 DEF Cancelled
<1> QED
  BY <1>1, <1>2, CancelParts

LEMMA SlotsNext ==
  ASSUME Types, Slots, \A d \in Calls : work[d] = "cancelled" => d \in aborted,
         [Next]_vars
  PROVE  Slots'
<1> USE DEF options, slots
<1>1. CASE Aborting
  <2> DEFINE f == Frame(Top.arg, Top.call, "")
  <2>1. stack # <<>> /\ Top.at = "aborting" /\ stack' = Append(Rest, f)
    BY <1>1 DEF Aborting, At
  <2>2. f \in FrameSet /\ f.at # "beginning"
    BY <2>1, TopParts, FrameMade DEF Frame, Causes
  <2>3. \A g \in ToSet(stack') : g \in ToSet(stack) \/ g.at # "beginning"
    <3> HIDE DEF f
    <3> QED
      BY <2>1, <2>2, TopFrames
  <2> QED
    BY <1>1, <2>3, SlotsQuiet DEF Aborting, Slots, Going
<1>2. CASE Recorded \/ TimedOut \/ Arm \/ Finished
  <2>1. /\ stack # <<>> /\ stack' = Rest
        /\ UNCHANGED <<work, lease, listeners>>
    BY <1>2 DEF Recorded, TimedOut, Arm, Finished, At
  <2>2. \A g \in ToSet(stack') : g \in ToSet(stack) \/ g.at # "beginning"
    BY <2>1, TopFrames
  <2> QED
    BY <2>1, <2>2, SlotsQuiet DEF Slots, Going
<1>3. CASE Begin
  <2> DEFINE d == Top.call
             f == Frame("starting", d, "")
             g == Frame("aborting", d, "rpc-cancelled")
             below == Append(Rest, f)
  <2>1. /\ stack # <<>> /\ Top.at = "beginning"
        /\ UNCHANGED <<work, lease>>
        /\ \/ stack' = below /\ listeners' = Append(listeners, d)
           \/ stack' = Append(below, g) /\ listeners' = listeners
    BY <1>3 DEF Begin, At
  <2>2. /\ d \in Calls /\ Top.at \in WorkPoints /\ work[d] = "begun"
        /\ Top \in ToSet(stack)
    BY <2>1, TopParts, TopFrames DEF Expected, WorkPoints, BegunPoints
  <2>3. /\ f \in FrameSet /\ f.at # "beginning"
        /\ g \in FrameSet /\ g.at # "beginning"
    BY <2>2, FrameMade DEF Frame, Causes, WorkPoints, BegunPoints
  <2>4. d \notin ToSet(listeners) /\ lease[d] = "held"
    BY <2>1, <2>2 DEF Slots, Going
  <2>5. /\ Once(listeners')
        /\ ToSet(listeners') \subseteq ToSet(listeners) \cup {d}
    <3>1. CASE listeners' = Append(listeners, d)
      <4>1. Pushed(listeners, listeners', d) /\ listeners \in Seq(Calls)
        BY <3>1 DEF Pushed, Types
      <4> HIDE DEF d
      <4> QED
        BY <2>2, <2>4, <4>1, ValuesAppended DEF Slots
    <3>2. CASE listeners' = listeners
      BY <3>2 DEF Slots
    <3> QED
      BY <2>1, <3>1, <3>2
  <2>6. \A h \in ToSet(stack') : h \in ToSet(Rest) \/ h.at # "beginning"
    <3> HIDE DEF d, f, g
    <3>1. below \in Seq(FrameSet) /\ ToSet(below) = ToSet(Rest) \cup {f}
      BY <2>1, <2>3, TopFrames
    <3>2. CASE stack' = below
      BY <2>3, <3>1, <3>2
    <3>3. CASE stack' = Append(below, g)
      <4> HIDE DEF below
      <4>1. Pushed(below, stack', g)
        BY <3>3 DEF Pushed
      <4> QED
        BY <2>3, <3>1, <4>1, ValuesAppended
    <3> QED
      BY <2>1, <3>2, <3>3
  <2>7. \A h \in ToSet(Rest) : h.at = "beginning" => h \in ToSet(stack) /\ h.call # d
    BY <2>1, <2>2, TopFrames DEF WorkPoints, BegunPoints
  <2>8. \A h \in ToSet(stack') : h.at = "beginning" => h.call \notin ToSet(listeners')
    <3> HIDE DEF d
    <3> QED
      BY <2>5, <2>6, <2>7 DEF Slots
  <2>9. Held' = Held /\ \A e \in ToSet(listeners') : lease'[e] = "held"
    <3> HIDE DEF d
    <3> QED
      BY <2>1, <2>4, <2>5 DEF Slots, Held
  <2> QED
    BY <2>1, <2>5, <2>8, <2>9 DEF Slots, Going
<1>4. ASSUME NEW d \in Calls, WorkStep(d)
      PROVE  Slots'
  <2>1. Going(d)
    BY <1>4 DEF WorkStep
  <2>2. CASE WorkKept(d)
    <3>1. /\ lease' = lease /\ listeners' = listeners
          /\ \A e \in Calls : e # d => work'[e] = work[e]
          /\ work'[d] \notin {"new", "ended"}
          /\ \A f \in ToSet(stack') : f \in ToSet(stack) \/ f.at # "beginning"
      BY <2>2 DEF WorkKept, FramesKept, WaitPoints
    <3> QED
      BY <2>1, <3>1, SlotsQuiet DEF Slots, Going
  <2>3. ASSUME NEW response, WorkEnded(d, response)
        PROVE  Slots'
    BY <2>1, <2>3, SlotsEnded
  <2> QED
    BY <1>4, <2>2, <2>3 DEF WorkStep
<1>5. CASE Start \/ Asked \/ Parsed \/ Handled \/ Checked \/ Denied \/ Refused \/ Invalidated
  <2>1. Top.call \in Calls
    BY <1>5, TopParts DEF Start, Asked, Parsed, Handled, Checked, Denied, Refused,
       Invalidated, At
  <2> QED
    BY <1>4, <1>5, <2>1, TopWorkSteps
<1>6. ASSUME NEW d \in Calls, Settle(d) \/ HandlerSettles(d) \/ Resume(d)
      PROVE  Slots'
  BY <1>4, <1>6, FreeWorkSteps
<1>7. CASE Retired
  <2> DEFINE f == Frame("dispatching", NoCall, "")
  <2>1. /\ stack # <<>> /\ stack' = Append(Rest, f)
        /\ UNCHANGED <<work, lease, listeners>>
    BY <1>7 DEF Retired, At
  <2>2. f \in FrameSet /\ f.at # "beginning"
    BY FrameMade DEF Frame
  <2>3. \A g \in ToSet(stack') : g \in ToSet(stack) \/ g.at # "beginning"
    <3> HIDE DEF f
    <3> QED
      BY <2>1, <2>2, TopFrames
  <2> QED
    BY <2>1, <2>3, SlotsQuiet DEF Slots, Going
<1>8. CASE Retire
  <2> DEFINE f == Frame("retiring", NoCall, "")
  <2>1. /\ Pushed(stack, stack', f) /\ stack \in Seq(FrameSet)
        /\ UNCHANGED <<work, lease, listeners>>
    BY <1>8 DEF Retire, Pushed, Types, Good
  <2>2. f \in FrameSet /\ f.at # "beginning"
    BY FrameMade DEF Frame
  <2>3. \A g \in ToSet(stack') : g \in ToSet(stack) \/ g.at # "beginning"
    <3> HIDE DEF f
    <3> QED
      BY <2>1, <2>2, ValuesAppended
  <2> QED
    BY <2>1, <2>3, SlotsQuiet DEF Slots, Going
<1>9. CASE NotifyRetired
  <2>1. CASE listeners = <<>>
    <3>1. /\ stack # <<>> /\ stack' = Rest
          /\ UNCHANGED <<work, lease, listeners>>
      BY <1>9, <2>1 DEF NotifyRetired, At
    <3>2. \A g \in ToSet(stack') : g \in ToSet(stack) \/ g.at # "beginning"
      BY <3>1, TopFrames
    <3> QED
      BY <3>1, <3>2, SlotsQuiet DEF Slots, Going
  <2>2. CASE listeners # <<>>
    <3> DEFINE id == IdOf(Head(listeners))
               heard == Tail(listeners)
    <3>1. /\ heard \in Seq(Calls) /\ Once(heard)
          /\ ToSet(heard) \subseteq ToSet(listeners) /\ Head(listeners) \in Calls
      <4>1. listeners \in Seq(Calls) /\ Once(listeners)
        BY DEF Types, Slots
      <4> QED
        BY <2>2, <4>1, ValuesTail, QueueParts
    <3>2. id \in Ids
      BY <3>1, IdOfCall
    <3>3. CancelActive(id, heard, stack) /\ UNCHANGED <<work, lease>>
      BY <1>9, <2>2 DEF NotifyRetired
    <3> HIDE DEF id, heard
    <3>4. /\ Once(listeners') /\ ToSet(listeners') \subseteq ToSet(listeners)
          /\ \A f \in ToSet(stack') : f \in ToSet(stack) \/ f.at = "aborting"
      BY <3>1, <3>2, <3>3, SlotsCancelled DEF Types, Good
    <3> QED
      BY <3>3, <3>4, SlotsQuiet DEF Going
  <2> QED
    BY <2>1, <2>2
<1>10. ASSUME NEW id \in Ids, Cancel(id)
       PROVE  Slots'
  <2>1. CancelActive(id, listeners, stack) /\ UNCHANGED <<work, lease>>
    BY <1>10 DEF Cancel
  <2>2. /\ Once(listeners') /\ ToSet(listeners') \subseteq ToSet(listeners)
        /\ \A f \in ToSet(stack') : f \in ToSet(stack) \/ f.at = "aborting"
    BY <2>1, SlotsCancelled DEF Types, Good, Slots
  <2> QED
    BY <2>1, <2>2, SlotsQuiet DEF Going
<1>11. ASSUME NEW d \in Calls, Deadline(d)
       PROVE  Slots'
  <2> DEFINE f == Frame("aborting", d, "rpc-timed-out")
  <2>1. /\ stack = <<>> /\ UNCHANGED <<work, lease, listeners>>
        /\ stack' = stack \/ stack' = <<f>>
    BY <1>11 DEF Deadline
  <2>2. f \in FrameSet /\ f.at # "beginning"
    BY FrameMade DEF Frame, Causes
  <2>3. \A g \in ToSet(stack') : g \in ToSet(stack) \/ g.at # "beginning"
    <3> HIDE DEF f
    <3>1. CASE stack' = <<f>>
      <4>1. Pushed(stack, stack', f) /\ stack \in Seq(FrameSet)
        BY <2>1, <3>1 DEF Pushed
      <4> QED
        BY <2>2, <4>1, ValuesAppended
    <3> QED
      BY <2>1, <3>1
  <2> QED
    BY <2>1, <2>3, SlotsQuiet DEF Slots, Going
<1>12. ASSUME NEW d \in Calls, Dispatch(d)
       PROVE  Slots'
  <2>1. work[d] = "new" /\ stack \in Seq(FrameSet)
    BY <1>12 DEF Dispatch, Types, Good
  <2>2. CASE /\ work' = [work EXCEPT ![d] = "ended"]
             /\ stack' = Append(stack, Frame("rejected", d, ""))
             /\ UNCHANGED <<active, aborted, slots>>
    <3> DEFINE f == Frame("rejected", d, "")
    <3>1. f \in FrameSet /\ f.at # "beginning"
      BY FrameMade DEF Frame
    <3>2. \A g \in ToSet(stack') : g \in ToSet(stack) \/ g.at # "beginning"
      <4>1. Pushed(stack, stack', f)
        BY <2>2 DEF Pushed
      <4> HIDE DEF f
      <4> QED
        BY <2>1, <3>1, <4>1, ValuesAppended
    <3>3. /\ \A e \in Calls : work[e] # "new" => work'[e] # "new"
          /\ \A e \in Calls : Going(e) <=> work'[e] \notin {"new", "ended"}
      BY <2>1, <2>2 DEF Types, Going
    <3> QED
      BY <2>2, <3>2, <3>3, SlotsQuiet DEF Slots
  <2>3. CASE /\ HasSlot
             /\ work' = [work EXCEPT ![d] = "begun"]
             /\ lease' = [lease EXCEPT ![d] = "held"]
             /\ CancelActive(IdOf(d), listeners,
                             Append(stack, Frame("beginning", d, "")))
    <3> DEFINE f == Frame("beginning", d, "")
               below == Append(stack, f)
    <3>1. f \in FrameSet /\ f.call = d
      BY FrameMade DEF Frame, WorkPoints, BegunPoints
    <3>2. below \in Seq(FrameSet) /\ ToSet(below) = ToSet(stack) \cup {f}
      <4>1. Pushed(stack, below, f)
        BY DEF Pushed
      <4> HIDE DEF f, below
      <4> QED
        BY <2>1, <3>1, <4>1, ValuesAppended
    <3>3. IdOf(d) \in Ids
      BY IdOfCall
    <3>4. CancelActive(IdOf(d), listeners, below)
      BY <2>3
    <3>5. /\ Once(listeners') /\ ToSet(listeners') \subseteq ToSet(listeners)
          /\ \A g \in ToSet(stack') : g \in ToSet(below) \/ g.at = "aborting"
      <4> HIDE DEF below
      <4> QED
        BY <3>2, <3>3, <3>4, SlotsCancelled DEF Types, Slots
    <3>6. \A g \in ToSet(stack') : g \in ToSet(stack) \/ g.at # "beginning" \/ g.call = d
      <4> HIDE DEF f, below
      <4> QED
        BY <3>1, <3>2, <3>5
    <3> QED
      BY <2>1, <2>3, <3>5, <3>6, SlotsTaken
  <2> QED
    BY <1>12, <2>2, <2>3 DEF Dispatch
<1>13. CASE UNCHANGED vars
  <2>1. UNCHANGED <<work, lease, listeners, stack>>
    BY <1>13 DEF vars
  <2> QED
    BY <2>1, SlotsQuiet DEF Slots, Going
<1> QED
  BY <1>1, <1>2, <1>3, <1>5, <1>6, <1>7, <1>8, <1>9, <1>10, <1>11, <1>12, <1>13
  DEF Next, Return

-----------------------------------------------------------------------------
(* What is recorded, and what is answered *)

\* A cause of the end of d was recorded.
CauseKnown(d) == \E cause \in Causes : cause \in ToSet(recorded[d])

\* What a call in progress says of the call it is about: an abort whose listeners
\* run has no cause recorded yet, and a call that begins cannot be reached yet.
FrameTold(f) ==
  /\ f.at = "aborting" => f.call \in aborted /\ ~CauseKnown(f.call)
  /\ f.at = "rpc-timed-out" => "rpc-timed-out" \in ToSet(recorded[f.call])
  /\ f.at = "finishing" =>
       /\ work[f.call] = "ended"
       /\ f.arg = "cancelled" => f.call \in aborted
  /\ f.at = "beginning" => f.call \notin aborted /\ \A i \in Ids : active[i] # f.call
  /\ f.at = "arming" => work[f.call] # "new"

\* What is recorded and answered agrees with the state of the call.
CallTold(d) ==
  /\ CauseKnown(d) => d \in aborted
  /\ Once(recorded[d]) /\ ~(Causes \subseteq ToSet(recorded[d]))
  /\ "rpc-finished" \in ToSet(recorded[d]) => work[d] = "ended"
  /\ work[d] = "new" => d \notin aborted /\ d \notin timer /\ \A i \in Ids : active[i] # d
  /\ work[d] = "cancelled" => d \in aborted
  /\ work[d] # "ended" => answer[d] # "ok"
  /\ answer[d] = "cancelled" => d \in aborted
  /\ answer[d] = "deadline" => "rpc-timed-out" \in ToSet(recorded[d])

\* An abort without a cause is still under way.
Aborts == \A d \in aborted :
  CauseKnown(d) \/ \E f \in ToSet(stack) : f.at = "aborting" /\ f.call = d

Told ==
  /\ Apart(stack) /\ Aborts
  /\ \A f \in ToSet(stack) : FrameTold(f)
  /\ \A d \in Calls : CallTold(d)

\* The frames of the stack are frames.
LEMMA FramesTyped ==
  ASSUME Types, NEW f \in ToSet(stack)
  PROVE  f \in FrameSet /\ (f.at \notin {"retiring", "dispatching"} => f.call \in Calls)
<1>1. f \in FrameSet
  BY Values DEF Types, Good
<1> QED
  BY <1>1, FrameParts

\* Steps that abort and record nothing.
LEMMA ToldQuiet ==
  ASSUME Types, Told, UNCHANGED <<aborted, recorded>>, Apart(stack'),
         \A i \in Ids : active'[i] \in {active[i], NoCall},
         \A f \in ToSet(stack') : f \in ToSet(stack) \/ FrameTold(f)',
         \A f \in ToSet(stack) : f.at = "aborting" => f \in ToSet(stack'),
         \A d \in Calls : /\ work'[d] = "new" => work[d] = "new"
                          /\ work[d] = "ended" => work'[d] = "ended"
                          /\ work'[d] = "cancelled" => d \in aborted
                          /\ d \in timer' => d \in timer \/ work'[d] # "new"
                          /\ \/ answer'[d] = answer[d]
                             \/ answer'[d] = "error"
                             \/ answer'[d] = "cancelled" /\ d \in aborted
                             \/ answer'[d] = "deadline" /\ "rpc-timed-out" \in ToSet(recorded[d])
                             \/ answer'[d] = "ok" /\ work'[d] = "ended"
  PROVE  Told'
<1>1. \A d : CauseKnown(d)' <=> CauseKnown(d)
  BY DEF CauseKnown
<1>2. \A f \in ToSet(stack') : FrameTold(f)'
  <2>1. ASSUME NEW f \in ToSet(stack')
        PROVE  FrameTold(f)'
    <3>1. CASE f \in ToSet(stack)
      <4>1. FrameTold(f)
        BY <3>1 DEF Told
      <4>2. /\ f.at \in {"beginning", "finishing", "arming"} => f.call \in Calls
            /\ NoCall \notin Calls
        BY <3>1, FramesTyped DEF NoCall, Calls
      <4> QED
        BY <1>1, <3>1, <4>1, <4>2 DEF FrameTold
    <3> QED
      BY <3>1
  <2> QED
    BY <2>1
<1>3. \A d \in Calls : CallTold(d)'
  <2>1. ASSUME NEW d \in Calls
        PROVE  CallTold(d)'
    <3>1. CallTold(d) /\ d # NoCall
      BY DEF Told, NoCall, Calls
    <3> QED
      BY <1>1, <3>1 DEF CallTold
  <2> QED
    BY <2>1
<1>4. Aborts'
  BY <1>1 DEF Told, Aborts
<1> QED
  BY <1>2, <1>3, <1>4 DEF Told

\* Steps after which d is aborted, and was not: the only new frames about a cause
\* are the one that aborts d.
LEMMA ToldAborted ==
  ASSUME Types, Told, NEW d \in Calls, d \notin aborted, work'[d] # "new",
         aborted' = aborted \cup {d}, UNCHANGED <<recorded, timer, answer>>, Apart(stack'),
         \E f \in ToSet(stack') : f.at = "aborting" /\ f.call = d,
         \A f \in ToSet(stack') :
           \/ f \in ToSet(stack) /\ (f.at = "beginning" => f.call # d)
           \/ f.at = "aborting" /\ f.call = d
           \/ f.at = "starting"
           \/ /\ f.at = "beginning" /\ f.call \in Calls
              /\ f.call \notin aborted' /\ \A i \in Ids : active[i] # f.call,
         \A f \in ToSet(stack) : f.at = "aborting" => f \in ToSet(stack'),
         \A e \in Calls : /\ work'[e] = "new" => work[e] = "new"
                          /\ work[e] = "ended" => work'[e] = "ended"
                          /\ work'[e] = "cancelled" => work[e] = "cancelled",
         \A i \in Ids : active'[i] \in {active[i], NoCall}
  PROVE  Told'
<1>1. (\A e : CauseKnown(e)' <=> CauseKnown(e)) /\ ~CauseKnown(d)
  BY DEF CauseKnown, Told, CallTold
<1>2. \A f \in ToSet(stack') : FrameTold(f)'
  <2>1. ASSUME NEW f \in ToSet(stack')
        PROVE  FrameTold(f)'
    <3>1. CASE f \in ToSet(stack) /\ (f.at = "beginning" => f.call # d)
      <4>1. FrameTold(f)
        BY <3>1 DEF Told
      <4>2. /\ f.at \in {"beginning", "finishing", "arming"} => f.call \in Calls
            /\ NoCall \notin Calls
        BY <3>1, FramesTyped DEF NoCall, Calls
      <4> QED
        BY <1>1, <3>1, <4>1, <4>2 DEF FrameTold
    <3>2. CASE f.at = "aborting" /\ f.call = d
      BY <1>1, <3>2 DEF FrameTold
    <3>3. CASE f.at = "starting"
      BY <3>3 DEF FrameTold
    <3>4. CASE /\ f.at = "beginning" /\ f.call \in Calls
               /\ f.call \notin aborted' /\ \A i \in Ids : active[i] # f.call
      BY <3>4 DEF FrameTold, NoCall, Calls
    <3> QED
      BY <3>1, <3>2, <3>3, <3>4
  <2> QED
    BY <2>1
<1>3. \A e \in Calls : CallTold(e)'
  <2>1. ASSUME NEW e \in Calls
        PROVE  CallTold(e)'
    <3>1. CallTold(e) /\ e # NoCall
      BY DEF Told, NoCall, Calls
    <3> QED
      BY <1>1, <3>1 DEF CallTold
  <2> QED
    BY <2>1
<1>4. Aborts'
  BY <1>1 DEF Told, Aborts
<1> QED
  BY <1>2, <1>3, <1>4 DEF Told

LEMMA ToldInit == Init => Told
<1> SUFFICES ASSUME Init PROVE Told
  OBVIOUS
<1>1. ToSet(stack) = {} /\ Apart(stack)
  BY ValuesEmpty DEF Init, Apart
<1>2. \A d \in Calls : ToSet(recorded[d]) = {} /\ Once(recorded[d])
  BY ValuesEmpty DEF Init
<1>3. \A d \in Calls : CallTold(d)
  BY <1>2 DEF CallTold, CauseKnown, Causes, Init, NoCall, Calls
<1>4. Aborts
  BY DEF Aborts, Init
<1> QED
  BY <1>1, <1>3, <1>4 DEF Told

\* Popping a frame that is not about a cause, and maybe pushing one.
LEMMA ToldTop ==
  ASSUME Types, Told, stack # <<>>, Top.at # "aborting",
         UNCHANGED <<active, aborted, recorded, work>>,
         \/ stack' = Rest
         \/ \E f \in FrameSet : /\ f.at \in {"dispatching", "starting"}
                                /\ stack' = Append(Rest, f)
  PROVE  /\ Apart(stack')
         /\ \A f \in ToSet(stack') : f \in ToSet(stack) \/ FrameTold(f)'
         /\ \A f \in ToSet(stack) : f.at = "aborting" => f \in ToSet(stack')
<1>1. /\ Rest \in Seq(FrameSet) /\ ToSet(stack) = ToSet(Rest) \cup {Top} /\ Apart(Rest)
  BY TopFrames DEF Told
<1>2. CASE stack' = Rest
  BY <1>1, <1>2
<1>3. ASSUME NEW f \in FrameSet, f.at \in {"dispatching", "starting"},
             stack' = Append(Rest, f)
      PROVE  /\ Apart(stack')
             /\ \A g \in ToSet(stack') : g \in ToSet(stack) \/ FrameTold(g)'
             /\ \A g \in ToSet(stack) : g.at = "aborting" => g \in ToSet(stack')
  <2>1. Pushed(Rest, stack', f)
    BY <1>3 DEF Pushed
  <2>2. ToSet(stack') = ToSet(Rest) \cup {f}
    BY <1>1, <2>1, ValuesAppended
  <2>3. Apart(stack')
    BY <1>1, <1>3, <2>1, ApartAppended DEF Alone
  <2>4. FrameTold(f)'
    BY <1>3 DEF FrameTold
  <2> QED
    BY <1>1, <2>2, <2>3, <2>4
<1> QED
  BY <1>2, <1>3

\* The cause of an abort is recorded.
LEMMA ToldAborting ==
  ASSUME Types, Told, Aborting
  PROVE  Told'
<1>0. PICK d, c, f : d = Top.call /\ c = Top.arg /\ f = Frame(c, d, "")
  OBVIOUS
<1>1. /\ stack # <<>> /\ Top.at = "aborting" /\ stack' = Append(Rest, f)
      /\ recorded' = [recorded EXCEPT ![d] = Append(@, c)]
      /\ UNCHANGED <<active, work, aborted, timer, answer>>
  BY <1>0 DEF Aborting, At, slots
<1>2. /\ d \in Calls /\ c \in Causes
      /\ f \in FrameSet /\ f.at = c /\ f.call = d
  BY <1>0, <1>1, TopParts, FrameMade DEF Frame, Causes
<1>3. /\ Rest \in Seq(FrameSet) /\ ToSet(stack) = ToSet(Rest) \cup {Top}
      /\ Apart(Rest) /\ Alone(Rest, Top)
  BY <1>1, TopFrames DEF Told
<1>4. FrameTold(Top) /\ CallTold(d) /\ d \in aborted /\ ~CauseKnown(d)
  BY <1>0, <1>1, <1>2, <1>3 DEF Told, FrameTold
<1>5. /\ ToSet(recorded'[d]) = ToSet(recorded[d]) \cup {c} /\ Once(recorded'[d])
      /\ \A e \in Calls : e # d => recorded'[e] = recorded[e]
  <2> DEFINE S == {"rpc-cancelled", "rpc-timed-out", "rpc-finished"}
  <2>1. recorded[d] \in Seq(S) /\ c \in S /\ recorded'[d] = Append(recorded[d], c)
    BY <1>1, <1>2 DEF Types, Causes
  <2>2. Pushed(recorded[d], recorded'[d], c) /\ c \notin ToSet(recorded[d])
    BY <1>2, <1>4, <2>1 DEF Pushed, CauseKnown
  <2>3. Once(recorded[d])
    BY <1>4 DEF CallTold
  <2> HIDE DEF S
  <2>4. ToSet(recorded'[d]) = ToSet(recorded[d]) \cup {c} /\ Once(recorded'[d])
    BY <2>1, <2>2, <2>3, ValuesAppended
  <2>5. \A e \in Calls : e # d => recorded'[e] = recorded[e]
    BY <1>1 DEF Types
  <2> QED
    BY <2>4, <2>5
<1>6. ToSet(stack') = ToSet(Rest) \cup {f} /\ Apart(stack')
  <2>1. Pushed(Rest, stack', f)
    BY <1>1 DEF Pushed
  <2> QED
    BY <1>2, <1>3, <2>1, ValuesAppended, ApartAppended DEF Alone, Causes
<1>7. \A e \in Calls : CauseKnown(e)' <=> CauseKnown(e) \/ e = d
  BY <1>2, <1>5 DEF CauseKnown
<1>8. \A g \in ToSet(stack') : FrameTold(g)'
  <2>1. ASSUME NEW g \in ToSet(Rest)
        PROVE  FrameTold(g)'
    <3>1. FrameTold(g) /\ (g.at \notin {"retiring", "dispatching"} => g.call \in Calls)
      BY <1>3, FramesTyped DEF Told
    <3>2. g.at = "aborting" => g.call # d
      BY <1>0, <1>1, <1>3 DEF Alone
    <3> QED
      BY <1>1, <1>5, <1>7, <3>1, <3>2 DEF FrameTold
  <2>2. FrameTold(f)'
    BY <1>2, <1>5 DEF FrameTold, Causes
  <2> QED
    BY <1>6, <2>1, <2>2
<1>9. \A e \in Calls : CallTold(e)'
  <2>1. ASSUME NEW e \in Calls, e # d
        PROVE  CallTold(e)'
    <3>1. CallTold(e)
      BY DEF Told
    <3> QED
      BY <1>1, <1>5, <1>7, <2>1, <3>1 DEF CallTold
  <2>2. CallTold(d)'
    BY <1>1, <1>2, <1>4, <1>5, <1>7 DEF CallTold, CauseKnown, Causes
  <2> QED
    BY <2>1, <2>2
<1>10. Aborts'
  <2>1. \A e \in aborted : e \in Calls
    BY DEF Types
  <2> QED
    BY <1>0, <1>1, <1>3, <1>6, <1>7, <2>1 DEF Told, Aborts
<1> QED
  BY <1>6, <1>8, <1>9, <1>10 DEF Told

\* The work of a call ends: rpc-finished is recorded, once.
LEMMA ToldEnded ==
  ASSUME Types, Told, NEW d \in Calls, Going(d),
         NEW response \in {"ok", "error", "cancelled"}, WorkEnded(d, response),
         UNCHANGED <<aborted, timer, answer>>
  PROVE  Told'
<1>1. /\ \A i \in Ids : active'[i] \in {active[i], NoCall}
      /\ work'[d] = "ended" /\ \A e \in Calls : e # d => work'[e] = work[e]
      /\ \A f \in ToSet(stack') :
           f \in ToSet(stack) \/ (f.at = "arming" /\ f.call = d) \/
           f = Frame("finishing", d, response)
      /\ \A f \in ToSet(stack) : f.at = "aborting" => f \in ToSet(stack')
      /\ Apart(stack')
      /\ response = "cancelled" => d \in aborted
  BY DEF WorkEnded, FinishOwn, FramesKept, Told, WaitPoints, WorkPoints, BegunPoints,
         CheckPoints
<1>2. CallTold(d) /\ "rpc-finished" \notin ToSet(recorded[d])
  BY DEF Told, CallTold, Going
<1>3. /\ ToSet(recorded'[d]) = ToSet(recorded[d]) \cup {"rpc-finished"} /\ Once(recorded'[d])
      /\ \A e \in Calls : e # d => recorded'[e] = recorded[e]
  <2> DEFINE S == {"rpc-cancelled", "rpc-timed-out", "rpc-finished"}
             c == "rpc-finished"
  <2>1. /\ recorded[d] \in Seq(S) /\ c \in S /\ recorded'[d] = Append(recorded[d], c)
        /\ \A e \in Calls : e # d => recorded'[e] = recorded[e]
    BY DEF Types, WorkEnded
  <2>2. Pushed(recorded[d], recorded'[d], c) /\ c \notin ToSet(recorded[d])
    BY <1>2, <2>1 DEF Pushed
  <2>3. Once(recorded[d])
    BY <1>2 DEF CallTold
  <2> HIDE DEF S, c
  <2>4. ToSet(recorded'[d]) = ToSet(recorded[d]) \cup {c} /\ Once(recorded'[d])
    BY <2>1, <2>2, <2>3, ValuesAppended
  <2> QED
    BY <2>1, <2>4 DEF c
<1>4. \A e \in Calls : CauseKnown(e)' <=> CauseKnown(e)
  BY <1>3 DEF CauseKnown, Causes
<1>5. \A f \in ToSet(stack') : FrameTold(f)'
  <2>1. ASSUME NEW f \in ToSet(stack)
        PROVE  FrameTold(f)'
    <3>1. /\ FrameTold(f)
          /\ f.at \notin {"retiring", "dispatching"} => f.call \in Calls
          /\ NoCall \notin Calls
      BY FramesTyped DEF Told, NoCall, Calls
    <3> QED
      BY <1>1, <1>3, <1>4, <3>1 DEF FrameTold
  <2>2. ASSUME NEW f, f.at = "arming" /\ f.call = d
        PROVE  FrameTold(f)'
    BY <1>1, <2>2 DEF FrameTold
  <2>3. ASSUME NEW f, f = Frame("finishing", d, response)
        PROVE  FrameTold(f)'
    <3>1. f.at = "finishing" /\ f.call = d /\ f.arg = response
      BY <2>3 DEF Frame
    <3> QED
      BY <1>1, <3>1 DEF FrameTold
  <2> QED
    BY <1>1, <2>1, <2>2, <2>3
<1>6. \A e \in Calls : CallTold(e)'
  <2>1. ASSUME NEW e \in Calls, e # d
        PROVE  CallTold(e)'
    <3>1. CallTold(e) /\ e # NoCall
      BY DEF Told, NoCall, Calls
    <3> QED
      BY <1>1, <1>3, <1>4, <2>1, <3>1 DEF CallTold
  <2>2. CallTold(d)'
    BY <1>1, <1>2, <1>3, <1>4 DEF CallTold, Causes
  <2> QED
    BY <2>1, <2>2
<1>7. Aborts'
  <2>1. \A e \in aborted : e \in Calls
    BY DEF Types
  <2> QED
    BY <1>1, <1>4, <2>1 DEF Told, Aborts
<1> QED
  BY <1>1, <1>5, <1>6, <1>7 DEF Told

\* The work of a call goes on.
LEMMA ToldKept ==
  ASSUME Types, Told, NEW d \in Calls, Going(d), WorkKept(d),
         UNCHANGED <<aborted, timer, answer>>
  PROVE  Told'
<1>1. /\ UNCHANGED <<active, recorded>>
      /\ work'[d] \notin {"new", "ended"} /\ \A e \in Calls : e # d => work'[e] = work[e]
      /\ work'[d] = "cancelled" => d \in aborted
      /\ \A f \in ToSet(stack) : f.at = "aborting" => f \in ToSet(stack')
      /\ Apart(stack')
  BY DEF WorkKept, FramesKept, Told, WaitPoints, WorkPoints, BegunPoints, CheckPoints
<1>2. ASSUME NEW f \in ToSet(stack'), f \notin ToSet(stack)
      PROVE  FrameTold(f)'
  <2>1. /\ f.at \notin {"aborting", "rpc-timed-out", "finishing", "beginning"}
        /\ f.at = "arming" => f.call = d
    BY <1>2 DEF WorkKept, FramesKept, WaitPoints, WorkPoints, BegunPoints, CheckPoints
  <2> QED
    BY <1>1, <2>1 DEF FrameTold
<1>3. \A e \in Calls : CallTold(e)
  BY DEF Told
<1>4. \A e \in Calls : /\ work'[e] = "new" => work[e] = "new"
                       /\ work[e] = "ended" => work'[e] = "ended"
                       /\ work'[e] = "cancelled" => e \in aborted
  BY <1>1, <1>3 DEF CallTold, Going
<1> QED
  BY <1>1, <1>2, <1>4, ToldQuiet

\* A cancellation, on the stack as it is or under a new frame that begins a call.
LEMMA ToldCancel ==
  ASSUME Types, Told, NEW id \in Ids, NEW heard \in Seq(Calls), Once(heard),
         NEW below \in Seq(FrameSet), CancelActive(id, heard, below), Apart(below),
         UNCHANGED <<recorded, timer, answer>>,
         \A f \in ToSet(below) :
           \/ f \in ToSet(stack)
           \/ /\ f.at = "beginning" /\ f.call \in Calls /\ f.call \notin aborted
              /\ \A i \in Ids : active[i] # f.call,
         \A f \in ToSet(stack) : f.at = "aborting" => f \in ToSet(below),
         \A e \in Calls : /\ work'[e] = "new" => work[e] = "new"
                          /\ work[e] = "ended" => work'[e] = "ended"
                          /\ work'[e] = "cancelled" => work[e] = "cancelled"
  PROVE  Told'
<1>1. \A e \in Calls : CallTold(e)
  BY DEF Told
<1>2. \A f \in ToSet(below) : f.at = "beginning" =>
        f.call \in Calls /\ f.call \notin aborted /\ \A i \in Ids : active[i] # f.call
  BY FramesTyped DEF Told, FrameTold
<1>3. CASE UNCHANGED <<active, aborted>> /\ stack' = below
  <2>1. ASSUME NEW f \in ToSet(stack'), f \notin ToSet(stack)
        PROVE  FrameTold(f)'
    <3>1. /\ f.at = "beginning" /\ f.call \notin aborted
          /\ \A i \in Ids : active[i] # f.call
      BY <1>3, <2>1
    <3> QED
      BY <1>3, <3>1 DEF FrameTold
  <2>2. /\ \A i \in Ids : active'[i] \in {active[i], NoCall}
        /\ \A e \in Calls : work'[e] = "cancelled" => e \in aborted
    BY <1>1, <1>3 DEF CallTold
  <2> QED
    BY <1>3, <2>1, <2>2, ToldQuiet
<1>4. ASSUME NEW d \in Calls, Cancelled(d, id, heard, below)
      PROVE  Told'
  <2>1. /\ active[id] = d /\ aborted' = aborted \cup {d}
        /\ \A i \in Ids : active'[i] \in {active[i], NoCall}
    BY <1>4 DEF Cancelled, Types
  <2>2. work[d] # "new"
    BY <1>1, <2>1 DEF CallTold
  <2>3. CASE d \in aborted
    <3>1. aborted' = aborted /\ stack' = below
      BY <1>4, <2>1, <2>3 DEF Cancelled
    <3>2. ASSUME NEW f \in ToSet(stack'), f \notin ToSet(stack)
          PROVE  FrameTold(f)'
      <4>1. /\ f.at = "beginning" /\ f.call \notin aborted /\ f.call \in Calls
            /\ \A i \in Ids : active[i] # f.call
        BY <3>1, <3>2
      <4> QED
        BY <2>1, <3>1, <4>1 DEF FrameTold, NoCall, Calls
    <3>3. \A e \in Calls : work'[e] = "cancelled" => e \in aborted
      BY <1>1 DEF CallTold
    <3> QED
      BY <2>1, <3>1, <3>2, <3>3, ToldQuiet
  <2>4. CASE d \notin aborted
    <3>0. PICK g : g = Frame("aborting", d, "rpc-cancelled")
      OBVIOUS
    <3>1. /\ Pushed(below, stack', g) /\ g \in FrameSet
          /\ g.at = "aborting" /\ g.call = d
      BY <1>4, <2>4, <3>0, FrameMade DEF Cancelled, Frame, Causes
    <3>2. ToSet(stack') = ToSet(below) \cup {g}
      BY <3>1, ValuesAppended
    <3>3. Alone(below, g)
      <4>1. \A f \in ToSet(below) : f.at = "aborting" => f.call \in aborted
        BY DEF Told, FrameTold
      <4> QED
        BY <2>4, <3>1, <4>1 DEF Alone
    <3>4. Apart(stack')
      BY <3>1, <3>3, ApartAppended
    <3>5. \E f \in ToSet(stack') : f.at = "aborting" /\ f.call = d
      BY <3>1, <3>2
    <3>6. \A f \in ToSet(stack) : f.at = "aborting" => f \in ToSet(stack')
      BY <3>2
    <3>7. ASSUME NEW f \in ToSet(stack')
          PROVE  \/ f \in ToSet(stack) /\ (f.at = "beginning" => f.call # d)
                 \/ f.at = "aborting" /\ f.call = d
                 \/ f.at = "starting"
                 \/ /\ f.at = "beginning" /\ f.call \in Calls
                    /\ f.call \notin aborted' /\ \A i \in Ids : active[i] # f.call
      BY <1>2, <2>1, <3>1, <3>2
    <3>8. work'[d] # "new"
      BY <2>2
    <3> QED
      BY <2>1, <2>4, <3>4, <3>5, <3>6, <3>7, <3>8, ToldAborted
  <2> QED
    BY <2>3, <2>4
<1> QED
  BY <1>3, <1>4, CancelParts

LEMMA ToldBegin ==
  ASSUME Types, Told, Begin
  PROVE  Told'
<1>0. PICK d, f, g, below : /\ d = Top.call /\ f = Frame("starting", d, "")
                            /\ g = Frame("aborting", d, "rpc-cancelled")
                            /\ below = Append(Rest, f)
  OBVIOUS
<1>1. /\ stack # <<>> /\ Top.at = "beginning"
      /\ UNCHANGED <<work, timer, answer, recorded>>
      /\ \/ /\ active' = [active EXCEPT ![IdOf(d)] = NoCall]
            /\ aborted' = aborted \cup {d}
            /\ stack' = Append(below, g)
         \/ /\ active' = [active EXCEPT ![IdOf(d)] = d]
            /\ stack' = below /\ aborted' = aborted
  BY <1>0 DEF Begin, At
<1>2. /\ d \in Calls /\ work[d] = "begun" /\ Top.at \in WorkPoints
  BY <1>0, <1>1, TopParts DEF Expected, WorkPoints, BegunPoints
<1>3. /\ f \in FrameSet /\ f.at = "starting"
      /\ g \in FrameSet /\ g.at = "aborting" /\ g.call = d
  BY <1>0, <1>2, FrameMade DEF Frame, Causes, WorkPoints, BegunPoints
<1>4. /\ Rest \in Seq(FrameSet) /\ ToSet(stack) = ToSet(Rest) \cup {Top} /\ Apart(Rest)
      /\ \A h \in ToSet(Rest) : h.at = "beginning" => h.call # d
  BY <1>0, <1>1, <1>2, TopFrames DEF Told, WorkPoints, BegunPoints
<1>5. /\ FrameTold(Top) /\ d \notin aborted
  BY <1>0, <1>1, <1>4 DEF Told, FrameTold
<1>6. /\ below \in Seq(FrameSet) /\ ToSet(below) = ToSet(Rest) \cup {f} /\ Apart(below)
  <2>1. Pushed(Rest, below, f)
    BY <1>0 DEF Pushed
  <2> QED
    BY <1>3, <1>4, <2>1, ValuesAppended, ApartAppended DEF Alone
<1>7. \A h \in ToSet(below) : h.at = "aborting" => h.call \in aborted
  BY <1>3, <1>4, <1>6 DEF Told, FrameTold
<1>8. CASE /\ active' = [active EXCEPT ![IdOf(d)] = NoCall]
           /\ aborted' = aborted \cup {d}
           /\ stack' = Append(below, g)
  <2>1. Pushed(below, stack', g)
    BY <1>8 DEF Pushed
  <2>2. ToSet(stack') = ToSet(below) \cup {g} /\ Apart(stack')
    <3>1. Alone(below, g)
      BY <1>3, <1>5, <1>7 DEF Alone
    <3> QED
      BY <1>3, <1>6, <2>1, <3>1, ValuesAppended, ApartAppended
  <2>3. /\ \E h \in ToSet(stack') : h.at = "aborting" /\ h.call = d
        /\ \A h \in ToSet(stack) : h.at = "aborting" => h \in ToSet(stack')
    BY <1>1, <1>3, <1>4, <1>6, <2>2
  <2>4. ASSUME NEW h \in ToSet(stack')
        PROVE  \/ h \in ToSet(stack) /\ (h.at = "beginning" => h.call # d)
               \/ h.at = "aborting" /\ h.call = d
               \/ h.at = "starting"
    BY <1>3, <1>4, <1>6, <2>2
  <2>5. \A i \in Ids : active'[i] \in {active[i], NoCall}
    BY <1>8 DEF Types
  <2>6. UNCHANGED <<work, recorded, timer, answer>> /\ work'[d] # "new"
    BY <1>1, <1>2
  <2> QED
    BY <1>2, <1>5, <1>8, <2>2, <2>3, <2>4, <2>5, <2>6, ToldAborted
<1>9. CASE /\ active' = [active EXCEPT ![IdOf(d)] = d]
           /\ stack' = below /\ aborted' = aborted
  <2>1. \A i \in Ids : active'[i] \in {active[i], d}
    BY <1>9 DEF Types
  <2>2. \A e : CauseKnown(e)' <=> CauseKnown(e)
    BY <1>1 DEF CauseKnown
  <2>3. UNCHANGED <<work, recorded, timer, answer, aborted>>
    BY <1>1, <1>9
  <2>4. \A h \in ToSet(stack') : FrameTold(h)'
    <3>1. ASSUME NEW h \in ToSet(Rest)
          PROVE  FrameTold(h)'
      <4>1. FrameTold(h) /\ (h.at = "beginning" => h.call # d)
        BY <1>4 DEF Told
      <4> QED
        BY <2>1, <2>2, <2>3, <4>1 DEF FrameTold
    <3>2. FrameTold(f)'
      BY <1>3 DEF FrameTold
    <3> QED
      BY <1>6, <1>9, <3>1, <3>2
  <2>5. \A e \in Calls : CallTold(e)'
    <3>1. ASSUME NEW e \in Calls
          PROVE  CallTold(e)'
      <4>1. CallTold(e)
        BY DEF Told
      <4> QED
        BY <1>2, <2>1, <2>2, <2>3, <4>1 DEF CallTold
    <3> QED
      BY <3>1
  <2>6. Aborts'
    BY <1>1, <1>4, <1>6, <1>9, <2>2, <2>3 DEF Told, Aborts
  <2> QED
    BY <1>6, <1>9, <2>4, <2>5, <2>6 DEF Told
<1> QED
  BY <1>1, <1>8, <1>9

LEMMA ToldNext ==
  ASSUME Types, Slots, Told, [Next]_vars
  PROVE  Told'
<1>1. \A d \in Calls : CallTold(d)
  BY DEF Told
<1>2. CASE Recorded \/ TimedOut \/ Arm \/ Finished
  <2>1. /\ stack # <<>> /\ stack' = Rest /\ Top.at # "aborting"
        /\ UNCHANGED <<active, aborted, recorded, work>>
    BY <1>2 DEF Recorded, TimedOut, Arm, Finished, At
  <2>2. /\ Apart(stack')
        /\ \A f \in ToSet(stack') : f \in ToSet(stack) \/ FrameTold(f)'
        /\ \A f \in ToSet(stack) : f.at = "aborting" => f \in ToSet(stack')
    BY <2>1, ToldTop
  <2>3. Top.call \in Calls /\ FrameTold(Top)
    <3>1. Top \in ToSet(stack) /\ Top.at \notin {"retiring", "dispatching"}
      BY <1>2, <2>1, TopFrames DEF Recorded, TimedOut, Arm, Finished, At
    <3> QED
      BY <3>1, FramesTyped DEF Told
  <2>4. \A d \in Calls : d \in timer' => d \in timer \/ work'[d] # "new"
    BY <1>2, <2>1, <2>3 DEF Recorded, TimedOut, Arm, Finished, At, FrameTold
  <2>5. ASSUME NEW d \in Calls
        PROVE  \/ answer'[d] = answer[d]
               \/ answer'[d] = "error"
               \/ answer'[d] = "cancelled" /\ d \in aborted
               \/ answer'[d] = "deadline" /\ "rpc-timed-out" \in ToSet(recorded[d])
               \/ answer'[d] = "ok" /\ work'[d] = "ended"
    <3>1. CASE Recorded
      BY <3>1 DEF Recorded, Types
    <3>2. CASE TimedOut
      <4>1. "rpc-timed-out" \in ToSet(recorded[Top.call])
        BY <2>3, <3>2 DEF TimedOut, At, FrameTold
      <4> QED
        BY <3>2, <4>1 DEF TimedOut, Types
    <3>3. CASE Arm
      BY <3>3 DEF Arm
    <3>4. CASE Finished
      <4>1. /\ work[Top.call] = "ended" /\ Top.arg \in {"ok", "error", "cancelled"}
            /\ Top.arg = "cancelled" => Top.call \in aborted
        BY <2>1, <2>3, <3>4, TopParts DEF Finished, At, FrameTold
      <4>2. \/ answer'[d] = answer[d]
            \/ d = Top.call /\ answer'[d] = Top.arg
        BY <3>4 DEF Finished, Types
      <4> QED
        BY <2>1, <4>1, <4>2
    <3> QED
      BY <1>2, <3>1, <3>2, <3>3, <3>4
  <2>6. \A d \in Calls : work'[d] = "cancelled" => d \in aborted
    BY <1>1, <2>1 DEF CallTold
  <2> QED
    BY <2>1, <2>2, <2>4, <2>5, <2>6, ToldQuiet
<1>3. CASE Retired
  <2>1. /\ stack # <<>> /\ Top.at # "aborting"
        /\ stack' = Append(Rest, Frame("dispatching", NoCall, ""))
        /\ UNCHANGED <<active, aborted, recorded, work, timer, answer>>
    BY <1>3 DEF Retired, At, slots
  <2>2. \E f \in FrameSet : f.at \in {"dispatching", "starting"} /\ stack' = Append(Rest, f)
    <3>1. /\ Frame("dispatching", NoCall, "") \in FrameSet
          /\ Frame("dispatching", NoCall, "").at = "dispatching"
      BY FrameMade DEF Frame
    <3> QED
      BY <2>1, <3>1
  <2>3. /\ Apart(stack')
        /\ \A f \in ToSet(stack') : f \in ToSet(stack) \/ FrameTold(f)'
        /\ \A f \in ToSet(stack) : f.at = "aborting" => f \in ToSet(stack')
    BY <2>1, <2>2, ToldTop
  <2>4. \A d \in Calls : work'[d] = "cancelled" => d \in aborted
    BY <1>1, <2>1 DEF CallTold
  <2> QED
    BY <2>1, <2>3, <2>4, ToldQuiet
<1>4. CASE Retire
  <2>0. PICK f : f = Frame("retiring", NoCall, "")
    OBVIOUS
  <2>1. /\ Pushed(stack, stack', f) /\ stack \in Seq(FrameSet)
        /\ UNCHANGED <<active, aborted, recorded, work, timer, answer>>
    BY <1>4, <2>0 DEF Retire, Pushed, Types, Good, slots
  <2>2. f \in FrameSet /\ f.at = "retiring"
    BY <2>0, FrameMade DEF Frame
  <2>3. ToSet(stack') = ToSet(stack) \cup {f} /\ Apart(stack')
    BY <2>1, <2>2, ValuesAppended, ApartAppended DEF Alone, Told
  <2>4. FrameTold(f)'
    BY <2>2 DEF FrameTold
  <2>5. \A d \in Calls : work'[d] = "cancelled" => d \in aborted
    BY <1>1, <2>1 DEF CallTold
  <2> QED
    BY <2>1, <2>3, <2>4, <2>5, ToldQuiet
<1>5. CASE NotifyRetired
  <2>1. /\ stack # <<>> /\ Top.at = "dispatching"
        /\ UNCHANGED <<work, timer, answer, recorded>>
    BY <1>5 DEF NotifyRetired, At
  <2>2. CASE listeners = <<>>
    <3>1. UNCHANGED <<active, aborted>> /\ stack' = Rest
      BY <1>5, <2>2 DEF NotifyRetired
    <3>2. /\ Apart(stack')
          /\ \A f \in ToSet(stack') : f \in ToSet(stack) \/ FrameTold(f)'
          /\ \A f \in ToSet(stack) : f.at = "aborting" => f \in ToSet(stack')
      BY <2>1, <3>1, ToldTop
    <3>3. \A d \in Calls : work'[d] = "cancelled" => d \in aborted
      BY <1>1, <2>1, <3>1 DEF CallTold
    <3> QED
      BY <2>1, <3>1, <3>2, <3>3, ToldQuiet
  <2>3. CASE listeners # <<>>
    <3> DEFINE id == IdOf(Head(listeners))
               heard == Tail(listeners)
    <3>1. heard \in Seq(Calls) /\ Once(heard) /\ Head(listeners) \in Calls
      <4>1. listeners \in Seq(Calls) /\ Once(listeners)
        BY DEF Types, Slots
      <4> QED
        BY <2>3, <4>1, ValuesTail, QueueParts
    <3>2. id \in Ids
      BY <3>1, IdOfCall
    <3>3. CancelActive(id, heard, stack)
      BY <1>5, <2>3 DEF NotifyRetired
    <3> HIDE DEF id, heard
    <3> QED
      BY <2>1, <3>1, <3>2, <3>3, ToldCancel DEF Types, Good, Told
  <2> QED
    BY <2>2, <2>3
<1>6. ASSUME NEW id \in Ids, Cancel(id)
      PROVE  Told'
  <2>1. /\ CancelActive(id, listeners, stack) /\ UNCHANGED <<work, timer, answer, recorded>>
    BY <1>6 DEF Cancel
  <2> QED
    BY <2>1, ToldCancel DEF Types, Good, Told, Slots
<1>7. ASSUME NEW d \in Calls, WorkStep(d)
      PROVE  Told'
  BY <1>7, ToldKept, ToldEnded DEF WorkStep
<1>8. CASE Start \/ Asked \/ Parsed \/ Handled \/ Checked \/ Denied \/ Refused \/ Invalidated
  <2>1. Top.call \in Calls
    BY <1>8, TopParts DEF Start, Asked, Parsed, Handled, Checked, Denied, Refused,
       Invalidated, At
  <2> QED
    BY <1>7, <1>8, <2>1, TopWorkSteps
<1>9. ASSUME NEW d \in Calls, Settle(d) \/ HandlerSettles(d) \/ Resume(d)
      PROVE  Told'
  BY <1>1, <1>7, <1>9, FreeWorkSteps DEF CallTold
<1>10. ASSUME NEW d \in Calls, Deadline(d)
       PROVE  Told'
  <2>0. PICK f : f = Frame("aborting", d, "rpc-timed-out")
    OBVIOUS
  <2>1. /\ stack = <<>> /\ d \in timer
        /\ UNCHANGED <<active, work, recorded>> /\ timer' = timer \ {d}
        /\ \/ /\ d \in aborted /\ answer' = [answer EXCEPT ![d] = "cancelled"]
              /\ UNCHANGED <<aborted, stack>>
           \/ /\ d \notin aborted /\ aborted' = aborted \cup {d}
              /\ stack' = <<f>> /\ answer' = answer
    BY <1>10, <2>0 DEF Deadline
  <2>2. work[d] # "new"
    BY <1>1, <2>1 DEF CallTold
  <2>3. CASE /\ d \in aborted /\ answer' = [answer EXCEPT ![d] = "cancelled"]
             /\ UNCHANGED <<aborted, stack>>
    <3>1. \A e \in Calls : answer'[e] = answer[e] \/ (answer'[e] = "cancelled" /\ e \in aborted)
      BY <2>3 DEF Types
    <3>2. \A e \in Calls : work'[e] = "cancelled" => e \in aborted
      BY <1>1, <2>1 DEF CallTold
    <3>3. \A e \in Calls : e \in timer' => e \in timer
      BY <2>1
    <3> QED
      BY <2>1, <2>3, <3>1, <3>2, <3>3, ToldQuiet DEF Told
  <2>4. CASE /\ d \notin aborted /\ aborted' = aborted \cup {d}
             /\ stack' = <<f>> /\ answer' = answer
    <3>1. Pushed(stack, stack', f) /\ stack \in Seq(FrameSet) /\ ToSet(stack) = {}
      BY <2>1, <2>4, ValuesEmpty DEF Pushed
    <3>2. f \in FrameSet /\ f.at = "aborting" /\ f.call = d
      BY <2>0, FrameMade DEF Frame, Causes
    <3>3. ToSet(stack') = {f} /\ Apart(stack')
      BY <3>1, <3>2, ValuesAppended, ApartAppended DEF Alone, Told
    <3>4. (\A e : CauseKnown(e)' <=> CauseKnown(e)) /\ ~CauseKnown(d)
      BY <1>1, <2>1, <2>4 DEF CauseKnown, CallTold
    <3>5. \A g \in ToSet(stack') : FrameTold(g)'
      BY <2>4, <3>2, <3>3, <3>4 DEF FrameTold
    <3>6. \A e \in Calls : CallTold(e)'
      <4>1. ASSUME NEW e \in Calls
            PROVE  CallTold(e)'
        BY <1>1, <2>1, <2>2, <2>4, <3>4 DEF CallTold
      <4> QED
        BY <4>1
    <3>7. Aborts'
      <4>1. \A e \in aborted : CauseKnown(e)
        BY <3>1 DEF Told, Aborts
      <4> QED
        BY <2>4, <3>2, <3>3, <3>4, <4>1 DEF Aborts
    <3> QED
      BY <3>3, <3>5, <3>6, <3>7 DEF Told
  <2> QED
    BY <2>1, <2>3, <2>4
<1>11. ASSUME NEW d \in Calls, Dispatch(d)
       PROVE  Told'
  <2>1. /\ work[d] = "new" /\ stack \in Seq(FrameSet)
        /\ UNCHANGED <<timer, answer, recorded>>
    BY <1>11 DEF Dispatch, Types, Good
  <2>2. CASE /\ work' = [work EXCEPT ![d] = "ended"]
             /\ stack' = Append(stack, Frame("rejected", d, ""))
             /\ UNCHANGED <<active, aborted, slots>>
    <3>0. PICK f : f = Frame("rejected", d, "")
      OBVIOUS
    <3>1. f \in FrameSet /\ f.at = "rejected"
      BY <3>0, FrameMade DEF Frame
    <3>2. Pushed(stack, stack', f)
      BY <2>2, <3>0 DEF Pushed
    <3>3. ToSet(stack') = ToSet(stack) \cup {f} /\ Apart(stack')
      BY <2>1, <3>1, <3>2, ValuesAppended, ApartAppended DEF Alone, Told
    <3>4. FrameTold(f)'
      BY <3>1 DEF FrameTold
    <3>5. \A e \in Calls : /\ work'[e] = "new" => work[e] = "new"
                           /\ work[e] = "ended" => work'[e] = "ended"
                           /\ work'[e] = "cancelled" => e \in aborted
      BY <1>1, <2>1, <2>2 DEF Types, CallTold
    <3> QED
      BY <2>1, <2>2, <3>3, <3>4, <3>5, ToldQuiet
  <2>3. CASE /\ work' = [work EXCEPT ![d] = "begun"]
             /\ CancelActive(IdOf(d), listeners,
                             Append(stack, Frame("beginning", d, "")))
    <3>0. PICK f, below : f = Frame("beginning", d, "") /\ below = Append(stack, f)
      OBVIOUS
    <3>1. f \in FrameSet /\ f.at = "beginning" /\ f.call = d
      BY <3>0, FrameMade DEF Frame, WorkPoints, BegunPoints
    <3>2. Pushed(stack, below, f)
      BY <3>0 DEF Pushed
    <3>3. /\ below \in Seq(FrameSet) /\ ToSet(below) = ToSet(stack) \cup {f}
          /\ Apart(below)
      BY <2>1, <3>1, <3>2, ValuesAppended, ApartAppended DEF Alone, Told
    <3>4. IdOf(d) \in Ids /\ CancelActive(IdOf(d), listeners, below)
      <4>1. IdOf(d) \in Ids
        BY IdOfCall
      <4>2. CancelActive(IdOf(d), listeners, below)
        BY <2>3, <3>0
      <4> QED
        BY <4>1, <4>2
    <3>5. \A e \in Calls : /\ work'[e] = "new" => work[e] = "new"
                           /\ work[e] = "ended" => work'[e] = "ended"
                           /\ work'[e] = "cancelled" => work[e] = "cancelled"
      BY <2>1, <2>3 DEF Types
    <3>6. d \notin aborted /\ \A i \in Ids : active[i] # d
      BY <1>1, <2>1 DEF CallTold
    <3>7. /\ listeners \in Seq(Calls) /\ Once(listeners)
          /\ \A g \in ToSet(below) :
               \/ g \in ToSet(stack)
               \/ /\ g.at = "beginning" /\ g.call \in Calls /\ g.call \notin aborted
                  /\ \A i \in Ids : active[i] # g.call
          /\ \A g \in ToSet(stack) : g.at = "aborting" => g \in ToSet(below)
      BY <3>1, <3>3, <3>6 DEF Types, Slots
    <3> QED
      BY <2>1, <3>3, <3>4, <3>5, <3>7, ToldCancel
  <2> QED
    BY <1>11, <2>2, <2>3 DEF Dispatch
<1>12. CASE UNCHANGED vars
  <2>1. UNCHANGED <<active, aborted, recorded, work, timer, answer, stack>>
    BY <1>12 DEF vars
  <2>2. \A e \in Calls : work'[e] = "cancelled" => e \in aborted
    BY <1>1, <2>1 DEF CallTold
  <2> QED
    BY <2>1, <2>2, ToldQuiet DEF Told
<1> QED
  BY <1>2, <1>3, <1>4, <1>5, <1>6, <1>8, <1>9, <1>10, <1>11, <1>12,
     ToldAborting, ToldBegin DEF Next, Return

-----------------------------------------------------------------------------
(* The theorems *)

\* The inductive invariant: types, slots, and what is recorded and answered.
IInv == Types /\ Slots /\ Told

LEMMA InvInit == Init => IInv
BY TypesInit, SlotsInit, ToldInit DEF IInv

LEMMA InvNext == IInv /\ [Next]_vars => IInv'
<1> SUFFICES ASSUME IInv, [Next]_vars
             PROVE  IInv'
  OBVIOUS
<1>1. \A d \in Calls : work[d] = "cancelled" => d \in aborted
  BY DEF IInv, Told, CallTold
<1> QED
  BY <1>1, TypesNext, SlotsNext, ToldNext DEF IInv

\* Every state reached satisfies the invariant.
THEOREM Invariance == Spec => []IInv
<1>1. Init => IInv
  BY InvInit
<1>2. IInv /\ [Next]_vars => IInv'
  BY InvNext
<1> QED
  BY <1>1, <1>2, PTL DEF Spec

\* The slots bound the work under way, as the code counts it: lease and work agree,
\* and no more calls than maxConcurrentRpc listen to the retirement or go on.
THEOREM SlotsBoundCorrect == Spec => []SlotsBound
<1>1. IInv => SlotsBound
  <2> SUFFICES ASSUME IInv PROVE SlotsBound
    OBVIOUS
  <2>1. Types /\ Slots
    BY DEF IInv
  <2>2. Unfinished = Held
    BY <2>1 DEF Unfinished, Held, Slots, Going
  <2>3. IsFiniteSet(Held)
    <3>1. IsFiniteSet(Calls)
      BY CallsAssumption, FS_Interval DEF Calls
    <3> QED
      BY <3>1, FS_Subset DEF Held
  <2>4. Len(listeners) <= MaxConcurrentRpc
    <3>1. ToSet(listeners) \subseteq Held
      BY <2>1, Values DEF Slots, Held, Types
    <3>2. Cardinality(ToSet(listeners)) = Len(listeners)
      BY <2>1, ValuesCounted DEF Slots, Types
    <3>3. /\ Cardinality(ToSet(listeners)) <= Cardinality(Held)
          /\ Cardinality(Held) \in Nat
      BY <2>3, <3>1, FS_Subset, FS_CardinalityType
    <3>4. Len(listeners) \in Nat
      BY <2>1 DEF Types
    <3> QED
      BY <2>1, <3>2, <3>3, <3>4, LimitAssumption DEF Slots
  <2>5. \A i \in 1 .. Len(stack) : stack[i].call \in Calls \cup {NoCall}
    <3>1. \A i \in 1 .. Len(stack) : stack[i] \in FrameSet
      BY <2>1 DEF Types, Good
    <3> QED
      BY <3>1, FrameParts
  <2>6. TypeOK
    BY <2>1, <2>4, <2>5 DEF TypeOK, Types
  <2> QED
    BY <2>1, <2>2, <2>6 DEF SlotsBound, ConcurrencyLimit, Slots
<1> QED
  BY <1>1, Invariance, PTL

\* One cause at most is recorded, and only once, and no call is answered as cancelled
\* or late that was not, whichever of deadline, cancel, retirement and the end of the
\* work comes first.
THEOREM OneCauseCorrect == Spec => []OneCause
<1>1. IInv => OneCause
  <2> SUFFICES ASSUME IInv, NEW d \in Calls
               PROVE  /\ ~({"rpc-timed-out", "rpc-cancelled"} \subseteq Records(d))
                      /\ Cardinality(Records(d)) = Len(recorded[d])
                      /\ Idle /\ recorded[d] # <<>> =>
                           (d \in aborted <=> Records(d) # {"rpc-finished"})
                      /\ answer[d] = "cancelled" => d \in aborted
                      /\ answer[d] = "deadline" => "rpc-timed-out" \in Records(d)
    BY DEF OneCause
  <2>1. Types /\ CallTold(d) /\ Aborts
    BY DEF IInv, Told
  <2>2. /\ recorded[d] \in Seq({"rpc-cancelled", "rpc-timed-out", "rpc-finished"})
        /\ Once(recorded[d])
    BY <2>1 DEF Types, CallTold
  <2>3. /\ Records(d) = ToSet(recorded[d])
        /\ ToSet(recorded[d]) \subseteq {"rpc-cancelled", "rpc-timed-out", "rpc-finished"}
    BY <2>2, Values DEF Records
  <2>4. Cardinality(Records(d)) = Len(recorded[d])
    BY <2>2, <2>3, ValuesCounted
  <2>5. ASSUME Idle, recorded[d] # <<>>
        PROVE  d \in aborted <=> Records(d) # {"rpc-finished"}
    <3>1. ToSet(recorded[d]) # {}
      <4>1. Len(recorded[d]) \in Nat \ {0}
        BY <2>2, <2>5, EmptySeq
      <4>2. recorded[d][1] \in ToSet(recorded[d])
        BY <2>2, <4>1, Values
      <4> QED
        BY <4>2
    <3>2. ToSet(stack) = {}
      BY <2>5, ValuesEmpty DEF Idle
    <3>3. d \in aborted <=> CauseKnown(d)
      BY <2>1, <3>2 DEF CallTold, Aborts
    <3> QED
      BY <2>3, <3>1, <3>3 DEF CauseKnown, Causes
  <2> QED
    BY <2>1, <2>3, <2>4, <2>5 DEF CallTold, Causes
<1> QED
  BY <1>1, Invariance, PTL

\* A call that was aborted before its output was checked, and the answer it waits for.
Doomed(d) ==
  /\ d \in aborted /\ work[d] # "checking" /\ answer[d] # "ok"
  /\ \A f \in ToSet(stack) : f.at = "finishing" /\ f.call = d => f.arg # "ok"

\* What the steps outside the work of a call do to doomed calls.
LEMMA OtherSteps ==
  ASSUME IInv, Aborting \/ Recorded \/ TimedOut \/ Begin \/ Arm \/ Finished \/ Retired \/
               NotifyRetired \/ Retire \/ (\E id \in Ids : Cancel(id)) \/
               (\E d \in Calls : Dispatch(d) \/ Deadline(d)) \/ UNCHANGED vars
  PROVE  /\ aborted \subseteq aborted'
         /\ \A d \in Calls : work[d] # "checking" => work'[d] # "checking"
         /\ \A f \in ToSet(stack') : f \in ToSet(stack) \/ f.at # "finishing"
<1> USE DEF options, slots
<1>1. Types /\ Slots /\ stack \in Seq(FrameSet)
  BY DEF IInv, Types, Good
<1>2. ASSUME NEW f \in FrameSet, f.at # "finishing", NEW below,
             below \in Seq(FrameSet), ToSet(below) \subseteq ToSet(stack),
             stack' = Append(below, f)
      PROVE  \A g \in ToSet(stack') : g \in ToSet(stack) \/ g.at # "finishing"
  <2>1. Pushed(below, stack', f)
    BY <1>2 DEF Pushed
  <2> QED
    BY <1>2, <2>1, ValuesAppended
<1>3. stack # <<>> => Rest \in Seq(FrameSet) /\ ToSet(Rest) \subseteq ToSet(stack)
  BY <1>1, TopFrames
<1>4. CASE Aborting
  <2>1. stack # <<>> /\ stack' = Append(Rest, Frame(Top.arg, Top.call, "")) /\
        Top.at = "aborting" /\ UNCHANGED <<aborted, work>>
    BY <1>4 DEF Aborting, At
  <2>2. /\ Frame(Top.arg, Top.call, "") \in FrameSet
        /\ Frame(Top.arg, Top.call, "").at # "finishing"
    BY <1>1, <2>1, TopParts, FrameMade DEF Frame, Causes
  <2> QED
    BY <1>2, <1>3, <2>1, <2>2
<1>5. CASE Recorded \/ TimedOut \/ Arm \/ Finished
  <2>1. stack # <<>> /\ stack' = Rest /\ UNCHANGED <<aborted, work>>
    BY <1>5 DEF Recorded, TimedOut, Arm, Finished, At
  <2> QED
    BY <1>3, <2>1
<1>6. CASE Begin
  <2>0. PICK d, f, g, below : /\ d = Top.call /\ f = Frame("starting", d, "")
                              /\ g = Frame("aborting", d, "rpc-cancelled")
                              /\ below = Append(Rest, f)
    OBVIOUS
  <2>1. /\ stack # <<>> /\ Top.at = "beginning" /\ work' = work
        /\ aborted \subseteq aborted'
        /\ stack' = below \/ stack' = Append(below, g)
    BY <1>6, <2>0 DEF Begin, At
  <2>2. /\ f \in FrameSet /\ f.at # "finishing"
        /\ g \in FrameSet /\ g.at # "finishing"
    <3>1. d \in Calls
      BY <1>1, <2>0, <2>1, TopParts
    <3> QED
      BY <2>0, <3>1, FrameMade DEF Frame, Causes, WorkPoints, BegunPoints
  <2>3. CASE stack' = below
    BY <1>2, <1>3, <2>0, <2>1, <2>2, <2>3
  <2>4. CASE stack' = Append(below, g)
    <3>1. below \in Seq(FrameSet) /\ ToSet(below) = ToSet(Rest) \cup {f}
      BY <1>1, <2>0, <2>1, <2>2, TopFrames
    <3>2. Pushed(below, stack', g)
      BY <2>4 DEF Pushed
    <3>3. ToSet(stack') = ToSet(below) \cup {g}
      BY <2>2, <3>1, <3>2, ValuesAppended
    <3> QED
      BY <1>3, <2>1, <2>2, <3>1, <3>3
  <2> QED
    BY <2>1, <2>3, <2>4
<1>7. CASE Retired
  <2>1. /\ stack # <<>> /\ stack' = Append(Rest, Frame("dispatching", NoCall, ""))
        /\ UNCHANGED <<aborted, work>>
    BY <1>7 DEF Retired, At
  <2>2. /\ Frame("dispatching", NoCall, "") \in FrameSet
        /\ Frame("dispatching", NoCall, "").at # "finishing"
    BY FrameMade DEF Frame
  <2> QED
    BY <1>2, <1>3, <2>1, <2>2
<1>8. CASE Retire
  <2>1. stack' = Append(stack, Frame("retiring", NoCall, "")) /\ UNCHANGED <<aborted, work>>
    BY <1>8 DEF Retire
  <2>2. /\ Frame("retiring", NoCall, "") \in FrameSet
        /\ Frame("retiring", NoCall, "").at # "finishing"
    BY FrameMade DEF Frame
  <2> QED
    BY <1>1, <1>2, <2>1, <2>2
<1>9. ASSUME NEW id \in Ids, NEW heard \in Seq(Calls), Once(heard),
             NEW below, below \in Seq(FrameSet),
             \A f \in ToSet(below) : f \in ToSet(stack) \/ f.at # "finishing",
             CancelActive(id, heard, below)
      PROVE  /\ aborted \subseteq aborted'
             /\ \A f \in ToSet(stack') : f \in ToSet(stack) \/ f.at # "finishing"
  <2>1. CASE aborted' = aborted /\ stack' = below
    BY <1>9, <2>1
  <2>2. ASSUME NEW d \in Calls, Cancelled(d, id, heard, below)
        PROVE  /\ aborted \subseteq aborted'
               /\ \A f \in ToSet(stack') : f \in ToSet(stack) \/ f.at # "finishing"
    <3>0. PICK g : g = Frame("aborting", d, "rpc-cancelled")
      OBVIOUS
    <3>1. /\ g \in FrameSet /\ g.at # "finishing"
          /\ stack' = below \/ Pushed(below, stack', g)
          /\ aborted \subseteq aborted'
      BY <2>2, <3>0, FrameMade DEF Cancelled, Frame, Causes
    <3>2. CASE Pushed(below, stack', g)
      BY <1>9, <3>1, <3>2, ValuesAppended
    <3> QED
      BY <1>9, <3>1, <3>2
  <2> QED
    BY <1>1, <1>9, <2>1, <2>2, CancelParts
<1>10. listeners \in Seq(Calls) /\ Once(listeners)
  BY <1>1 DEF Types, Slots
<1>11. CASE NotifyRetired
  <2>1. stack # <<>> /\ work' = work
    BY <1>11 DEF NotifyRetired, At
  <2>2. CASE listeners = <<>>
    <3>1. stack' = Rest /\ aborted' = aborted
      BY <1>11, <2>2 DEF NotifyRetired
    <3> QED
      BY <1>3, <2>1, <3>1
  <2>3. CASE listeners # <<>>
    <3>0. PICK id, heard : id = IdOf(Head(listeners)) /\ heard = Tail(listeners)
      OBVIOUS
    <3>1. heard \in Seq(Calls) /\ Once(heard) /\ Head(listeners) \in Calls
      BY <1>10, <2>3, <3>0, ValuesTail, QueueParts
    <3>2. id \in Ids
      BY <3>0, <3>1, IdOfCall
    <3>3. CancelActive(id, heard, stack)
      BY <1>11, <2>3, <3>0 DEF NotifyRetired
    <3> QED
      BY <1>1, <1>9, <2>1, <3>1, <3>2, <3>3
  <2> QED
    BY <2>2, <2>3
<1>12. ASSUME NEW id \in Ids, Cancel(id)
       PROVE  /\ aborted \subseteq aborted' /\ work' = work
              /\ \A f \in ToSet(stack') : f \in ToSet(stack) \/ f.at # "finishing"
  <2>1. CancelActive(id, listeners, stack) /\ work' = work
    BY <1>12 DEF Cancel
  <2> QED
    BY <1>1, <1>9, <1>10, <2>1
<1>13. ASSUME NEW d \in Calls, Deadline(d)
       PROVE  /\ aborted \subseteq aborted' /\ work' = work
              /\ \A f \in ToSet(stack') : f \in ToSet(stack) \/ f.at # "finishing"
  <2>0. PICK f : f = Frame("aborting", d, "rpc-timed-out")
    OBVIOUS
  <2>1. /\ aborted \subseteq aborted' /\ work' = work /\ stack = <<>>
        /\ stack' = stack \/ stack' = Append(stack, f)
    BY <1>13, <2>0 DEF Deadline
  <2>2. f \in FrameSet /\ f.at # "finishing"
    BY <2>0, FrameMade DEF Frame, Causes
  <2> QED
    BY <1>1, <1>2, <2>1, <2>2
<1>14. ASSUME NEW d \in Calls, Dispatch(d)
       PROVE  /\ aborted \subseteq aborted'
              /\ \A e \in Calls : work[e] # "checking" => work'[e] # "checking"
              /\ \A f \in ToSet(stack') : f \in ToSet(stack) \/ f.at # "finishing"
  <2>1. CASE /\ work' = [work EXCEPT ![d] = "ended"]
             /\ stack' = Append(stack, Frame("rejected", d, ""))
             /\ aborted' = aborted
    <3>1. /\ Frame("rejected", d, "") \in FrameSet
          /\ Frame("rejected", d, "").at # "finishing"
      BY FrameMade DEF Frame
    <3>2. \A e \in Calls : work[e] # "checking" => work'[e] # "checking"
      BY <1>1, <2>1 DEF Types
    <3> QED
      BY <1>1, <1>2, <2>1, <3>1, <3>2
  <2>2. CASE /\ work' = [work EXCEPT ![d] = "begun"]
             /\ CancelActive(IdOf(d), listeners,
                             Append(stack, Frame("beginning", d, "")))
    <3>0. PICK f, below : f = Frame("beginning", d, "") /\ below = Append(stack, f)
      OBVIOUS
    <3>1. /\ f \in FrameSet /\ f.at # "finishing" /\ Pushed(stack, below, f)
      BY <3>0, FrameMade DEF Frame, WorkPoints, BegunPoints, Pushed
    <3>2. below \in Seq(FrameSet) /\ ToSet(below) = ToSet(stack) \cup {f}
      BY <1>1, <3>1, ValuesAppended
    <3>3. IdOf(d) \in Ids
      BY IdOfCall
    <3>4. CancelActive(IdOf(d), listeners, below)
      BY <2>2, <3>0
    <3>5. \A e \in Calls : work[e] # "checking" => work'[e] # "checking"
      BY <1>1, <2>2 DEF Types
    <3> QED
      BY <1>9, <1>10, <3>1, <3>2, <3>3, <3>4, <3>5
  <2> QED
    BY <1>14, <2>1, <2>2 DEF Dispatch
<1>15. CASE UNCHANGED vars
  BY <1>15 DEF vars
<1> QED
  BY <1>4, <1>5, <1>6, <1>7, <1>8, <1>11, <1>12, <1>13, <1>14, <1>15

\* The answers of the steps outside the work.
LEMMA OtherAnswers ==
  ASSUME IInv, NEW d \in Calls, Doomed(d), [Next]_vars
  PROVE  answer'[d] # "ok"
<1>1. Types /\ answer[d] # "ok"
  BY DEF IInv, Doomed
<1>2. CASE Finished
  <2>1. stack # <<>> /\ Top.at = "finishing"
    BY <1>2 DEF Finished, At
  <2>2. Top \in ToSet(stack)
    BY <1>1, <2>1, TopFrames
  <2>3. Top.call = d => Top.arg # "ok"
    BY <2>1, <2>2 DEF Doomed
  <2> QED
    BY <1>1, <1>2, <2>3 DEF Finished, Types
<1>3. CASE Recorded \/ TimedOut
  BY <1>1, <1>3 DEF Recorded, TimedOut, Types
<1>4. ASSUME NEW e \in Calls, Deadline(e)
      PROVE  answer'[d] # "ok"
  BY <1>1, <1>4 DEF Deadline, Types
<1>5. CASE answer' = answer
  BY <1>1, <1>5
<1>6. \/ answer' = answer \/ Finished \/ Recorded \/ TimedOut
      \/ \E e \in Calls : Deadline(e)
  BY DEF Next, Return, vars, Aborting, Begin, Start, Arm, Asked, Parsed, Handled, Checked,
         Denied, Refused, Invalidated, Retired, NotifyRetired, Dispatch, Settle,
         HandlerSettles, Resume, Cancel, Retire
<1> QED
  BY <1>2, <1>3, <1>4, <1>5, <1>6

\* A doomed call stays so: no step makes its work check an output, or answers it "ok".
LEMMA DoomedNext ==
  ASSUME IInv, NEW d \in Calls, Doomed(d), [Next]_vars
  PROVE  Doomed(d)'
<1>1. ASSUME NEW e \in Calls, WorkStep(e)
      PROVE  Doomed(d)'
  <2>1. aborted' = aborted /\ answer' = answer
    BY <1>1 DEF WorkStep
  <2>2. CASE WorkKept(e)
    <3>1. work'[d] # "checking"
      BY <2>2 DEF WorkKept, Doomed
    <3>2. \A f \in ToSet(stack') : f \in ToSet(stack) \/ f.at # "finishing"
      BY <2>2 DEF WorkKept, FramesKept, WaitPoints, WorkPoints, BegunPoints, CheckPoints
    <3> QED
      BY <2>1, <3>1, <3>2 DEF Doomed
  <2>3. ASSUME NEW response, WorkEnded(e, response)
        PROVE  Doomed(d)'
    <3>1. work'[d] # "checking"
      BY <2>3 DEF WorkEnded, Doomed
    <3>2. \A f \in ToSet(stack') :
            f \in ToSet(stack) \/ f.at # "finishing" \/ f = Frame("finishing", e, response)
      BY <2>3 DEF WorkEnded
    <3>3. ASSUME NEW f, f = Frame("finishing", e, response), f.call = d
          PROVE  f.arg # "ok"
      <4>1. f.arg = response /\ e = d
        BY <3>3 DEF Frame
      <4> QED
        BY <2>3, <4>1 DEF WorkEnded, Doomed
    <3> QED
      BY <2>1, <3>1, <3>2, <3>3 DEF Doomed
  <2> QED
    BY <1>1, <2>2, <2>3 DEF WorkStep
<1>2. CASE Start \/ Asked \/ Parsed \/ Handled \/ Checked \/ Denied \/ Refused \/ Invalidated
  <2>1. Top.call \in Calls /\ WorkStep(Top.call)
    BY <1>2, TopParts, TopWorkSteps DEF Start, Asked, Parsed, Handled, Checked, Denied,
       Refused, Invalidated, At, IInv
  <2> QED
    BY <1>1, <2>1
<1>3. ASSUME NEW e \in Calls, Settle(e) \/ HandlerSettles(e) \/ Resume(e)
      PROVE  Doomed(d)'
  BY <1>1, <1>3, FreeWorkSteps DEF IInv, Told, CallTold
<1>4. CASE Aborting \/ Recorded \/ TimedOut \/ Begin \/ Arm \/ Finished \/ Retired \/
           NotifyRetired \/ Retire \/ (\E id \in Ids : Cancel(id)) \/
           (\E e \in Calls : Dispatch(e) \/ Deadline(e)) \/ UNCHANGED vars
  BY <1>4, OtherSteps, OtherAnswers DEF Doomed
<1> QED
  BY <1>2, <1>3, <1>4 DEF Next, Return

\* CANCELLED comes first: a call aborted before its output was checked does not
\* succeed, at whichever boundary it is.
THEOREM CancelledComesFirstCorrect == Spec => CancelledComesFirst
<1> SUFFICES ASSUME NEW d \in Calls
             PROVE  Spec => [](d \in aborted /\ work[d] \notin {"checking", "ended"}
                                 => [](answer[d] # "ok"))
  BY DEF CancelledComesFirst
<1>1. IInv /\ d \in aborted /\ work[d] \notin {"checking", "ended"} => Doomed(d)
  BY DEF IInv, Told, CallTold, FrameTold, Doomed
<1>2. IInv /\ Doomed(d) /\ [Next]_vars => Doomed(d)'
  BY DoomedNext
<1>3. Doomed(d) => answer[d] # "ok"
  BY DEF Doomed
<1> QED
  BY <1>1, <1>2, <1>3, Invariance, PTL DEF Spec

-----------------------------------------------------------------------------
(* Who can be reached *)

BeginsIn(q, d) == \E f \in ToSet(q) : f.at = "beginning" /\ f.call = d
EndsIn(q) == \E f \in ToSet(q) : f.at = "dispatching"

\* While one call begins, no other does, and its id is free; whoever works and was
\* not aborted begins, or is in the map under its id and listens; the map holds calls
\* that work; and once the session has ended nobody listens who is not being told.
Reach ==
  /\ \A f, g \in ToSet(stack) : f.at = "beginning" /\ g.at = "beginning" => f.call = g.call
  /\ \A f \in ToSet(stack) : f.at = "beginning" => active[IdOf(f.call)] = NoCall
  /\ \A d \in Calls : Going(d) =>
       \/ d \in aborted \/ BeginsIn(stack, d)
       \/ active[IdOf(d)] = d /\ d \in ToSet(listeners)
  /\ \A i \in Ids : active[i] # NoCall => Going(active[i]) /\ IdOf(active[i]) = i
  /\ session = "retired" => ToSet(listeners) = {} \/ EndsIn(stack)

LEMMA IdInIds ==
  ASSUME NEW d \in Calls
  PROVE  IdOf(d) \in Ids /\ d # NoCall
BY CallsAssumption DEF IdOf, Ids, Calls, NoCall

\* Steps after which no call begins that did not, and none can be reached less that is
\* not aborted.
LEMMA ReachQuiet ==
  ASSUME Types, Reach,
         \A f \in ToSet(stack') : f \in ToSet(stack) \/ f.at # "beginning",
         \A f \in ToSet(stack) : f.at = "beginning" => f \in ToSet(stack'),
         session' = "retired" => \/ EndsIn(stack') \/ ToSet(listeners') = {}
                                 \/ /\ session = "retired"
                                    /\ ToSet(listeners') \subseteq ToSet(listeners)
                                    /\ EndsIn(stack) => EndsIn(stack'),
         aborted \subseteq aborted',
         \A e \in Calls : Going(e)' => Going(e),
         \A e \in Calls : Going(e)' /\ e \notin aborted' /\ active[IdOf(e)] = e
                            /\ e \in ToSet(listeners)
                          => active'[IdOf(e)] = e /\ e \in ToSet(listeners'),
         \A i \in Ids : \/ active'[i] = NoCall
                        \/ /\ active'[i] = active[i]
                           /\ Going(active[i]) => work'[active[i]] \notin {"new", "ended"}
  PROVE  Reach'
<1>1. \A f, g \in ToSet(stack') :
        f.at = "beginning" /\ g.at = "beginning" => f.call = g.call
  BY DEF Reach
<1>2. ASSUME NEW f \in ToSet(stack'), f.at = "beginning"
      PROVE  active'[IdOf(f.call)] = NoCall
  <2>1. f \in ToSet(stack) /\ f.call \in Calls
    BY <1>2, FramesTyped
  <2> QED
    BY <1>2, <2>1, IdInIds DEF Reach
<1>3. ASSUME NEW d \in Calls, Going(d)'
      PROVE  \/ d \in aborted' \/ BeginsIn(stack', d)
             \/ active'[IdOf(d)] = d /\ d \in ToSet(listeners')
  <2>1. Going(d)
    BY <1>3
  <2>2. BeginsIn(stack, d) => BeginsIn(stack', d)
    BY DEF BeginsIn
  <2> QED
    BY <1>3, <2>1, <2>2 DEF Reach
<1>4. ASSUME NEW i \in Ids, active'[i] # NoCall
      PROVE  work'[active'[i]] \notin {"new", "ended"} /\ IdOf(active'[i]) = i
  <2>1. active'[i] = active[i] /\ Going(active[i]) /\ IdOf(active[i]) = i
    BY <1>4 DEF Reach
  <2> QED
    BY <1>4, <2>1
<1>5. session' = "retired" => ToSet(listeners') = {} \/ EndsIn(stack')
  BY DEF Reach
<1> QED
  BY <1>1, <1>2, <1>3, <1>4, <1>5 DEF Reach, BeginsIn, EndsIn, Going

\* What a cancellation takes away: the call with the id, and nothing else that can be
\* reached.
LEMMA ReachCancelled ==
  ASSUME Types, NEW id \in Ids, NEW heard \in Seq(Calls), Once(heard),
         ToSet(heard) \subseteq ToSet(listeners),
         \A e \in ToSet(listeners) : e \in ToSet(heard) \/ IdOf(e) = id,
         NEW below \in Seq(FrameSet), CancelActive(id, heard, below)
  PROVE  /\ aborted \subseteq aborted' /\ ToSet(listeners') \subseteq ToSet(listeners)
         /\ active'[id] = NoCall
         /\ \A i \in Ids : active'[i] \in {active[i], NoCall}
         /\ \A e \in Calls : e \notin aborted' /\ active[IdOf(e)] = e
                               /\ e \in ToSet(listeners)
                             => active'[IdOf(e)] = e /\ e \in ToSet(listeners')
         /\ ToSet(below) \subseteq ToSet(stack')
         /\ \A f \in ToSet(stack') : f \in ToSet(below) \/ f.at = "aborting"
<1>1. CASE /\ active[id] = NoCall /\ UNCHANGED <<active, aborted>>
           /\ listeners' = heard /\ stack' = below
  <2>1. ASSUME NEW e \in Calls, active[IdOf(e)] = e, e \in ToSet(listeners)
        PROVE  e \in ToSet(heard)
    BY <1>1, <2>1, IdInIds
  <2> QED
    BY <1>1, <2>1
<1>2. ASSUME NEW d \in Calls, Cancelled(d, id, heard, below)
      PROVE  /\ aborted \subseteq aborted' /\ ToSet(listeners') \subseteq ToSet(listeners)
             /\ active'[id] = NoCall
             /\ \A i \in Ids : active'[i] \in {active[i], NoCall}
             /\ \A e \in Calls : e \notin aborted' /\ active[IdOf(e)] = e
                                   /\ e \in ToSet(listeners)
                                 => active'[IdOf(e)] = e /\ e \in ToSet(listeners')
             /\ ToSet(below) \subseteq ToSet(stack')
             /\ \A f \in ToSet(stack') : f \in ToSet(below) \/ f.at = "aborting"
  <2>1. /\ active[id] = d /\ aborted' = aborted \cup {d}
        /\ ToSet(listeners') = ToSet(heard) \ {d}
        /\ active'[id] = NoCall /\ \A i \in Ids : i # id => active'[i] = active[i]
    BY <1>2 DEF Cancelled, Types
  <2>2. ASSUME NEW e \in Calls, e \notin aborted', active[IdOf(e)] = e,
               e \in ToSet(listeners)
        PROVE  active'[IdOf(e)] = e /\ e \in ToSet(listeners')
    <3>1. e # d /\ IdOf(e) \in Ids /\ IdOf(e) # id
      BY <2>1, <2>2, IdInIds
    <3> QED
      BY <2>1, <2>2, <3>1
  <2>3. PICK f : f = Frame("aborting", d, "rpc-cancelled")
    OBVIOUS
  <2>4. f \in FrameSet /\ f.at = "aborting"
    BY <2>3, FrameMade DEF Frame, Causes
  <2>5. stack' = below \/ Pushed(below, stack', f)
    BY <1>2, <2>3 DEF Cancelled
  <2>6. /\ ToSet(below) \subseteq ToSet(stack')
        /\ \A g \in ToSet(stack') : g \in ToSet(below) \/ g.at = "aborting"
    BY <2>4, <2>5, ValuesAppended
  <2> QED
    BY <2>1, <2>2, <2>6
<1> QED
  BY <1>1, <1>2, CancelParts

\* Popping a frame in which no call begins, and maybe pushing another one.
LEMMA BeginsTop ==
  ASSUME Types, stack # <<>>, Top.at # "beginning",
         \/ stack' = Rest
         \/ \E f \in FrameSet : f.at # "beginning" /\ stack' = Append(Rest, f)
  PROVE  /\ \A f \in ToSet(stack') : f \in ToSet(stack) \/ f.at # "beginning"
         /\ \A f \in ToSet(stack) : f.at = "beginning" => f \in ToSet(stack')
         /\ Top.at # "dispatching" => (EndsIn(stack) => EndsIn(stack'))
<1>1. /\ ToSet(stack) = ToSet(Rest) \cup {Top}
      /\ \A f \in FrameSet : ToSet(Append(Rest, f)) = ToSet(Rest) \cup {f}
  BY TopFrames
<1>2. CASE stack' = Rest
  BY <1>1, <1>2 DEF EndsIn
<1>3. ASSUME NEW f \in FrameSet, f.at # "beginning", stack' = Append(Rest, f)
      PROVE  ToSet(stack') = ToSet(Rest) \cup {f}
  BY <1>1, <1>3
<1>4. CASE \E f \in FrameSet : f.at # "beginning" /\ stack' = Append(Rest, f)
  <2>1. PICK f \in FrameSet : f.at # "beginning" /\ stack' = Append(Rest, f)
    BY <1>4
  <2>2. ToSet(stack') = ToSet(Rest) \cup {f}
    BY <1>3, <2>1
  <2> QED
    BY <1>1, <2>1, <2>2 DEF EndsIn
<1> QED
  BY <1>2, <1>4

\* Pushing a frame.
LEMMA BeginsPushed ==
  ASSUME Types, NEW f \in FrameSet, stack' = Append(stack, f)
  PROVE  ToSet(stack') = ToSet(stack) \cup {f}
<1>1. Pushed(stack, stack', f) /\ stack \in Seq(FrameSet)
  BY DEF Pushed, Types, Good
<1> QED
  BY <1>1, ValuesAppended

LEMMA ReachInit == Init => Reach
<1> SUFFICES ASSUME Init PROVE Reach
  OBVIOUS
<1>1. ToSet(stack) = {}
  BY ValuesEmpty DEF Init
<1> QED
  BY <1>1 DEF Init, Reach, Going

\* A step of the work of a call.
LEMMA ReachWork ==
  ASSUME Types, Slots, Reach, NEW d \in Calls, WorkStep(d)
  PROVE  Reach'
<1>1. /\ UNCHANGED <<session, aborted>> /\ Going(d)
      /\ \A e \in Calls : e # d => work'[e] = work[e]
  BY DEF WorkStep, WorkKept, WorkEnded
<1>2. CASE WorkKept(d)
  <2>1. /\ UNCHANGED <<active, listeners>>
        /\ work'[d] \notin {"new", "ended"}
        /\ \A f \in ToSet(stack') : f \in ToSet(stack) \/ f.at # "beginning"
        /\ \A f \in ToSet(stack) : f.at = "beginning" => f \in ToSet(stack')
        /\ EndsIn(stack) => EndsIn(stack')
    BY <1>2 DEF WorkKept, FramesKept, WaitPoints, WorkPoints, BegunPoints, CheckPoints, EndsIn
  <2>2. \A i \in Ids : active[i] # NoCall => active[i] \in Calls
    BY DEF Types
  <2>3. \A i \in Ids : \/ active'[i] = NoCall
                       \/ /\ active'[i] = active[i]
                          /\ Going(active[i]) => work'[active[i]] \notin {"new", "ended"}
    BY <1>1, <2>1, <2>2 DEF Going
  <2>4. \A e \in Calls : Going(e)' => Going(e)
    BY <1>1 DEF Going
  <2> QED
    BY <1>1, <2>1, <2>3, <2>4, ReachQuiet
<1>3. ASSUME NEW response, WorkEnded(d, response)
      PROVE  Reach'
  <2>1. /\ active' = FinishOwn(d) /\ listeners' = Without(d) /\ work'[d] = "ended"
        /\ \A f \in ToSet(stack') : f \in ToSet(stack) \/ f.at # "beginning"
        /\ \A f \in ToSet(stack) : f.at = "beginning" => f \in ToSet(stack')
        /\ EndsIn(stack) => EndsIn(stack')
    BY <1>3 DEF WorkEnded, FramesKept, WaitPoints, WorkPoints, BegunPoints, CheckPoints, EndsIn
  <2>2. ToSet(listeners') = ToSet(listeners) \ {d}
    BY <2>1, RemovedParts DEF Types, Slots, Without
  <2>3. \A i \in Ids : active[i] # NoCall => active[i] \in Calls
    BY DEF Types
  <2>4. \A i \in Ids : active'[i] = IF active[i] = d THEN NoCall ELSE active[i]
    BY <2>1 DEF FinishOwn
  <2>5. \A i \in Ids : \/ active'[i] = NoCall
                       \/ /\ active'[i] = active[i]
                          /\ Going(active[i]) => work'[active[i]] \notin {"new", "ended"}
    BY <1>1, <2>3, <2>4 DEF Going
  <2>6. \A e \in Calls : Going(e)' => Going(e) /\ e # d
    BY <1>1, <2>1 DEF Going
  <2>7. \A e \in Calls : Going(e)' /\ active[IdOf(e)] = e /\ e \in ToSet(listeners)
                         => active'[IdOf(e)] = e /\ e \in ToSet(listeners')
    BY <2>2, <2>4, <2>6, IdInIds
  <2> QED
    BY <1>1, <2>1, <2>2, <2>5, <2>6, <2>7, ReachQuiet
<1> QED
  BY <1>2, <1>3 DEF WorkStep

\* A request arrives, and nothing is in progress.
LEMMA ReachDispatch ==
  ASSUME Types, Slots, Told, Reach, NEW d \in Calls, Dispatch(d), stack = <<>>
  PROVE  Reach'
<1>0. ToSet(stack) = {} /\ stack \in Seq(FrameSet)
  BY ValuesEmpty DEF Types, Good
<1>1. /\ session' = session /\ session = "current" /\ work[d] = "new"
      /\ \A i \in Ids : active[i] # d
  BY DEF Dispatch, Told, CallTold
<1>2. \A i \in Ids : active[i] # NoCall => active[i] \in Calls
  BY DEF Types
<1>3. CASE /\ work' = [work EXCEPT ![d] = "ended"]
           /\ stack' = Append(stack, Frame("rejected", d, ""))
           /\ UNCHANGED <<active, aborted, slots>>
  <2>1. PICK f : f = Frame("rejected", d, "")
    OBVIOUS
  <2>2. f \in FrameSet /\ f.at = "rejected"
    BY <2>1, FrameMade DEF Frame
  <2>3. ToSet(stack') = {f}
    BY <1>0, <1>3, <2>1, <2>2, BeginsPushed
  <2>4. /\ work'[d] = "ended" /\ \A e \in Calls : e # d => work'[e] = work[e]
        /\ UNCHANGED <<active, aborted, listeners>>
    BY <1>3 DEF Types, slots
  <2>5. \A e \in Calls : Going(e)' => Going(e)
    BY <2>4 DEF Going
  <2>6. \A i \in Ids : Going(active[i]) /\ active[i] # NoCall
                       => work'[active[i]] \notin {"new", "ended"}
    BY <1>1, <1>2, <2>4 DEF Going
  <2> QED
    BY <1>0, <1>1, <2>2, <2>3, <2>4, <2>5, <2>6, ReachQuiet
<1>4. CASE /\ work' = [work EXCEPT ![d] = "begun"]
           /\ CancelActive(IdOf(d), listeners, Append(stack, Frame("beginning", d, "")))
  <2>1. PICK f, below : f = Frame("beginning", d, "") /\ below = Append(stack, f)
    OBVIOUS
  <2>2. f \in FrameSet /\ f.at = "beginning" /\ f.call = d /\ Pushed(stack, below, f)
    BY <2>1, FrameMade DEF Frame, WorkPoints, BegunPoints, Pushed
  <2>3. below \in Seq(FrameSet) /\ ToSet(below) = {f}
    <3>1. below \in Seq(FrameSet) /\ ToSet(below) = ToSet(stack) \cup {f}
      <4>1. stack \in Seq(FrameSet)
        BY DEF Types, Good
      <4>2. f \in FrameSet /\ Pushed(stack, below, f)
        BY <2>2
      <4> QED
        BY ONLY <4>1, <4>2, ValuesAppended
    <3> QED
      BY <1>0, <3>1
  <2>4. IdOf(d) \in Ids /\ CancelActive(IdOf(d), listeners, below)
    BY <1>4, <2>1, IdInIds
  <2>5. /\ aborted \subseteq aborted'
        /\ active'[IdOf(d)] = NoCall
        /\ \A i \in Ids : active'[i] \in {active[i], NoCall}
        /\ \A e \in Calls : e \notin aborted' /\ active[IdOf(e)] = e
                              /\ e \in ToSet(listeners)
                            => active'[IdOf(e)] = e /\ e \in ToSet(listeners')
        /\ ToSet(below) \subseteq ToSet(stack')
        /\ \A g \in ToSet(stack') : g \in ToSet(below) \/ g.at = "aborting"
    BY <2>3, <2>4, ReachCancelled DEF Types, Slots
  <2>6. /\ work'[d] = "begun" /\ \A e \in Calls : e # d => work'[e] = work[e]
    BY <1>4 DEF Types
  <2>7. \A g \in ToSet(stack') : g.at = "beginning" => g = f
    BY <2>3, <2>5
  <2>8. ASSUME NEW e \in Calls, work'[e] \notin {"new", "ended"}
        PROVE  \/ e \in aborted' \/ BeginsIn(stack', e)
               \/ active'[IdOf(e)] = e /\ e \in ToSet(listeners')
    <3>1. CASE e = d
      BY <2>2, <2>3, <2>5, <3>1 DEF BeginsIn
    <3>2. CASE e # d
      <4>1. Going(e) /\ ~BeginsIn(stack, e)
        BY <1>0, <2>6, <2>8, <3>2 DEF Going, BeginsIn
      <4> QED
        BY <2>5, <4>1 DEF Reach
    <3> QED
      BY <3>1, <3>2
  <2>9. ASSUME NEW i \in Ids, active'[i] # NoCall
        PROVE  work'[active'[i]] \notin {"new", "ended"} /\ IdOf(active'[i]) = i
    <3>1. active'[i] = active[i] /\ Going(active[i]) /\ IdOf(active[i]) = i
      BY <2>5, <2>9 DEF Reach
    <3> QED
      BY <1>1, <1>2, <2>6, <2>9, <3>1 DEF Going
  <2> QED
    BY <1>1, <2>2, <2>5, <2>7, <2>8, <2>9 DEF Reach, BeginsIn, EndsIn, Going
<1> QED
  BY <1>3, <1>4 DEF Dispatch

\* The rest of #begin: the call can be reached now, or is aborted.
LEMMA ReachBegin ==
  ASSUME Types, Slots, Told, Reach, Begin
  PROVE  Reach'
<1>0. PICK d, f, g, below : /\ d = Top.call /\ f = Frame("starting", d, "")
                            /\ g = Frame("aborting", d, "rpc-cancelled")
                            /\ below = Append(Rest, f)
  OBVIOUS
<1>1. /\ stack # <<>> /\ Top.at = "beginning" /\ UNCHANGED <<session, work>>
      /\ \/ /\ session = "retired"
            /\ active' = [active EXCEPT ![IdOf(d)] = NoCall]
            /\ aborted' = aborted \cup {d} /\ listeners' = listeners
            /\ stack' = Append(below, g)
         \/ /\ session # "retired"
            /\ active' = [active EXCEPT ![IdOf(d)] = d]
            /\ listeners' = Append(listeners, d)
            /\ stack' = below /\ aborted' = aborted
  BY <1>0 DEF Begin, At
<1>2. d \in Calls /\ work[d] = "begun" /\ IdOf(d) \in Ids /\ d # NoCall
  BY <1>0, <1>1, TopParts, IdInIds DEF Expected, WorkPoints, BegunPoints
<1>3. /\ f \in FrameSet /\ f.at = "starting" /\ g \in FrameSet /\ g.at = "aborting"
  BY <1>0, <1>2, FrameMade DEF Frame, Causes, WorkPoints, BegunPoints
<1>4. /\ below \in Seq(FrameSet) /\ ToSet(below) = ToSet(Rest) \cup {f}
      /\ ToSet(stack) = ToSet(Rest) \cup {Top}
  BY <1>0, <1>1, <1>3, TopFrames
<1>5. ToSet(stack') = ToSet(below) \/ ToSet(stack') = ToSet(below) \cup {g}
  <2>1. stack' = below \/ Pushed(below, stack', g)
    BY <1>1 DEF Pushed
  <2> QED
    BY <1>3, <1>4, <2>1, ValuesAppended
<1>6. \A h \in ToSet(stack') : h.at # "beginning"
  <2>1. ASSUME NEW h \in ToSet(Rest), h.at = "beginning"
        PROVE  FALSE
    <3>1. h.call # d
      BY <1>0, <1>1, <2>1, TopFrames DEF WorkPoints, BegunPoints
    <3>2. h.call = d
      BY <1>0, <1>1, <1>4, <2>1 DEF Reach
    <3> QED
      BY <3>1, <3>2
  <2> QED
    BY <1>3, <1>4, <1>5, <2>1
<1>7. active[IdOf(d)] = NoCall /\ \A e \in Calls : BeginsIn(stack, e) => e = d
  BY <1>0, <1>1, <1>4 DEF Reach, BeginsIn
<1>8. EndsIn(stack) => EndsIn(stack')
  BY <1>1, <1>4, <1>5 DEF EndsIn
<1>9. /\ \A i \in Ids : i # IdOf(d) => active'[i] = active[i]
      /\ active'[IdOf(d)] \in {NoCall, d}
      /\ ToSet(listeners) \subseteq ToSet(listeners') /\ aborted \subseteq aborted'
      /\ d \in aborted' \/ (active'[IdOf(d)] = d /\ d \in ToSet(listeners'))
      /\ session = "retired" => ToSet(listeners') = ToSet(listeners)
  <2>1. listeners \in Seq(Calls)
    BY DEF Types
  <2>2. CASE session = "retired"
    BY <1>1, <1>2, <2>2 DEF Types
  <2>3. CASE session # "retired"
    <3>1. Pushed(listeners, listeners', d)
      BY <1>1, <2>3 DEF Pushed
    <3>2. ToSet(listeners') = ToSet(listeners) \cup {d}
      BY <1>2, <2>1, <3>1, ValuesAppended
    <3> QED
      BY <1>1, <1>2, <2>3, <3>2 DEF Types
  <2> QED
    BY <2>2, <2>3
<1>10. ASSUME NEW e \in Calls, Going(e)
       PROVE  \/ e \in aborted'
              \/ active'[IdOf(e)] = e /\ e \in ToSet(listeners')
  <2>1. CASE e = d
    BY <1>9, <2>1
  <2>2. CASE e # d
    <3>1. \/ e \in aborted
          \/ active[IdOf(e)] = e /\ e \in ToSet(listeners)
      BY <1>7, <1>10, <2>2 DEF Reach
    <3>2. active[IdOf(e)] = e => IdOf(e) # IdOf(d) /\ IdOf(e) \in Ids
      BY <1>7, IdInIds
    <3> QED
      BY <1>9, <3>1, <3>2
  <2> QED
    BY <2>1, <2>2
<1>11. ASSUME NEW i \in Ids, active'[i] # NoCall
       PROVE  Going(active'[i]) /\ IdOf(active'[i]) = i
  <2>1. CASE i = IdOf(d)
    BY <1>2, <1>9, <1>11, <2>1 DEF Going
  <2>2. CASE i # IdOf(d)
    BY <1>9, <1>11, <2>2 DEF Reach
  <2> QED
    BY <2>1, <2>2
<1>12. session' = "retired" => ToSet(listeners') = {} \/ EndsIn(stack')
  BY <1>1, <1>8, <1>9 DEF Reach
<1>13. \A e : Going(e)' <=> Going(e)
  BY <1>1 DEF Going
<1>14. \A e \in Calls : Going(e)' =>
         \/ e \in aborted' \/ BeginsIn(stack', e)
         \/ active'[IdOf(e)] = e /\ e \in ToSet(listeners')
  BY <1>10, <1>13
<1>15. \A i \in Ids : active'[i] # NoCall =>
         work'[active'[i]] \notin {"new", "ended"} /\ IdOf(active'[i]) = i
  BY <1>1, <1>11 DEF Going
<1> QED
  BY <1>6, <1>12, <1>14, <1>15 DEF Reach, BeginsIn, EndsIn, Going

\* No step takes away that a call that works and is not aborted can be reached, when no
\* request arrives from inside an outside call.
LEMMA ReachNext ==
  ASSUME "dispatch" \notin ReentrantCalls, Types, Slots, Told, Reach, [Next]_vars
  PROVE  Reach'
<1> USE DEF options, slots
<1>1. \A i \in Ids : active[i] \in Calls \cup {NoCall}
  BY DEF Types
<1>2. ASSUME UNCHANGED <<session, active, work, aborted, listeners>>,
             \A f \in ToSet(stack') : f \in ToSet(stack) \/ f.at # "beginning",
             \A f \in ToSet(stack) : f.at = "beginning" => f \in ToSet(stack'),
             session = "retired" => \/ ToSet(listeners) = {}
                                    \/ EndsIn(stack) => EndsIn(stack')
      PROVE  Reach'
  <2>1. \A e \in Calls : Going(e)' => Going(e)
    BY <1>2 DEF Going
  <2>2. \A i \in Ids : Going(active[i]) => work'[active[i]] \notin {"new", "ended"}
    BY <1>2 DEF Going
  <2> QED
    BY <1>2, <2>1, <2>2, ReachQuiet
<1>3. CASE Aborting \/ Recorded \/ TimedOut \/ Arm \/ Finished
  <2>1. /\ stack # <<>> /\ Top.at \notin {"beginning", "dispatching"}
        /\ UNCHANGED <<session, active, work, aborted, listeners>>
        /\ \/ stack' = Rest
           \/ Top.at = "aborting" /\ stack' = Append(Rest, Frame(Top.arg, Top.call, ""))
    BY <1>3 DEF Aborting, Recorded, TimedOut, Arm, Finished, At
  <2>2. Top.at = "aborting" => /\ Frame(Top.arg, Top.call, "") \in FrameSet
                               /\ Frame(Top.arg, Top.call, "").at # "beginning"
    BY <2>1, TopParts, FrameMade DEF Frame, Causes
  <2>3. /\ \A f \in ToSet(stack') : f \in ToSet(stack) \/ f.at # "beginning"
        /\ \A f \in ToSet(stack) : f.at = "beginning" => f \in ToSet(stack')
        /\ EndsIn(stack) => EndsIn(stack')
    BY <2>1, <2>2, BeginsTop
  <2> QED
    BY <1>2, <2>1, <2>3
<1>4. CASE Begin
  BY <1>4, ReachBegin
<1>5. CASE Start \/ Asked \/ Parsed \/ Handled \/ Checked \/ Denied \/ Refused \/ Invalidated
  <2>1. Top.call \in Calls
    BY <1>5, TopParts DEF Start, Asked, Parsed, Handled, Checked, Denied, Refused,
       Invalidated, At
  <2> QED
    BY <1>5, <2>1, TopWorkSteps, ReachWork
<1>6. ASSUME NEW d \in Calls, Settle(d) \/ HandlerSettles(d) \/ Resume(d)
      PROVE  Reach'
  BY <1>6, FreeWorkSteps, ReachWork DEF Told, CallTold
<1>7. CASE Retired
  <2>1. PICK f : f = Frame("dispatching", NoCall, "")
    OBVIOUS
  <2>2. /\ stack # <<>> /\ Top.at = "retiring" /\ stack' = Append(Rest, f)
        /\ UNCHANGED <<active, work, aborted, listeners>>
    BY <1>7, <2>1 DEF Retired, At
  <2>3. f \in FrameSet /\ f.at = "dispatching"
    BY <2>1, FrameMade DEF Frame
  <2>4. /\ \A g \in ToSet(stack') : g \in ToSet(stack) \/ g.at # "beginning"
        /\ \A g \in ToSet(stack) : g.at = "beginning" => g \in ToSet(stack')
    BY <2>2, <2>3, BeginsTop
  <2>5. EndsIn(stack')
    <3>1. f \in ToSet(stack')
      BY <2>2, <2>3, TopFrames
    <3> QED
      BY <2>3, <3>1 DEF EndsIn
  <2>6. /\ \A e \in Calls : Going(e)' => Going(e)
        /\ \A i \in Ids : Going(active[i]) => work'[active[i]] \notin {"new", "ended"}
    BY <2>2 DEF Going
  <2> QED
    BY <2>2, <2>4, <2>5, <2>6, ReachQuiet
<1>8. CASE Retire
  <2>1. PICK f : f = Frame("retiring", NoCall, "")
    OBVIOUS
  <2>2. /\ stack' = Append(stack, f) /\ session' = "closing"
        /\ UNCHANGED <<active, work, aborted, listeners>>
    BY <1>8, <2>1 DEF Retire
  <2>3. f \in FrameSet /\ f.at = "retiring"
    BY <2>1, FrameMade DEF Frame
  <2>4. ToSet(stack') = ToSet(stack) \cup {f}
    BY <2>2, <2>3, BeginsPushed
  <2>5. /\ \A e \in Calls : Going(e)' => Going(e)
        /\ \A i \in Ids : Going(active[i]) => work'[active[i]] \notin {"new", "ended"}
    BY <2>2 DEF Going
  <2> QED
    BY <2>2, <2>3, <2>4, <2>5, ReachQuiet
<1>9. ASSUME NEW id \in Ids, NEW heard \in Seq(Calls), Once(heard),
             ToSet(heard) \subseteq ToSet(listeners),
             \A e \in ToSet(listeners) : e \in ToSet(heard) \/ IdOf(e) = id,
             CancelActive(id, heard, stack), session' = session, work' = work
      PROVE  Reach'
  <2>1. stack \in Seq(FrameSet)
    BY DEF Types, Good
  <2>2. /\ aborted \subseteq aborted' /\ ToSet(listeners') \subseteq ToSet(listeners)
        /\ \A i \in Ids : active'[i] \in {active[i], NoCall}
        /\ \A e \in Calls : e \notin aborted' /\ active[IdOf(e)] = e
                              /\ e \in ToSet(listeners)
                            => active'[IdOf(e)] = e /\ e \in ToSet(listeners')
        /\ ToSet(stack) \subseteq ToSet(stack')
        /\ \A f \in ToSet(stack') : f \in ToSet(stack) \/ f.at = "aborting"
    BY <1>9, <2>1, ReachCancelled
  <2>3. EndsIn(stack) => EndsIn(stack')
    BY <2>2 DEF EndsIn
  <2>4. /\ \A e \in Calls : Going(e)' => Going(e)
        /\ \A i \in Ids : Going(active[i]) => work'[active[i]] \notin {"new", "ended"}
    BY <1>9 DEF Going
  <2> QED
    BY <1>9, <2>2, <2>3, <2>4, ReachQuiet
<1>10. ASSUME NEW id \in Ids, Cancel(id)
       PROVE  Reach'
  <2>1. CancelActive(id, listeners, stack) /\ session' = session /\ work' = work
    BY <1>10 DEF Cancel
  <2>2. listeners \in Seq(Calls) /\ Once(listeners)
    BY DEF Types, Slots
  <2> QED
    BY <1>9, <2>1, <2>2
<1>11. CASE NotifyRetired
  <2>1. CASE listeners = <<>>
    <3>1. /\ stack # <<>> /\ Top.at = "dispatching" /\ stack' = Rest
          /\ UNCHANGED <<session, active, work, aborted, listeners>>
      BY <1>11, <2>1 DEF NotifyRetired, At
    <3>2. /\ \A f \in ToSet(stack') : f \in ToSet(stack) \/ f.at # "beginning"
          /\ \A f \in ToSet(stack) : f.at = "beginning" => f \in ToSet(stack')
      BY <3>1, BeginsTop
    <3>3. ToSet(listeners) = {}
      BY <2>1, ValuesEmpty
    <3> QED
      BY <1>2, <3>1, <3>2, <3>3
  <2>2. CASE listeners # <<>>
    <3>1. PICK id, heard : id = IdOf(Head(listeners)) /\ heard = Tail(listeners)
      OBVIOUS
    <3>2. listeners \in Seq(Calls) /\ Once(listeners)
      BY DEF Types, Slots
    <3>3. /\ heard \in Seq(Calls) /\ Once(heard) /\ Head(listeners) \in Calls
          /\ ToSet(listeners) = ToSet(heard) \cup {Head(listeners)}
      BY <2>2, <3>1, <3>2, ValuesTail, QueueParts
    <3>4. id \in Ids
      BY <3>1, <3>3, IdInIds
    <3>5. CancelActive(id, heard, stack) /\ session' = session /\ work' = work
      BY <1>11, <2>2, <3>1 DEF NotifyRetired
    <3>6. \A e \in ToSet(listeners) : e \in ToSet(heard) \/ IdOf(e) = id
      BY <3>1, <3>3
    <3> QED
      BY <1>9, <3>3, <3>4, <3>5, <3>6
  <2> QED
    BY <2>1, <2>2
<1>12. ASSUME NEW d \in Calls, Deadline(d)
       PROVE  Reach'
  <2>1. PICK f : f = Frame("aborting", d, "rpc-timed-out")
    OBVIOUS
  <2>2. /\ stack = <<>> /\ UNCHANGED <<session, active, work, listeners>>
        /\ aborted \subseteq aborted' /\ (stack' = stack \/ stack' = <<f>>)
    BY <1>12, <2>1 DEF Deadline
  <2>3. f \in FrameSet /\ f.at = "aborting"
    BY <2>1, FrameMade DEF Frame, Causes
  <2>4. ToSet(stack') = ToSet(stack) \/ ToSet(stack') = ToSet(stack) \cup {f}
    <3>1. CASE stack' = <<f>>
      <4>1. stack' = Append(stack, f)
        BY <2>2, <3>1
      <4> QED
        BY <2>3, <4>1, BeginsPushed
    <3> QED
      BY <2>2, <3>1
  <2>5. EndsIn(stack) => EndsIn(stack')
    BY <2>4 DEF EndsIn
  <2>6. /\ \A e \in Calls : Going(e)' => Going(e)
        /\ \A i \in Ids : Going(active[i]) => work'[active[i]] \notin {"new", "ended"}
    BY <2>2 DEF Going
  <2> QED
    BY <2>2, <2>3, <2>4, <2>5, <2>6, ReachQuiet
<1>13. ASSUME NEW d \in Calls, Dispatch(d)
       PROVE  Reach'
  BY <1>13, ReachDispatch DEF Dispatch, MayCall
<1>14. CASE UNCHANGED vars
  <2>1. UNCHANGED <<session, active, work, aborted, listeners, stack>>
    BY <1>14 DEF vars
  <2> QED
    BY <1>2, <2>1
<1> QED
  BY <1>3, <1>4, <1>5, <1>6, <1>7, <1>8, <1>10, <1>11, <1>12, <1>13, <1>14 DEF Next, Return

\* Between two events a call that works and was not aborted is reached by cancel and by
\* the end of the session, and after that end every call was told to stop; each call
\* records one cause.  Requests come from the event loop: the sink, authorize, the handler
\* and the abort listeners dispatch none themselves, without which it is false.
THEOREM CancellationCorrect ==
  ASSUME "dispatch" \notin ReentrantCalls
  PROVE  Spec => []Cancellation
<1>1. Init => IInv /\ Reach
  BY InvInit, ReachInit
<1>2. IInv /\ Reach /\ [Next]_vars => IInv' /\ Reach'
  BY InvNext, ReachNext DEF IInv
<1>3. IInv /\ Reach => StillReachable /\ RetiredAborts
  <2> SUFFICES ASSUME IInv, Reach, Idle
               PROVE  StillReachable /\ RetiredAborts
    BY DEF StillReachable, RetiredAborts
  <2>1. listeners \in Seq(Calls) /\ active \in [Ids -> Calls \cup {NoCall}]
    BY DEF IInv, Types
  <2>2. \A d : ~BeginsIn(stack, d) /\ ~EndsIn(stack)
    BY ValuesEmpty DEF Idle, BeginsIn, EndsIn
  <2>3. \A d \in Unfinished \ aborted : active[IdOf(d)] = d /\ d \in ToSet(listeners)
    BY <2>2 DEF Reach, Going, Unfinished
  <2>4. StillReachable
    BY <2>1, <2>3, Values DEF StillReachable
  <2>5. ASSUME session = "retired"
        PROVE  /\ Unfinished \subseteq aborted /\ listeners = <<>>
               /\ \A i \in Ids : active[i] = NoCall \/ active[i] \in aborted
    <3>1. ToSet(listeners) = {}
      BY <2>2, <2>5 DEF Reach
    <3>2. listeners = <<>>
      <4>1. ASSUME Len(listeners) # 0
            PROVE  FALSE
        <5>1. 1 \in 1 .. Len(listeners)
          BY <2>1, <4>1
        <5> QED
          BY <2>1, <3>1, <5>1, Values
      <4> QED
        BY <2>1, <4>1
    <3>3. Unfinished \subseteq aborted
      BY <2>3, <3>1 DEF Unfinished
    <3>4. \A i \in Ids : active[i] = NoCall \/ active[i] \in aborted
      BY <2>1, <3>3 DEF Reach, Going, Unfinished
    <3> QED
      BY <3>2, <3>3, <3>4
  <2> QED
    BY <2>4, <2>5 DEF RetiredAborts
<1> QED
  BY <1>1, <1>2, <1>3, OneCauseCorrect, PTL DEF Spec, Cancellation
=============================================================================
