------------------------ MODULE Subscriptions_proofs ------------------------
(***************************************************************************)
(* Theorems about Subscriptions.tla, for every number of sessions, ids and *)
(* slots, all calls back and every depth of them.                          *)
(***************************************************************************)
EXTENDS Subscriptions, SequenceLemmas

-----------------------------------------------------------------------------
(* The invariant *)

\* The places a call about a subscription can be at: those after which nothing is
\* said of it, those of one that has not been started, those of one that was, and
\* the end of #close.
Quiet == {"authorizing", "denying", "done"}
Speaking == {"established", "rejecting", "notify", "noticed", "opening"}
Active == {"greeted", "connecting", "failed", "failing", "sent", "detached", "parsing"}
SubPoints == Quiet \cup Speaking \cup Active \cup {"closing", "aborting"}
\* The calls of server.dispose().
Whole == {"disposing", "sweeping"}
Points == SubPoints \cup {"retiring", "dispatching"} \cup Whole

Messages == {"subscribed", "batch"} \cup Terminals
Causes == {"admission", "rejected", "retired"}
Args == {"", "none"} \cup Messages \cup Causes \cup AllReasons

FrameSet == [at : Points, sub : Nat \X Nat, arg : Args]

\* What the calls are about and what they need to go on.
FrameOK(f) ==
  /\ f.at \in SubPoints => f.sub \in Subs
  /\ f.at \in {"retiring", "dispatching"} =>
       f.sub \in Sessions \X {0} /\ f.arg \in AllReasons
  /\ f.at \in Whole => f.sub = <<0, 0>>
  /\ f.at \in {"rejecting", "notify", "noticed"} => f.arg \in Causes

\* The calls in progress, in no order; those about subscription c; those that send its
\* terminal, and those that have sent it.
Frames == ToSet(stack)
HasIn(F, at, c) == \E f \in F : f.at = at /\ f.sub = c
Due(f) == f.at = "detached" /\ f.arg \in Terminals
DueIn(F, c) == \E f \in F : Due(f) /\ f.sub = c
Ending(f) == f.at = "sent" /\ f.arg \in Terminals
SentIn(F, c) == \E f \in F : Ending(f) /\ f.sub = c
Has(at, c) == HasIn(Frames, at, c)
EndDue(c) == DueIn(Frames, c)
EndSent(c) == SentIn(Frames, c)
Is(at) == \E f \in Frames : f.at = at

\* The calls of a retirement that dispose() makes.
ForDispose(f) == f.at \in {"retiring", "dispatching"} /\ f.arg = "dispose"
Dispatching(s) == \E f \in Frames : f.at = "dispatching" /\ SessionOf(f.sub) = s

WindowSet ==
  [closed : BOOLEAN, concluded : BOOLEAN, inFlight : BOOLEAN, queued : BOOLEAN,
   opened : BOOLEAN, terminal : {"none", "complete", "error"}]
Places == {"none", "pending", "consumer"}
Leases == {"none", "held", "released"}
Verdicts == {"none", "waiting", "allowed", "rejected", "cancelled"}

Typed ==
  /\ status \in [Sessions -> {"fresh", "current", "closing"} \cup AllReasons]
  /\ hasAuthorize \in AuthorizeOptions /\ disposed \in BOOLEAN
  /\ watermark \in [Sessions -> 0 .. NumIds]
  /\ place \in [Subs -> Places]
  /\ live \subseteq Sessions
  /\ lease \in [Subs -> Leases]
  /\ listeners \in [Sessions -> Seq(Subs)]
  /\ verdict \in [Subs -> Verdicts]
  /\ window \in [Subs -> WindowSet]
  /\ upstream \subseteq Subs
  /\ requested \subseteq Subs /\ left \subseteq Subs /\ lost \subseteq Subs
  /\ out \in [Subs -> Seq(Messages)]
  /\ stack \in Seq(FrameSet)
  /\ \A f \in Frames : FrameOK(f)

\* Whether call f can be in progress around call g: what is said of a subscription that
\* has not been started, and up to its connection to the source, is the only thing that
\* goes on about it; one call sends its terminal; dispose() is called once and its
\* retirements are inside; the subscription that is greeted heard of no retirement.
Under(f, g) ==
  /\ g.at \in Speaking \cup {"greeted", "connecting"} /\ f.sub = g.sub => f.at \in Quiet
  /\ Due(f) /\ Due(g) => f.sub # g.sub
  /\ g.at \in Whole => f.at \notin Whole /\ ~ForDispose(f)
  /\ f.at = "dispatching" /\ g.at = "greeted" => SessionOf(f.sub) # SessionOf(g.sub)
  /\ f.at = "retiring" /\ g.at = "retiring" => f.sub # g.sub

Nested(q) == \A i, j \in 1 .. Len(q) : j < i => Under(q[j], q[i])

\* How far the retirements and dispose() are.
Retirement ==
  /\ \A f \in Frames : f.at \in Whole => disposed
  /\ \A f \in Frames : ForDispose(f) => Is("disposing")
  /\ disposed => Is("disposing") \/ \A s \in Sessions : status[s] # "current"
  /\ \A f \in Frames : f.at = "retiring" => status[SessionOf(f.sub)] = "closing"
  /\ \A f \in Frames : f.at = "dispatching" => status[SessionOf(f.sub)] = f.arg
  /\ \A f \in Frames : f.at \in {"notify", "noticed"} /\ f.arg = "retired" =>
       RetireReason(SessionOf(f.sub)) # "none"
  /\ \A s \in Sessions : RetireReason(s) # "none" /\ listeners[s] # <<>> => Dispatching(s)

\* A subscription listens to the retirement of its own session, once.
Heard ==
  \A s \in Sessions :
    Once(listeners[s]) /\ \A c \in ToSet(listeners[s]) : SessionOf(c) = s

Listens(c) == c \in ToSet(listeners[SessionOf(c)])

\* What a Renderer may hear of one subscription, and whether it heard the end of it.
Protocol(q) ==
  \A i \in 1 .. Len(q) :
    /\ q[i] = "subscribed" <=> i = 1
    /\ q[i] \in Terminals => i = Len(q)
Ended(q) == q # <<>> /\ q[Len(q)] \in Terminals
HasEnd(c) == Ended(out[c])

Untouched(c) ==
  /\ place[c] = "none" /\ lease[c] = "none" /\ window[c] = NewWindow
  /\ out[c] = <<>> /\ verdict[c] = "none" /\ ~Listens(c) /\ c \notin upstream

\* How far a subscription is before it is opened.
Birth(c) ==
  /\ c \notin requested => Untouched(c) /\ \A at \in SubPoints : ~Has(at, c)
  /\ Has("established", c) \/ Has("rejecting", c) =>
       Untouched(c) /\ \A at \in SubPoints \ {"established", "rejecting"} : ~Has(at, c)
  /\ Has("notify", c) \/ Has("opening", c) \/ place[c] = "pending" => out[c] = <<>>
  /\ Has("noticed", c) => out[c] = <<"subscribed">>
  /\ Has("notify", c) \/ Has("opening", c) \/ Has("noticed", c) \/ place[c] = "pending"
       => ~window[c].opened
  /\ place[c] = "pending" => \A at \in SubPoints : Has(at, c) => at \in Quiet
  /\ Has("notify", c) \/ Has("noticed", c) => place[c] # "consumer" \/ window[c].closed
  /\ Has("opening", c) => (~window[c].closed => place[c] = "consumer") /\ ~Listens(c)
  /\ ~window[c].opened =>
       /\ c \notin upstream /\ ~window[c].concluded /\ ~window[c].inFlight
       /\ window[c].terminal = "none"
       /\ \A at \in Active : ~Has(at, c)
       /\ place[c] = "consumer" /\ ~window[c].closed => Has("opening", c)
  /\ verdict[c] = "cancelled" => place[c] # "pending"

\* How far a subscription is once it is opened, and what its Renderer has heard.
Life(c) ==
  /\ Protocol(out[c])
  /\ c \in upstream \/ (\E at \in Active : Has(at, c)) => out[c] # <<>>
  /\ window[c].opened /\ ~window[c].closed => place[c] = "consumer" /\ out[c] # <<>>
  /\ HasEnd(c) /\ window[c].opened => window[c].concluded
  /\ EndDue(c) => window[c].concluded /\ ~HasEnd(c)
  /\ EndSent(c) => HasEnd(c)
  /\ window[c].concluded => HasEnd(c) \/ EndDue(c) \/ c \in lost
  /\ window[c].concluded /\ ~window[c].closed => EndSent(c) \/ EndDue(c)
  /\ place[c] = "consumer" /\ window[c].closed => Has("closing", c)
  /\ Has("closing", c) => window[c].closed
  /\ c \in upstream => window[c].terminal = "none"
  /\ c \in upstream /\ window[c].closed => Has("closing", c) \/ Has("aborting", c)
  /\ window[c].opened /\ Accepting(window[c]) =>
       c \in upstream \/ Has("greeted", c) \/ Has("failed", c) \/ Has("failing", c)
  /\ Has("connecting", c) => c \in upstream \/ ~Accepting(window[c])
  /\ Has("aborting", c) => window[c].closed
  /\ Has("greeted", c) =>
       /\ c \notin upstream /\ window[c].terminal = "none"
       /\ \A at \in {"connecting", "failed", "failing", "detached", "parsing"} : ~Has(at, c)

\* The slot, the place and the retire listener of a subscription.
Slot(c) ==
  /\ lease[c] = "held" => place[c] # "none"
  /\ place[c] = "consumer" => lease[c] = "held"
  /\ Listens(c) =>
       /\ lease[c] = "held"
       /\ place[c] = "pending" \/ (place[c] = "consumer" /\ window[c].opened)
  /\ place[c] = "pending" => Listens(c) \/ lease[c] # "held"
  /\ place[c] = "pending" /\ lease[c] # "held" =>
       Is("sweeping") /\ status[SessionOf(c)] # "dispose"
  /\ window[c].opened /\ ~window[c].closed /\ ~window[c].concluded => Listens(c)
  /\ place[c] # "none" => SessionOf(c) \in live

LiveOwns == ~disposed => \A s \in live : OpenIn(s) # {}

\* dispose() ended the subscriptions of a session that was being retired.
Overtaken(s) == disposed /\ ~Is("disposing") /\ status[s] # "dispose"

\* A subscription that was accepted has heard its end or is going to, unless its Renderer
\* gave it up, cannot be reached, or will not ask.
Told(c) ==
  /\ lease[c] # "none" /\ c \notin left /\ c \notin lost =>
       \/ HasEnd(c) \/ EndDue(c) \/ Has("noticed", c) \/ Has("notify", c)
       \/ Has("opening", c)
       \/ place[c] = "pending"
       \/ place[c] = "consumer" /\ ~window[c].closed
       \/ RetireReason(SessionOf(c)) \in {"replaced", "navigation"}
       \/ Overtaken(SessionOf(c))
  /\ Has("opening", c) /\ window[c].closed =>
       c \in left \/ RetireReason(SessionOf(c)) # "none" \/ Overtaken(SessionOf(c))

Good(c) == Birth(c) /\ Life(c) /\ Slot(c) /\ Told(c)

Inv ==
  /\ Typed /\ Nested(stack) /\ Retirement /\ Heard /\ LiveOwns
  /\ \A c \in Subs : Good(c)

-----------------------------------------------------------------------------
(* Subscriptions and calls *)

\* Subscriptions and sessions are told apart from the marks of the other calls.
LEMMA SubParts ==
  ASSUME NEW c \in Subs
  PROVE  /\ SessionOf(c) \in Sessions /\ IdOf(c) \in 1 .. NumIds
         /\ c \in Nat \X Nat
         /\ c \notin Sessions \X {0} /\ c # <<0, 0>>
BY SessionsAssumption DEF Subs, Sessions, SessionOf, IdOf

LEMMA SessionMark ==
  ASSUME NEW s \in Sessions
  PROVE  /\ <<s, 0>> \in Sessions \X {0} /\ <<s, 0>> \in Nat \X Nat
         /\ SessionOf(<<s, 0>>) = s
BY SessionsAssumption DEF Sessions, SessionOf

\* Which points there are, spelled out once.
LEMMA PointsAre ==
  /\ \A at \in Points :
       \/ at \in SubPoints \/ at = "retiring" \/ at = "dispatching" \/ at \in Whole
  /\ SubPoints \subseteq Points
  /\ "retiring" \notin SubPoints /\ "dispatching" \notin SubPoints
  /\ "disposing" \notin SubPoints /\ "sweeping" \notin SubPoints
BY DEF Points, SubPoints, Quiet, Speaking, Active, Whole

LEMMA SubFrame ==
  ASSUME NEW c \in Subs, NEW at \in SubPoints, NEW arg \in Args,
         at \in {"rejecting", "notify", "noticed"} => arg \in Causes
  PROVE  LET f == Frame(at, c, arg) IN
         /\ f \in FrameSet /\ FrameOK(f)
         /\ f.at = at /\ f.sub = c /\ f.arg = arg
<1>1. c \in Nat \X Nat
  BY SubParts
<1>2. at \in Points /\ at \notin {"retiring", "dispatching"} /\ at \notin Whole
  BY PointsAre DEF Whole
<1> QED
  BY <1>1, <1>2 DEF Frame, FrameSet, FrameOK

LEMMA SessionFrame ==
  ASSUME NEW s \in Sessions, NEW at \in {"retiring", "dispatching"}, NEW arg \in AllReasons
  PROVE  LET f == Frame(at, <<s, 0>>, arg) IN
         /\ f \in FrameSet /\ FrameOK(f)
         /\ f.at = at /\ f.sub = <<s, 0>> /\ f.arg = arg
<1>1. <<s, 0>> \in Nat \X Nat /\ <<s, 0>> \in Sessions \X {0}
  BY SessionMark
<1>2. at \in Points /\ at \notin SubPoints /\ at \notin Whole /\ arg \in Args
      /\ at \notin {"rejecting", "notify", "noticed"}
  BY PointsAre DEF Whole, Points, Args
<1> QED
  BY <1>1, <1>2 DEF Frame, FrameSet, FrameOK

LEMMA ServerFrame ==
  ASSUME NEW at \in Whole
  PROVE  LET f == Frame(at, <<0, 0>>, "") IN
         /\ f \in FrameSet /\ FrameOK(f)
         /\ f.at = at /\ f.sub = <<0, 0>> /\ f.arg = ""
<1>1. at \in Points /\ at \notin SubPoints /\ "" \in Args
      /\ at \notin {"rejecting", "notify", "noticed", "retiring", "dispatching"}
  BY PointsAre DEF Whole, Points, Args
<1> QED
  BY <1>1 DEF Frame, FrameSet, FrameOK

-----------------------------------------------------------------------------
(* The stack *)

\* The calls around the innermost one.
Below == ToSet(Rest)

LEMMA TopPopped ==
  ASSUME Typed, Nested(stack), stack # <<>>
  PROVE  /\ Rest \in Seq(FrameSet) /\ Top \in FrameSet /\ FrameOK(Top)
         /\ Frames = Below \cup {Top}
         /\ Nested(Rest) /\ \A f \in Below : Under(f, Top)
<1>1. stack \in Seq(FrameSet) /\ \A f \in Frames : FrameOK(f)
  BY DEF Typed
<1>2. Popped(stack, Rest, Top)
  BY DEF Popped, Rest, Top
<1>3. Rest \in Seq(FrameSet) /\ Top \in Frames /\ Frames = Below \cup {Top}
  BY <1>1, <1>2, ValuesPopped DEF Frames, Below
<1>4. Top \in FrameSet
  BY <1>1, <1>3, Values DEF Frames
<1>5. /\ Len(stack) \in Nat \ {0} /\ Len(Rest) = Len(stack) - 1
      /\ \A i \in 1 .. Len(stack) - 1 : Rest[i] = stack[i]
      /\ Top = stack[Len(stack)]
  BY <1>1, StackParts DEF Rest, Top
<1>6. Nested(Rest)
  BY <1>5 DEF Nested
<1>7. ASSUME NEW f \in Below PROVE Under(f, Top)
  <2>1. PICK i \in 1 .. Len(Rest) : Rest[i] = f
    BY <1>3, Values DEF Below
  <2>2. i \in 1 .. Len(stack) /\ Len(stack) \in 1 .. Len(stack) /\ i < Len(stack)
        /\ stack[i] = f
    BY <1>5, <2>1
  <2> QED
    BY <1>5, <2>2 DEF Nested
<1> QED
  BY <1>1, <1>3, <1>4, <1>6, <1>7

LEMMA OnePushed ==
  ASSUME NEW q \in Seq(FrameSet), NEW g \in FrameSet
  PROVE  /\ Append(q, g) \in Seq(FrameSet)
         /\ ToSet(Append(q, g)) = ToSet(q) \cup {g}
         /\ Nested(q) /\ (\A f \in ToSet(q) : Under(f, g)) => Nested(Append(q, g))
<1>1. Pushed(q, Append(q, g), g)
  BY DEF Pushed
<1>2. Append(q, g) \in Seq(FrameSet) /\ ToSet(Append(q, g)) = ToSet(q) \cup {g}
  BY <1>1, ValuesAppended
<1>3. ASSUME Nested(q), \A f \in ToSet(q) : Under(f, g)
      PROVE  Nested(Append(q, g))
  <2> DEFINE r == Append(q, g)
             n == Len(q)
  <2>1. n \in Nat /\ Len(r) = n + 1 /\ (\A i \in 1 .. n : r[i] = q[i]) /\ r[n + 1] = g
    BY Appended
  <2>2. \A i \in 1 .. n : q[i] \in ToSet(q)
    BY Values
  <2>3. \A i, j \in 1 .. n : j < i => Under(q[j], q[i])
    BY <1>3 DEF Nested
  <2> HIDE DEF r, n
  <2> SUFFICES ASSUME NEW i \in 1 .. Len(r), NEW j \in 1 .. Len(r), j < i
               PROVE  Under(r[j], r[i])
    BY DEF Nested, r
  <2>4. j \in 1 .. n /\ r[j] = q[j]
    BY <2>1
  <2>5. CASE i \in 1 .. n
    BY <2>1, <2>3, <2>4, <2>5
  <2>6. CASE i = n + 1
    BY <1>3, <2>1, <2>2, <2>4, <2>6
  <2> QED
    BY <2>1, <2>5, <2>6
<1> QED
  BY <1>2, <1>3

\* Two calls of one place in a nested stack are the same call.
LEMMA Exclusive ==
  ASSUME Typed, Nested(stack), NEW f \in Frames, NEW g \in Frames, f # g
  PROVE  Under(f, g) \/ Under(g, f)
<1>1. stack \in Seq(FrameSet)
  BY DEF Typed
<1>2. PICK i \in 1 .. Len(stack) : stack[i] = f
  BY <1>1, Values DEF Frames
<1>3. PICK j \in 1 .. Len(stack) : stack[j] = g
  BY <1>1, Values DEF Frames
<1>4. i < j \/ j < i
  BY <1>1, <1>2, <1>3
<1> QED
  BY <1>2, <1>3, <1>4 DEF Nested

\* What a set of calls says once one more is in it.
LEMMA OneMore ==
  ASSUME NEW F, NEW g, NEW G, G = F \cup {g}
  PROVE  /\ \A at, c : HasIn(G, at, c) <=> HasIn(F, at, c) \/ (g.at = at /\ g.sub = c)
         /\ \A c : DueIn(G, c) <=> DueIn(F, c) \/ (Due(g) /\ g.sub = c)
         /\ \A c : SentIn(G, c) <=> SentIn(F, c) \/ (Ending(g) /\ g.sub = c)
BY DEF HasIn, DueIn, SentIn

\* dispose() either retires sessions or sweeps.
LEMMA DisposeOnce ==
  ASSUME Typed, Nested(stack), Is("sweeping")
  PROVE  ~Is("disposing")
<1> SUFFICES ASSUME Is("disposing") PROVE FALSE
  OBVIOUS
<1>1. PICK f \in Frames : f.at = "sweeping"
  BY DEF Is
<1>2. PICK g \in Frames : g.at = "disposing"
  BY DEF Is
<1>3. f # g /\ ~Under(f, g) /\ ~Under(g, f)
  BY <1>1, <1>2 DEF Under, Whole
<1> QED
  BY <1>3, Exclusive

\* A session that dispose() retires has nobody left who listens when the maps are swept.
LEMMA SweptUnheard ==
  ASSUME Typed, Nested(stack), Retirement, Is("sweeping"),
         NEW s \in Sessions, status[s] = "dispose"
  PROVE  listeners[s] = <<>>
<1> SUFFICES ASSUME listeners[s] # <<>> PROVE FALSE
  OBVIOUS
<1>1. RetireReason(s) # "none"
  BY DEF RetireReason, AllReasons
<1>2. PICK f \in Frames : f.at = "dispatching" /\ SessionOf(f.sub) = s
  BY <1>1 DEF Retirement, Dispatching
<1>3. f.arg = "dispose"
  BY <1>2 DEF Retirement
<1>4. Is("disposing")
  BY <1>2, <1>3 DEF Retirement, ForDispose
<1> QED
  BY <1>4, DisposeOnce

-----------------------------------------------------------------------------
(* Listeners *)

LEMMA UnheardParts ==
  ASSUME NEW q \in Seq(Subs), Once(q), NEW c
  PROVE  /\ Removed(q, c) \in Seq(Subs) /\ Once(Removed(q, c))
         /\ ToSet(Removed(q, c)) = ToSet(q) \ {c}
<1>1. CASE Contains(q, c)
  <2>1. PICK k \in 1 .. Len(q) : k = CHOOSE i \in DOMAIN q : q[i] = c
    BY <1>1 DEF Contains
  <2>2. q[k] = c
    BY <1>1, <2>1 DEF Contains
  <2>3. Removed(q, c) = RemoveAt(q, k)
    BY <1>1, <2>1 DEF Removed
  <2> QED
    BY <2>2, <2>3, ValuesRemoved
<1>2. CASE ~Contains(q, c)
  <2>1. c \notin ToSet(q)
    BY <1>2, Values DEF Contains
  <2> QED
    BY <1>2, <2>1 DEF Removed
<1> QED
  BY <1>1, <1>2

-----------------------------------------------------------------------------
(* Steps about one subscription *)

\* Call f is about subscription c; g is one that can be made about it.
About(c, f) == f.sub = c /\ f.at \in SubPoints
Onto(c, g) ==
  /\ g \in FrameSet /\ FrameOK(g) /\ About(c, g)
  /\ g.at \in {"notify", "noticed"} /\ g.arg = "retired" =>
       RetireReason(SessionOf(c)) # "none"

\* The stack q differs from the one there is in calls about subscription c.
Moves(c, q) ==
  /\ q \in Seq(FrameSet) /\ Nested(q)
  /\ \A f \in ToSet(q) : f \in Frames \/ Onto(c, f)
  /\ \A f \in Frames : f \in ToSet(q) \/ About(c, f)

\* The session of c is opened.
Admits(c) ==
  LET s == SessionOf(c) IN
  ~disposed /\ status[s] = "fresh" /\ status' = [status EXCEPT ![s] = "current"]

\* The variables of the other subscriptions are left alone.
Touches(c) ==
  /\ UNCHANGED server /\ (UNCHANGED status \/ Admits(c))
  /\ watermark' \in [Sessions -> 0 .. NumIds]
  /\ \E x \in Places : place' = [place EXCEPT ![c] = x]
  /\ \E x \in Leases : lease' = [lease EXCEPT ![c] = x]
  /\ \E x \in Verdicts : verdict' = [verdict EXCEPT ![c] = x]
  /\ \E x \in WindowSet : window' = [window EXCEPT ![c] = x]
  /\ \E x \in Seq(Messages) : out' = [out EXCEPT ![c] = x]
  /\ upstream' \subseteq Subs /\ \A d \in Subs : d # c => (d \in upstream' <=> d \in upstream)
  /\ requested' \in {requested, requested \cup {c}}
  /\ left' \in {left, left \cup {c}} /\ lost' \in {lost, lost \cup {c}}

\* So are their retire listeners.
Hears(c) ==
  LET s == SessionOf(c) IN
  \E q \in Seq(Subs) :
    /\ listeners' = [listeners EXCEPT ![s] = q]
    /\ Once(q) /\ \A d \in Subs : d # c => (d \in ToSet(q) <=> d \in ToSet(listeners[s]))
    /\ c \in ToSet(q) /\ c \notin ToSet(listeners[s]) => RetireReason(s) = "none"

\* The sessions that own a subscription.
Owns(c) ==
  /\ live' \subseteq Sessions
  /\ \A s \in Sessions : s # SessionOf(c) => (s \in live' <=> s \in live)
  /\ \A d \in Subs : SessionOf(d) = SessionOf(c) /\ place'[d] # "none" => SessionOf(d) \in live'
  /\ ~disposed /\ SessionOf(c) \in live' =>
       \E d \in Subs : SessionOf(d) = SessionOf(c) /\ place'[d] # "none"

LEMMA StackStays ==
  ASSUME Typed, Nested(stack), NEW c PROVE Moves(c, stack)
BY DEF Typed, Moves, Frames

LEMMA StackPops ==
  ASSUME Typed, Nested(stack), NEW c, stack # <<>>, About(c, Top) PROVE Moves(c, Rest)
BY TopPopped DEF Moves, Below

LEMMA StackGrows ==
  ASSUME NEW c, NEW q, Moves(c, q), NEW g, Onto(c, g), \A f \in ToSet(q) : Under(f, g)
  PROVE  /\ Moves(c, Append(q, g))
         /\ ToSet(Append(q, g)) = ToSet(q) \cup {g}
<1>1. /\ Append(q, g) \in Seq(FrameSet) /\ ToSet(Append(q, g)) = ToSet(q) \cup {g}
      /\ Nested(Append(q, g))
  BY OnePushed DEF Moves, Onto
<1> QED
  BY <1>1 DEF Moves

\* Where the calls that are not about c are.
LEMMA Elsewhere ==
  ASSUME Typed, NEW c \in Subs, Moves(c, stack')
  PROVE  /\ \A f : f.at \notin SubPoints => (f \in Frames' <=> f \in Frames)
         /\ \A f : f.sub # c => (f \in Frames' <=> f \in Frames)
         /\ Is("disposing")' <=> Is("disposing")
         /\ Is("sweeping")' <=> Is("sweeping")
         /\ \A s : Dispatching(s)' <=> Dispatching(s)
         /\ \A d : d # c => /\ \A at : Has(at, d)' <=> Has(at, d)
                            /\ EndDue(d)' <=> EndDue(d)
                            /\ EndSent(d)' <=> EndSent(d)
<1>1. /\ \A f \in Frames' : f \in Frames \/ About(c, f)
      /\ \A f \in Frames : f \in Frames' \/ About(c, f)
  BY DEF Moves, Onto, Frames
<1>2. /\ \A f : f.at \notin SubPoints => (f \in Frames' <=> f \in Frames)
      /\ \A f : f.sub # c => (f \in Frames' <=> f \in Frames)
  BY <1>1 DEF About
<1>3. /\ Is("disposing")' <=> Is("disposing")
      /\ Is("sweeping")' <=> Is("sweeping")
      /\ \A s : Dispatching(s)' <=> Dispatching(s)
  BY <1>2, PointsAre DEF Is, Dispatching
<1>4. ASSUME NEW d, d # c
      PROVE  /\ \A at : Has(at, d)' <=> Has(at, d)
             /\ EndDue(d)' <=> EndDue(d)
             /\ EndSent(d)' <=> EndSent(d)
  BY <1>2, <1>4 DEF Has, HasIn, EndDue, DueIn, EndSent, SentIn
<1> QED
  BY <1>2, <1>3, <1>4

\* Retirements go on as before.
Calm(s) ==
  /\ RetireReason(s)' = RetireReason(s)
  /\ status'[s] = "dispose" <=> status[s] = "dispose"
  /\ Overtaken(s)' <=> Overtaken(s)

LEMMA CalmSteps ==
  ASSUME Typed, NEW c \in Subs, Moves(c, stack'), UNCHANGED server,
         UNCHANGED status \/ Admits(c)
  PROVE  /\ \A s \in Sessions : Calm(s)
         /\ Is("sweeping")' <=> Is("sweeping")
         /\ Is("disposing")' <=> Is("disposing")
<1>1. /\ Is("sweeping")' <=> Is("sweeping")
      /\ Is("disposing")' <=> Is("disposing")
  BY Elsewhere
<1>2. disposed' = disposed
  BY DEF server
<1>3. ASSUME NEW s \in Sessions
      PROVE  \/ status'[s] = status[s]
             \/ ~disposed /\ status[s] = "fresh" /\ status'[s] = "current"
  BY DEF Admits, Typed
<1>4. ASSUME NEW s \in Sessions PROVE Calm(s)
  BY <1>1, <1>2, <1>3 DEF Calm, RetireReason, Overtaken, AllReasons
<1> QED
  BY <1>1, <1>4

\* Everything a subscription has stays, and nothing is called or returns about it.
Same(d) ==
  /\ place'[d] = place[d] /\ lease'[d] = lease[d] /\ verdict'[d] = verdict[d]
  /\ window'[d] = window[d] /\ out'[d] = out[d]
  /\ d \in upstream' <=> d \in upstream
  /\ d \in requested' <=> d \in requested
  /\ d \in left' <=> d \in left
  /\ d \in lost' <=> d \in lost
  /\ Listens(d)' <=> Listens(d)
  /\ \A at : Has(at, d)' <=> Has(at, d)
  /\ EndDue(d)' <=> EndDue(d)
  /\ EndSent(d)' <=> EndSent(d)

\* The retirements go on, not back.
Onward(d) ==
  LET s == SessionOf(d) IN
  /\ RetireReason(s) # "none" => RetireReason(s)' = RetireReason(s)
  /\ Overtaken(s) => Overtaken(s)'
  /\ Is("sweeping") /\ status[s] # "dispose" => status'[s] # "dispose"
  /\ Is("sweeping") /\ place[d] = "pending" => Is("sweeping")'
  /\ s \in live /\ place[d] # "none" => s \in live'

LEMMA SameGood ==
  ASSUME NEW d \in Subs, Good(d), Same(d), Onward(d)
  PROVE  Good(d)'
<1>1. Birth(d)'
  BY DEF Same, Good, Birth, Untouched
<1>2. HasEnd(d)' <=> HasEnd(d)
  BY DEF HasEnd, Same
<1>3. Life(d)'
  BY <1>2 DEF Same, Good, Life
<1>4. Slot(d)'
  BY DEF Same, Good, Slot, Onward
<1>5. Told(d)'
  BY <1>2 DEF Same, Good, Told, Onward
<1> QED
  BY <1>1, <1>3, <1>4, <1>5 DEF Good

\* What is left to show of a step about one subscription.
LEMMA OneSub ==
  ASSUME Inv, NEW c \in Subs, Moves(c, stack'), Touches(c), Hears(c), Owns(c), Good(c)'
  PROVE  Inv'
<1> DEFINE sc == SessionOf(c)
<1>1. /\ Typed /\ Nested(stack) /\ Retirement /\ Heard /\ LiveOwns
      /\ \A d \in Subs : Good(d)
  BY DEF Inv
<1>2. sc \in Sessions
  BY SubParts
<1>3. PICK q \in Seq(Subs) :
        /\ listeners' = [listeners EXCEPT ![sc] = q]
        /\ Once(q) /\ \A d \in Subs : d # c => (d \in ToSet(q) <=> d \in ToSet(listeners[sc]))
        /\ c \in ToSet(q) /\ c \notin ToSet(listeners[sc]) => RetireReason(sc) = "none"
  BY DEF Hears
<1> HIDE DEF sc
<1>4. /\ listeners \in [Sessions -> Seq(Subs)]
      /\ \A f \in Frames : FrameOK(f)
  BY <1>1 DEF Typed
<1>5. /\ listeners' \in [Sessions -> Seq(Subs)] /\ listeners'[sc] = q
      /\ \A s \in Sessions : s # sc => listeners'[s] = listeners[s]
  BY <1>2, <1>3, <1>4
<1>6. Typed'
  <2>1. stack' \in Seq(FrameSet) /\ \A f \in Frames' : FrameOK(f)
    BY <1>4 DEF Moves, Onto, Frames
  <2>7. status' \in [Sessions -> {"fresh", "current", "closing"} \cup AllReasons]
    <3> DEFINE T == {"fresh", "current", "closing"} \cup AllReasons
    <3>1. status \in [Sessions -> T]
      BY <1>1 DEF Typed
    <3>2. status' = status \/ status' = [status EXCEPT ![sc] = "current"]
      BY DEF Touches, Admits, sc
    <3>3. "current" \in T
      OBVIOUS
    <3> HIDE DEF T
    <3>4. status' \in [Sessions -> T]
      BY <3>1, <3>2, <3>3
    <3> QED
      BY <3>4 DEF T
  <2>2. /\ hasAuthorize' \in AuthorizeOptions /\ disposed' \in BOOLEAN
        /\ watermark' \in [Sessions -> 0 .. NumIds]
        /\ requested' \subseteq Subs /\ left' \subseteq Subs /\ lost' \subseteq Subs
        /\ upstream' \subseteq Subs
    BY <1>1 DEF Typed, Touches, server
  <2>3. /\ place' \in [Subs -> Places] /\ lease' \in [Subs -> Leases]
        /\ verdict' \in [Subs -> Verdicts]
    BY <1>1 DEF Typed, Touches
  <2>4. window' \in [Subs -> WindowSet] /\ out' \in [Subs -> Seq(Messages)]
    BY <1>1 DEF Typed, Touches
  <2>5. live' \subseteq Sessions
    BY DEF Owns
  <2>6. \A f \in Frames' : FrameOK(f)'
    BY <2>1 DEF FrameOK
  <2> QED
    BY <1>5, <2>1, <2>2, <2>3, <2>4, <2>5, <2>6, <2>7 DEF Typed
<1>7. Nested(stack)'
  BY DEF Moves, Nested, Under, Due, ForDispose
<1>8. Heard'
  <2>1. \A d \in ToSet(q) : SessionOf(d) = sc
    <3>1. ToSet(q) \subseteq Subs
      BY Values
    <3> QED
      BY <1>1, <1>2, <1>3, <3>1 DEF Heard, sc
  <2> QED
    BY <1>1, <1>2, <1>3, <1>5, <2>1 DEF Heard
<1>9. ASSUME NEW d \in Subs, d # c
      PROVE  Same(d)
  <2>1. Listens(d)' <=> Listens(d)
    <3>1. SessionOf(d) \in Sessions
      BY SubParts
    <3>2. CASE SessionOf(d) = sc
      BY <1>3, <1>5, <1>9, <3>1, <3>2 DEF Listens
    <3>3. CASE SessionOf(d) # sc
      BY <1>5, <3>1, <3>3 DEF Listens
    <3> QED
      BY <3>2, <3>3
  <2>2. /\ \A at : Has(at, d)' <=> Has(at, d)
        /\ EndDue(d)' <=> EndDue(d)
        /\ EndSent(d)' <=> EndSent(d)
    BY <1>1, <1>9, Elsewhere
  <2>3. /\ place'[d] = place[d] /\ lease'[d] = lease[d] /\ verdict'[d] = verdict[d]
        /\ window'[d] = window[d] /\ out'[d] = out[d]
    BY <1>1, <1>9 DEF Typed, Touches
  <2>4. /\ d \in upstream' <=> d \in upstream
        /\ d \in requested' <=> d \in requested
        /\ d \in left' <=> d \in left
        /\ d \in lost' <=> d \in lost
    BY <1>9 DEF Touches
  <2> QED
    BY <2>1, <2>2, <2>3, <2>4 DEF Same
<1>10. /\ \A s \in Sessions : Calm(s)
       /\ Is("sweeping")' <=> Is("sweeping")
       /\ Is("disposing")' <=> Is("disposing")
       /\ disposed' = disposed
  BY <1>1, CalmSteps DEF Touches, server
<1>11. ASSUME NEW d \in Subs, d # c
       PROVE  Good(d)'
  <2>1. Same(d) /\ Good(d)
    BY <1>1, <1>9, <1>11
  <2>2. SessionOf(d) \in Sessions
    BY SubParts
  <2>3. Onward(d)
    BY <1>10, <2>1, <2>2 DEF Onward, Calm, Owns, Same
  <2> QED
    BY <2>1, <2>3, SameGood
<1>12. Retirement'
  <2>1. /\ \A f : f.at \notin SubPoints => (f \in Frames' <=> f \in Frames)
        /\ \A s : Dispatching(s)' <=> Dispatching(s)
    BY <1>1, Elsewhere
  <2>6. /\ \A s \in Sessions : status[s] \in {"closing"} \cup AllReasons => status'[s] = status[s]
        /\ disposed => status' = status
    BY <1>1 DEF Touches, Admits, AllReasons, Typed
  <2>7. ASSUME NEW f \in Frames, f.at \in {"retiring", "dispatching"}
        PROVE  SessionOf(f.sub) \in Sessions /\ f.arg \in AllReasons
    BY <1>4, <2>7 DEF FrameOK, SessionOf
  <2>2. /\ \A f \in Frames' : f.at \in Whole => disposed'
        /\ \A f \in Frames' : ForDispose(f) => Is("disposing")'
        /\ disposed' => Is("disposing")' \/ \A s \in Sessions : status'[s] # "current"
    BY <1>1, <1>10, <2>1, <2>6, PointsAre DEF Retirement, ForDispose, Whole
  <2>8. /\ \A f \in Frames' : f.at = "retiring" => status'[SessionOf(f.sub)] = "closing"
        /\ \A f \in Frames' : f.at = "dispatching" => status'[SessionOf(f.sub)] = f.arg
    BY <1>1, <2>1, <2>6, <2>7, PointsAre DEF Retirement
  <2>3. \A f \in Frames' : f.at \in {"notify", "noticed"} /\ f.arg = "retired" =>
          RetireReason(SessionOf(f.sub)) # "none"
    BY <1>1 DEF Moves, Onto, About, Retirement, Frames
  <2>4. \A s \in Sessions : RetireReason(s) # "none" /\ listeners'[s] # <<>> => Dispatching(s)
    <3>1. ASSUME listeners'[sc] # <<>>, RetireReason(sc) # "none"
          PROVE  listeners[sc] # <<>>
      <4>1. q # <<>>
        BY <1>5, <3>1
      <4>2. PICK d \in Subs : d \in ToSet(q)
        BY <4>1, Values
      <4>3. d \in ToSet(listeners[sc])
        BY <1>3, <3>1, <4>2
      <4> QED
        BY <4>3, ValuesEmpty
    <3> QED
      BY <1>1, <1>2, <1>5, <3>1 DEF Retirement
  <2>5. /\ \A f \in Frames' : f.at \in {"notify", "noticed"} /\ f.arg = "retired" =>
             RetireReason(SessionOf(f.sub))' # "none"
        /\ \A s \in Sessions : RetireReason(s)' # "none" /\ listeners'[s] # <<>> =>
             Dispatching(s)'
    <3>1. \A s \in Sessions : RetireReason(s)' = RetireReason(s)
      BY <1>10 DEF Calm
    <3>5. \A f \in Frames' : f.at \in {"notify", "noticed"} => SessionOf(f.sub) \in Sessions
      BY <1>6, SubParts, PointsAre DEF Typed, FrameOK, SubPoints, Speaking
    <3>2. \A s \in Sessions : Dispatching(s)' <=> Dispatching(s)
      BY <2>1
    <3>3. \A s \in Sessions : RetireReason(s)' # "none" /\ listeners'[s] # <<>> =>
            Dispatching(s)'
      BY <2>4, <3>1, <3>2
    <3>4. ASSUME NEW f \in Frames', f.at \in {"notify", "noticed"}, f.arg = "retired"
          PROVE  RetireReason(SessionOf(f.sub))' # "none"
      BY <2>3, <3>1, <3>4, <3>5
    <3> QED
      BY <3>3, <3>4
  <2> QED
    BY <2>2, <2>5, <2>8 DEF Retirement, ForDispose
<1>13. LiveOwns'
  <2>1. ASSUME ~disposed, NEW s \in live'
        PROVE  OpenIn(s)' # {}
    <3>1. CASE s = sc
      BY <2>1, <3>1 DEF Owns, OpenIn, sc
    <3>2. CASE s # sc
      <4>1. s \in live
        BY <2>1, <3>2 DEF Owns, sc
      <4>2. PICK d \in Subs : SessionOf(d) = s /\ place[d] # "none"
        BY <1>1, <2>1, <4>1 DEF LiveOwns, OpenIn
      <4>3. d # c
        BY <3>2, <4>2 DEF sc
      <4>4. place'[d] = place[d]
        BY <1>9, <4>3 DEF Same
      <4> QED
        BY <4>2, <4>4 DEF OpenIn
    <3> QED
      BY <3>1, <3>2
  <2> QED
    BY <1>10, <2>1 DEF LiveOwns
<1> QED
  BY <1>6, <1>7, <1>8, <1>11, <1>12, <1>13 DEF Inv

-----------------------------------------------------------------------------
(* What stays and what the operations do *)

LEMMA Still ==
  ASSUME Typed, NEW c \in Subs
  PROVE  /\ place' = place => \E x \in Places : place' = [place EXCEPT ![c] = x]
         /\ lease' = lease => \E x \in Leases : lease' = [lease EXCEPT ![c] = x]
         /\ verdict' = verdict => \E x \in Verdicts : verdict' = [verdict EXCEPT ![c] = x]
         /\ window' = window => \E x \in WindowSet : window' = [window EXCEPT ![c] = x]
         /\ out' = out => \E x \in Seq(Messages) : out' = [out EXCEPT ![c] = x]
         /\ upstream' \in {upstream, upstream \cup {c}, upstream \ {c}} =>
              upstream' \subseteq Subs
              /\ \A d \in Subs : d # c => (d \in upstream' <=> d \in upstream)
         /\ watermark' = watermark => watermark' \in [Sessions -> 0 .. NumIds]
<1>1. /\ place \in [Subs -> Places] /\ lease \in [Subs -> Leases]
      /\ verdict \in [Subs -> Verdicts] /\ window \in [Subs -> WindowSet]
      /\ out \in [Subs -> Seq(Messages)] /\ upstream \subseteq Subs
      /\ watermark \in [Sessions -> 0 .. NumIds]
  BY DEF Typed
<1>2. /\ place[c] \in Places /\ lease[c] \in Leases /\ verdict[c] \in Verdicts
      /\ window[c] \in WindowSet /\ out[c] \in Seq(Messages)
  BY <1>1
<1>3. /\ place = [place EXCEPT ![c] = place[c]] /\ lease = [lease EXCEPT ![c] = lease[c]]
      /\ verdict = [verdict EXCEPT ![c] = verdict[c]]
  BY <1>1
<1>4. window = [window EXCEPT ![c] = window[c]] /\ out = [out EXCEPT ![c] = out[c]]
  BY <1>1
<1> QED
  BY <1>1, <1>2, <1>3, <1>4

\* A step that leaves the registry alone.
LEMMA RegistryStill ==
  ASSUME Inv, NEW c \in Subs
  PROVE  /\ listeners' = listeners => Hears(c)
         /\ live' = live /\ place' = place => Owns(c)
<1>1. SessionOf(c) \in Sessions
  BY SubParts
<1>2. /\ listeners \in [Sessions -> Seq(Subs)] /\ live \subseteq Sessions
      /\ Heard /\ LiveOwns /\ \A d \in Subs : Slot(d)
  BY DEF Inv, Typed, Good
<1>3. ASSUME listeners' = listeners PROVE Hears(c)
  <2>1. listeners' = [listeners EXCEPT ![SessionOf(c)] = listeners[SessionOf(c)]]
        /\ listeners[SessionOf(c)] \in Seq(Subs)
    BY <1>1, <1>2, <1>3
  <2>2. Once(listeners[SessionOf(c)])
    BY <1>1, <1>2 DEF Heard
  <2> QED
    BY <2>1, <2>2 DEF Hears
<1>4. ASSUME live' = live, place' = place PROVE Owns(c)
  <2>1. \A d \in Subs : SessionOf(d) = SessionOf(c) /\ place'[d] # "none" => SessionOf(d) \in live'
    BY <1>2, <1>4 DEF Slot
  <2>2. ~disposed /\ SessionOf(c) \in live' =>
          \E d \in Subs : SessionOf(d) = SessionOf(c) /\ place'[d] # "none"
    BY <1>2, <1>4 DEF LiveOwns, OpenIn
  <2> QED
    BY <1>2, <1>4, <2>1, <2>2 DEF Owns
<1> QED
  BY <1>3, <1>4

\* A step that only says something, or is told something, about c.
Talks(c) ==
  /\ UNCHANGED <<status, server, watermark, registry, history>>
  /\ \E x \in Verdicts : verdict' = [verdict EXCEPT ![c] = x]
  /\ \E x \in WindowSet : window' = [window EXCEPT ![c] = x]
  /\ \E x \in Seq(Messages) : out' = [out EXCEPT ![c] = x]
  /\ upstream' \in {upstream, upstream \cup {c}, upstream \ {c}}
  /\ lost' \in {lost, lost \cup {c}}

LEMMA OneTalks ==
  ASSUME Inv, NEW c \in Subs, Moves(c, stack'), Talks(c), Good(c)'
  PROVE  Inv'
<1>1. Typed
  BY DEF Inv
<1>2. Touches(c)
  BY <1>1, Still DEF Talks, Touches, registry, history
<1>3. Hears(c) /\ Owns(c)
  BY RegistryStill DEF Talks, registry
<1> QED
  BY <1>2, <1>3, OneSub

\* What is in progress about c when its innermost call is on top.
LEMMA TopAbout ==
  ASSUME Typed, Nested(stack), stack # <<>>, NEW c \in Subs, Top.sub = c
  PROVE  /\ Top.at \in SubPoints /\ Top.arg \in Args /\ Moves(c, Rest)
         /\ \A at : Has(at, c) <=> HasIn(Below, at, c) \/ Top.at = at
         /\ EndDue(c) <=> DueIn(Below, c) \/ Due(Top)
         /\ EndSent(c) <=> SentIn(Below, c) \/ Ending(Top)
         /\ Top.at \in Speaking \cup {"greeted", "connecting"} =>
              /\ \A at : HasIn(Below, at, c) => at \in Quiet
              /\ ~DueIn(Below, c) /\ ~SentIn(Below, c)
         /\ Due(Top) => ~DueIn(Below, c)
<1>1. /\ Top \in FrameSet /\ FrameOK(Top) /\ Frames = Below \cup {Top}
      /\ \A f \in Below : Under(f, Top)
  BY TopPopped
<1>2. c \notin Sessions \X {0} /\ c # <<0, 0>>
  BY SubParts
<1>3. Top.at \in SubPoints /\ Top.arg \in Args
  BY <1>1, <1>2, PointsAre DEF FrameSet, FrameOK
<1>4. Moves(c, Rest)
  BY <1>3, StackPops DEF About
<1>5. /\ \A at : Has(at, c) <=> HasIn(Below, at, c) \/ Top.at = at
      /\ EndDue(c) <=> DueIn(Below, c) \/ Due(Top)
      /\ EndSent(c) <=> SentIn(Below, c) \/ Ending(Top)
  BY <1>1 DEF Has, HasIn, EndDue, DueIn, EndSent, SentIn
<1>6. ASSUME Top.at \in Speaking \cup {"greeted", "connecting"}
      PROVE  \A f \in Below : f.sub = c => f.at \in Quiet
  BY <1>1, <1>6 DEF Under
<1>7. ASSUME Top.at \in Speaking \cup {"greeted", "connecting"}
      PROVE  /\ \A at : HasIn(Below, at, c) => at \in Quiet
             /\ ~DueIn(Below, c) /\ ~SentIn(Below, c)
  BY <1>6, <1>7 DEF HasIn, DueIn, SentIn, Due, Ending, Quiet
<1>8. Due(Top) => ~DueIn(Below, c)
  BY <1>1 DEF DueIn, Under
<1> QED
  BY <1>3, <1>4, <1>5, <1>7, <1>8

\* What is in progress about c after the step: the calls B.
Leaves(c, B) ==
  /\ Moves(c, stack')
  /\ \A at : Has(at, c)' <=> HasIn(B, at, c)
  /\ EndDue(c)' <=> DueIn(B, c)
  /\ EndSent(c)' <=> SentIn(B, c)

\* And one more call `at' with `arg'.
Makes(c, B, at, arg) ==
  /\ Moves(c, stack')
  /\ \A p : Has(p, c)' <=> HasIn(B, p, c) \/ p = at
  /\ EndDue(c)' <=> DueIn(B, c) \/ (at = "detached" /\ arg \in Terminals)
  /\ EndSent(c)' <=> SentIn(B, c) \/ (at = "sent" /\ arg \in Terminals)

LEMMA StackLeft ==
  ASSUME NEW c, NEW q, Moves(c, q), stack' = q
  PROVE  Leaves(c, ToSet(q))
BY DEF Leaves, Has, EndDue, EndSent, Frames

\* Points that may be reached from any other about c.
Plain == Quiet \cup {"failed", "failing", "sent", "parsing", "closing", "aborting"}

LEMMA StackMade ==
  ASSUME NEW c \in Subs, NEW q, Moves(c, q), NEW at \in SubPoints, NEW arg \in Args,
         at \in {"rejecting", "notify", "noticed"} => arg \in Causes,
         at \in {"notify", "noticed"} /\ arg = "retired" =>
           RetireReason(SessionOf(c)) # "none",
         \A f \in ToSet(q) : Under(f, Frame(at, c, arg)),
         stack' = Append(q, Frame(at, c, arg))
  PROVE  Makes(c, ToSet(q), at, arg)
<1> DEFINE g == Frame(at, c, arg)
<1>1. g \in FrameSet /\ FrameOK(g) /\ g.at = at /\ g.sub = c /\ g.arg = arg
  BY SubFrame
<1> HIDE DEF g
<1>2. stack' = Append(q, g) /\ \A f \in ToSet(q) : Under(f, g)
  BY DEF g
<1>3. Onto(c, g)
  BY <1>1 DEF Onto, About
<1>4. Moves(c, stack') /\ Frames' = ToSet(q) \cup {g}
  BY <1>2, <1>3, StackGrows DEF Frames
<1>5. /\ \A p : Has(p, c)' <=> HasIn(ToSet(q), p, c) \/ (g.at = p /\ g.sub = c)
      /\ EndDue(c)' <=> DueIn(ToSet(q), c) \/ (Due(g) /\ g.sub = c)
      /\ EndSent(c)' <=> SentIn(ToSet(q), c) \/ (Ending(g) /\ g.sub = c)
  BY <1>4, OneMore DEF Has, EndDue, EndSent
<1> QED
  BY <1>1, <1>4, <1>5 DEF Makes, Due, Ending

LEMMA PlainMade ==
  ASSUME NEW c \in Subs, NEW q, Moves(c, q), NEW at \in Plain, NEW arg \in Args,
         stack' = Append(q, Frame(at, c, arg))
  PROVE  Makes(c, ToSet(q), at, arg)
<1>1. /\ at \in SubPoints /\ at \notin {"rejecting", "notify", "noticed", "detached"}
      /\ at \notin Speaking /\ at \notin {"greeted", "connecting", "retiring"}
      /\ at \notin Whole
  BY DEF Plain, SubPoints, Quiet, Speaking, Active, Whole
<1>2. \A f : Under(f, Frame(at, c, arg))
  BY <1>1 DEF Under, Frame, Due
<1> QED
  BY <1>1, <1>2, StackMade

\* What is said of a subscription that has not been started, and up to its connection.
Firsts == Speaking \cup {"greeted", "connecting"}

LEMMA FirstMade ==
  ASSUME NEW c \in Subs, NEW q, Moves(c, q), NEW at \in Firsts, NEW arg \in Args,
         at \in {"rejecting", "notify", "noticed"} => arg \in Causes,
         at \in {"notify", "noticed"} /\ arg = "retired" =>
           RetireReason(SessionOf(c)) # "none",
         \A p : HasIn(ToSet(q), p, c) => p \in Quiet,
         at = "greeted" => \A f \in ToSet(q) : f.at = "dispatching" =>
           SessionOf(f.sub) # SessionOf(c),
         stack' = Append(q, Frame(at, c, arg))
  PROVE  Makes(c, ToSet(q), at, arg)
<1>1. at \in SubPoints /\ at \notin Whole /\ at \notin {"retiring", "detached"}
  BY DEF Firsts, SubPoints, Speaking, Active, Whole
<1>2. \A f \in ToSet(q) : f.sub = c => f.at \in Quiet
  BY DEF HasIn
<1>3. \A f \in ToSet(q) : Under(f, Frame(at, c, arg))
  BY <1>1, <1>2 DEF Under, Frame, Due
<1> QED
  BY <1>1, <1>3, StackMade

LEMMA WindowMade ==
  ASSUME NEW w \in WindowSet
  PROVE  /\ [w EXCEPT !.closed = TRUE] \in WindowSet
         /\ [w EXCEPT !.opened = TRUE] \in WindowSet
         /\ [w EXCEPT !.inFlight = TRUE] \in WindowSet
         /\ [w EXCEPT !.inFlight = FALSE] \in WindowSet
         /\ [w EXCEPT !.queued = TRUE] \in WindowSet
         /\ [w EXCEPT !.queued = FALSE] \in WindowSet
         /\ [w EXCEPT !.inFlight = FALSE, !.concluded = TRUE] \in WindowSet
         /\ Preempted(w) \in WindowSet
         /\ NewWindow \in WindowSet
BY DEF WindowSet, Preempted, NewWindow

LEMMA NewWindowIs ==
  /\ ~NewWindow.closed /\ ~NewWindow.opened /\ ~NewWindow.concluded
  /\ ~NewWindow.inFlight /\ NewWindow.terminal = "none"
BY DEF NewWindow

LEMMA CloseDoes ==
  ASSUME Typed, NEW c \in Subs, NEW w \in WindowSet, NEW below, Moves(c, below),
         Close(c, w, below)
  PROVE  /\ window' = [window EXCEPT ![c] = [w EXCEPT !.closed = TRUE]]
         /\ window'[c] = [w EXCEPT !.closed = TRUE] /\ window'[c] \in WindowSet
         /\ \E x \in WindowSet : window' = [window EXCEPT ![c] = x]
         /\ \/ w.closed /\ Leaves(c, ToSet(below))
            \/ ~w.closed /\ Makes(c, ToSet(below), "closing", "")
<1>1. window' = [window EXCEPT ![c] = [w EXCEPT !.closed = TRUE]]
      /\ [w EXCEPT !.closed = TRUE] \in WindowSet
  BY WindowMade DEF Close
<1>2. window'[c] = [w EXCEPT !.closed = TRUE]
  BY <1>1 DEF Typed
<1>3. ASSUME w.closed PROVE Leaves(c, ToSet(below))
  BY <1>3, StackLeft DEF Close
<1>4. ASSUME ~w.closed PROVE Makes(c, ToSet(below), "closing", "")
  <2>1. stack' = Append(below, Frame("closing", c, ""))
    BY <1>4 DEF Close
  <2>2. "closing" \in Plain /\ "" \in Args
    BY DEF Plain, Args
  <2> QED
    BY <2>1, <2>2, PlainMade
<1> QED
  BY <1>1, <1>2, <1>3, <1>4

\* A message is sent, or the send throws and closes the subscription.
LEMMA SendDoes ==
  ASSUME Typed, NEW c \in Subs, NEW w \in WindowSet, NEW message \in Messages,
         NEW below, Moves(c, below), Send(c, message, w, below)
  PROVE  /\ \E x \in WindowSet : window' = [window EXCEPT ![c] = x]
         /\ \E x \in Seq(Messages) : out' = [out EXCEPT ![c] = x]
         /\ lost' \in {lost, lost \cup {c}}
         /\ \/ /\ out'[c] = Append(out[c], message) /\ window'[c] = w
               /\ Makes(c, ToSet(below), "sent", message)
               /\ lost' = lost
            \/ /\ c \in lost' /\ out' = out
               /\ window'[c] = [w EXCEPT !.closed = TRUE]
               /\ \/ w.closed /\ Leaves(c, ToSet(below))
                  \/ ~w.closed /\ Makes(c, ToSet(below), "closing", "")
<1>1. out[c] \in Seq(Messages) /\ Append(out[c], message) \in Seq(Messages)
  BY Appended DEF Typed
<1>2. CASE /\ out' = [out EXCEPT ![c] = Append(@, message)]
           /\ window' = [window EXCEPT ![c] = w]
           /\ stack' = Append(below, Frame("sent", c, message))
           /\ UNCHANGED lost
  <2>1. Makes(c, ToSet(below), "sent", message)
    BY <1>2, PlainMade DEF Plain, Args
  <2>2. out'[c] = Append(out[c], message) /\ window'[c] = w
    BY <1>2 DEF Typed
  <2> QED
    BY <1>1, <1>2, <2>1, <2>2
<1>3. CASE /\ lost' = lost \cup {c}
           /\ Close(c, w, below)
           /\ UNCHANGED out
  <2>1. \E x \in Seq(Messages) : out' = [out EXCEPT ![c] = x]
    BY <1>3, Still
  <2> QED
    BY <1>3, <2>1, CloseDoes
<1> QED
  BY <1>2, <1>3 DEF Send

-----------------------------------------------------------------------------
(* Parts of the invariant *)

LEMMA TopSub ==
  ASSUME Inv, NEW at \in SubPoints, At(at)
  PROVE  stack # <<>> /\ Top.at = at /\ \E c \in Subs : Top.sub = c
<1>1. stack # <<>> /\ Top.at = at
  BY DEF At
<1>2. FrameOK(Top)
  BY <1>1, TopPopped DEF Inv
<1> QED
  BY <1>1, <1>2 DEF FrameOK

LEMMA InvParts ==
  ASSUME Inv, NEW c \in Subs
  PROVE  /\ Typed /\ Nested(stack) /\ Retirement /\ Heard /\ LiveOwns
         /\ Good(c) /\ Birth(c) /\ Life(c) /\ Slot(c) /\ Told(c)
         /\ SessionOf(c) \in Sessions
         /\ place[c] \in Places /\ lease[c] \in Leases /\ verdict[c] \in Verdicts
         /\ window[c] \in WindowSet /\ out[c] \in Seq(Messages)
BY SubParts DEF Inv, Good, Typed

-----------------------------------------------------------------------------
(* The routines *)

\* One more message, after which the Renderer still hears what it may hear.
LEMMA Said ==
  ASSUME NEW q \in Seq(Messages), Protocol(q), ~Ended(q), NEW m \in Messages,
         m = "subscribed" <=> q = <<>>
  PROVE  /\ Append(q, m) # <<>> /\ Protocol(Append(q, m))
         /\ Ended(Append(q, m)) <=> m \in Terminals
         /\ q = <<>> => Append(q, m) = <<m>>
<1> DEFINE r == Append(q, m)
           n == Len(q)
<1>1. /\ n \in Nat /\ Len(r) = n + 1 /\ (\A i \in 1 .. n : r[i] = q[i]) /\ r[n + 1] = m
      /\ r \in Seq(Messages)
  BY Appended
<1>2. q = <<>> <=> n = 0
  OBVIOUS
<1>3. \A i \in 1 .. n : q[i] \notin Terminals
  BY <1>1, <1>2 DEF Protocol, Ended
<1>4. q = <<>> => r = <<m>>
  OBVIOUS
<1> HIDE DEF r, n
<1>5. r # <<>> /\ (Ended(r) <=> m \in Terminals)
  BY <1>1 DEF Ended
<1>6. Protocol(r)
  <2> SUFFICES ASSUME NEW i \in 1 .. n + 1
               PROVE  /\ r[i] = "subscribed" <=> i = 1
                      /\ r[i] \in Terminals => i = n + 1
    BY <1>1 DEF Protocol
  <2>1. CASE i \in 1 .. n
    BY <1>1, <1>3, <2>1 DEF Protocol, n
  <2>2. CASE i = n + 1
    BY <1>1, <1>2, <2>2
  <2> QED
    BY <1>1, <2>1, <2>2
<1> QED
  BY <1>4, <1>5, <1>6 DEF r

LEMMA NothingSaid == Protocol(<<>>) /\ ~Ended(<<>>) /\ ~Ended(<<"subscribed">>)
BY DEF Protocol, Ended, Terminals

\* The call that goes on is about subscription c; what else is in progress about it.
Goes(c, at) ==
  /\ Top.sub = c /\ stack # <<>> /\ Top.at = at /\ Top.arg \in Args
  /\ Moves(c, Rest)
  /\ \A p : Has(p, c) <=> HasIn(Below, p, c) \/ p = at
  /\ EndDue(c) <=> DueIn(Below, c) \/ (at = "detached" /\ Top.arg \in Terminals)
  /\ EndSent(c) <=> SentIn(Below, c) \/ (at = "sent" /\ Top.arg \in Terminals)
  /\ at \in Firsts =>
       /\ \A p : HasIn(Below, p, c) => p \in Quiet
       /\ ~DueIn(Below, c) /\ ~SentIn(Below, c)
  /\ at = "detached" /\ Top.arg \in Terminals => ~DueIn(Below, c)

LEMMA TopIs ==
  ASSUME Inv, NEW at \in SubPoints, At(at)
  PROVE  \E c \in Subs : Goes(c, at)
<1>1. stack # <<>> /\ Top.at = at /\ \E c \in Subs : Top.sub = c
  BY TopSub
<1>2. PICK c \in Subs : Top.sub = c
  BY <1>1
<1>3. Typed /\ Nested(stack)
  BY DEF Inv
<1> QED
  BY <1>1, <1>2, <1>3, TopAbout DEF Due, Ending, Firsts, Goes

\* Nothing is in progress between two events.
LEMMA NothingUp ==
  ASSUME Inv, stack = <<>>
  PROVE  /\ Frames = {} /\ ToSet(stack) = {}
         /\ \A at, c : ~Has(at, c)
         /\ \A c : ~EndDue(c) /\ ~EndSent(c)
         /\ \A at : ~Is(at)
         /\ \A s : ~Dispatching(s)
         /\ \A s \in Sessions : RetireReason(s) # "none" => listeners[s] = <<>>
<1>1. Frames = {}
  BY ValuesEmpty DEF Frames
<1>2. \A s : ~Dispatching(s)
  BY <1>1 DEF Dispatching
<1>3. Retirement
  BY DEF Inv
<1>4. \A s \in Sessions : RetireReason(s) # "none" => listeners[s] = <<>>
  BY <1>2, <1>3 DEF Retirement
<1>5. /\ \A at, c : ~Has(at, c)
      /\ \A c : ~EndDue(c) /\ ~EndSent(c)
      /\ \A at : ~Is(at)
  BY <1>1 DEF Has, HasIn, EndDue, DueIn, EndSent, SentIn, Is
<1> QED
  BY <1>1, <1>2, <1>4, <1>5 DEF Frames

\* What a call of these routines may find in progress about c, in the calls B.
LEMMA WhatIsIn ==
  ASSUME NEW c, NEW B
  PROVE  /\ DueIn(B, c) => HasIn(B, "detached", c)
         /\ SentIn(B, c) => HasIn(B, "sent", c)
BY DEF HasIn, DueIn, SentIn, Due, Ending

LEMMA NoticeIs ==
  ASSUME NEW c, NEW cause
  PROVE  /\ Notice(c, cause) \in {"none", "rejected", "cancelled"}
         /\ cause \in {"rejected", "retired"} => 
              \/ Notice(c, cause) # "none"
              \/ RetireReason(SessionOf(c)) \in {"replaced", "navigation"}
              \/ cause = "retired" /\ RetireReason(SessionOf(c)) = "none"
         /\ cause = "admission" => Notice(c, cause) # "none"
         /\ cause = "retired" /\ Notice(c, cause) # "none" =>
              RetireReason(SessionOf(c)) # "none"
         /\ cause = "rejected" /\ RetireReason(SessionOf(c)) = "none" =>
              Notice(c, cause) # "none"
BY DEF Notice, RetireReason, AllReasons

LEMMA EndUnstartedDoes ==
  ASSUME Typed, NEW c \in Subs, NEW cause \in Causes, NEW below, Moves(c, below),
         \A p : HasIn(ToSet(below), p, c) => p \in Quiet,
         EndUnstarted(c, cause, below)
  PROVE  /\ window' = window
         /\ \E x \in Seq(Messages) : out' = [out EXCEPT ![c] = x]
         /\ lost' \in {lost, lost \cup {c}}
         /\ \/ /\ Notice(c, cause) = "none" /\ out' = out
               /\ Leaves(c, ToSet(below))
            \/ /\ Notice(c, cause) # "none" /\ out'[c] = Append(out[c], "subscribed")
               /\ Makes(c, ToSet(below), "noticed", cause)
            \/ /\ c \in lost' /\ out' = out
               /\ Leaves(c, ToSet(below))
<1>1. window' = window
  BY DEF EndUnstarted
<1>2. out[c] \in Seq(Messages) /\ "subscribed" \in Messages
      /\ Append(out[c], "subscribed") \in Seq(Messages)
  BY Appended DEF Typed, Messages
<1>3. out' = out => \E x \in Seq(Messages) : out' = [out EXCEPT ![c] = x]
  BY Still
<1>4. CASE /\ Notice(c, cause) = "none"
           /\ stack' = below
           /\ UNCHANGED <<out, lost>>
  BY <1>1, <1>3, <1>4, StackLeft
<1>5. CASE /\ Notice(c, cause) # "none"
           /\ out' = [out EXCEPT ![c] = Append(@, "subscribed")]
           /\ stack' = Append(below, Frame("noticed", c, cause))
           /\ UNCHANGED lost
  <2>1. Makes(c, ToSet(below), "noticed", cause)
    <3>1. cause = "retired" => RetireReason(SessionOf(c)) # "none"
      BY <1>5, NoticeIs
    <3>2. "noticed" \in Firsts /\ cause \in Args
      BY DEF Firsts, Speaking, Args
    <3> QED
      BY <1>5, <3>1, <3>2, FirstMade
  <2>2. out'[c] = Append(out[c], "subscribed")
    BY <1>5 DEF Typed
  <2> QED
    BY <1>1, <1>2, <1>5, <2>1, <2>2
<1>6. CASE /\ Notice(c, cause) # "none"
           /\ lost' = lost \cup {c}
           /\ stack' = below
           /\ UNCHANGED out
  BY <1>1, <1>3, <1>6, StackLeft
<1> QED
  BY <1>4, <1>5, <1>6 DEF EndUnstarted

\* The window that recorded a terminal.
Recorded(w, terminal) == [w EXCEPT !.terminal = terminal, !.concluded = ~w.inFlight]

LEMMA DetachedMade ==
  ASSUME NEW c \in Subs, NEW q, Moves(c, q), NEW arg \in Args, ~DueIn(ToSet(q), c),
         stack' = Append(q, Frame("detached", c, arg))
  PROVE  Makes(c, ToSet(q), "detached", arg)
<1>1. "detached" \in SubPoints /\ "detached" \notin Speaking /\ "detached" \notin Whole
  BY DEF SubPoints, Active, Speaking, Whole
<1>2. \A f \in ToSet(q) : Due(f) => f.sub # c
  BY DEF DueIn
<1>3. \A f \in ToSet(q) : Under(f, Frame("detached", c, arg))
  BY <1>1, <1>2 DEF Under, Frame
<1> QED
  BY <1>1, <1>3, StackMade

LEMMA TerminateDoes ==
  ASSUME Typed, NEW c \in Subs, NEW terminal \in {"complete", "error"}, NEW below,
         Moves(c, below), DueIn(ToSet(below), c) => window[c].concluded,
         Terminate(c, terminal, below)
  PROVE  /\ upstream' \in {upstream, upstream \cup {c}, upstream \ {c}}
         /\ \E x \in WindowSet : window' = [window EXCEPT ![c] = x]
         /\ \E x \in Seq(Messages) : out' = [out EXCEPT ![c] = x]
         /\ lost' \in {lost, lost \cup {c}}
         /\ LET w == Recorded(window[c], terminal) IN
            \/ /\ ~Accepting(window[c]) /\ upstream' = upstream
               /\ window' = window /\ out' = out /\ lost' = lost
               /\ Leaves(c, ToSet(below))
            \/ /\ Accepting(window[c]) /\ c \notin upstream'
               /\ window'[c] = w /\ out' = out /\ lost' = lost
               /\ \/ ~w.concluded /\ Leaves(c, ToSet(below))
                  \/ Makes(c, ToSet(below), "detached", IF w.concluded THEN terminal ELSE "none")
            \/ /\ Accepting(window[c]) /\ c \notin upstream' /\ w.concluded
               /\ out'[c] = Append(out[c], terminal) /\ window'[c] = w
               /\ Makes(c, ToSet(below), "sent", terminal) /\ lost' = lost
            \/ /\ Accepting(window[c]) /\ c \notin upstream' /\ w.concluded
               /\ c \in lost' /\ out' = out
               /\ window'[c] = [w EXCEPT !.closed = TRUE]
               /\ Makes(c, ToSet(below), "closing", "")
<1> DEFINE w == Recorded(window[c], terminal)
<1>1. window[c] \in WindowSet /\ window \in [Subs -> WindowSet]
  BY DEF Typed
<1>2. w \in WindowSet /\ w.closed = window[c].closed
  BY <1>1 DEF Recorded, WindowSet
<1>3. upstream' = IF Accepting(window[c]) THEN upstream \ {c} ELSE upstream
  BY DEF Terminate
<1>4. /\ out' = out => \E x \in Seq(Messages) : out' = [out EXCEPT ![c] = x]
      /\ window' = window => \E x \in WindowSet : window' = [window EXCEPT ![c] = x]
  BY Still
<1>5. CASE ~Accepting(window[c]) /\ stack' = below /\ UNCHANGED <<window, out, lost>>
  BY <1>3, <1>4, <1>5, StackLeft
<1> HIDE DEF w
<1>6. CASE /\ Accepting(window[c])
           /\ c \in upstream \/ ~w.concluded
           /\ window' = [window EXCEPT ![c] = w]
           /\ stack' = IF c \notin upstream THEN below
                       ELSE Append(below, Frame("detached", c,
                                     IF w.concluded THEN terminal ELSE "none"))
           /\ UNCHANGED <<out, lost>>
  <2>1. window'[c] = w /\ \E x \in WindowSet : window' = [window EXCEPT ![c] = x]
    BY <1>1, <1>2, <1>6
  <2>2. c \notin upstream => ~w.concluded /\ Leaves(c, ToSet(below))
    BY <1>6, StackLeft
  <2>3. ASSUME c \in upstream
        PROVE  Makes(c, ToSet(below), "detached", IF w.concluded THEN terminal ELSE "none")
    <3>1. (IF w.concluded THEN terminal ELSE "none") \in Args
      BY DEF Args, Messages, Terminals
    <3>2. ~DueIn(ToSet(below), c)
      BY <1>6 DEF Accepting
    <3> QED
      BY <1>6, <2>3, <3>1, <3>2, DetachedMade
  <2> QED
    BY <1>3, <1>4, <1>6, <2>1, <2>2, <2>3 DEF w
<1>7. CASE /\ Accepting(window[c])
           /\ c \notin upstream /\ w.concluded
           /\ Send(c, terminal, w, below)
  <2>1. terminal \in Messages
    BY DEF Messages, Terminals
  <2>2. ~w.closed
    BY <1>2, <1>7 DEF Accepting
  <2> QED
    BY <1>2, <1>3, <1>7, <2>1, <2>2, SendDoes DEF w
<1> QED
  BY <1>5, <1>6, <1>7 DEF Terminate, w, Recorded

\* The retire listener is removed.
LEMMA UnheardDoes ==
  ASSUME Inv, NEW c \in Subs, listeners' = Unheard(c)
  PROVE  ~Listens(c)' /\ Hears(c)
<1>1. listeners \in [Sessions -> Seq(Subs)] /\ Heard
  BY DEF Inv, Typed
<1>2. SessionOf(c) \in Sessions
  BY SubParts
<1> DEFINE q == Removed(listeners[SessionOf(c)], c)
<1>3. listeners[SessionOf(c)] \in Seq(Subs) /\ Once(listeners[SessionOf(c)])
  BY <1>1, <1>2 DEF Heard
<1>4. q \in Seq(Subs) /\ Once(q) /\ ToSet(q) = ToSet(listeners[SessionOf(c)]) \ {c}
  BY <1>3, UnheardParts
<1>5. listeners' = [listeners EXCEPT ![SessionOf(c)] = q]
  BY DEF Unheard
<1> HIDE DEF q
<1>6. listeners'[SessionOf(c)] = q
  BY <1>1, <1>2, <1>5
<1> QED
  BY <1>4, <1>5, <1>6 DEF Listens, Hears

\* The entry, the slot and the retire listener are given up together.
LEMMA ForgetDoes ==
  ASSUME Inv, NEW c \in Subs, Forget(c), UNCHANGED disposed
  PROVE  /\ \E x \in Places : place' = [place EXCEPT ![c] = x]
         /\ \E x \in Leases : lease' = [lease EXCEPT ![c] = x]
         /\ place'[c] = "none" /\ lease'[c] # "held"
         /\ lease'[c] = "none" <=> lease[c] = "none"
         /\ ~Listens(c)' /\ Hears(c) /\ Owns(c)
<1>1. /\ place \in [Subs -> Places] /\ lease \in [Subs -> Leases] /\ live \subseteq Sessions
      /\ listeners \in [Sessions -> Seq(Subs)]
      /\ Heard /\ LiveOwns /\ \A d \in Subs : Slot(d)
  BY DEF Inv, Typed, Good
<1>2. SessionOf(c) \in Sessions
  BY SubParts
<1>3. place' = [place EXCEPT ![c] = "none"] /\ place'[c] = "none" /\ "none" \in Places
  BY <1>1 DEF Forget, Places
<1>4. /\ \E x \in Leases : lease' = [lease EXCEPT ![c] = x]
      /\ lease'[c] # "held"
      /\ lease'[c] = "none" <=> lease[c] = "none"
  BY <1>1 DEF Forget, Leases
<1>5. ~Listens(c)' /\ Hears(c)
  BY UnheardDoes DEF Forget
<1>6. Owns(c)
  <2>1. live' = LiveWithout(c)
    BY DEF Forget
  <2>2. \A d \in Subs : d # c => place'[d] = place[d]
    BY <1>1, <1>3
  <2>3. ASSUME NEW d \in Subs, SessionOf(d) = SessionOf(c), place'[d] # "none"
        PROVE  SessionOf(d) \in live'
    <3>1. d # c /\ place[d] # "none"
      BY <1>3, <2>2, <2>3
    <3>2. SessionOf(d) \in live
      BY <1>1, <3>1 DEF Slot
    <3> QED
      BY <2>1, <2>3, <3>1, <3>2 DEF LiveWithout
  <2>4. SessionOf(c) \in live' =>
          \E d \in Subs : SessionOf(d) = SessionOf(c) /\ place'[d] # "none"
    BY <2>1, <2>2 DEF LiveWithout
  <2>5. /\ live' \subseteq Sessions
        /\ \A s \in Sessions : s # SessionOf(c) => (s \in live' <=> s \in live)
    BY <1>1, <2>1 DEF LiveWithout
  <2> QED
    BY <2>3, <2>4, <2>5 DEF Owns
<1> QED
  BY <1>3, <1>4, <1>5, <1>6

LEMMA HeardOnce ==
  ASSUME Inv, NEW c \in Subs, ~Listens(c), RetireReason(SessionOf(c)) = "none",
         listeners' = [listeners EXCEPT ![SessionOf(c)] = Append(@, c)]
  PROVE  Listens(c)' /\ Hears(c)
<1>1. listeners \in [Sessions -> Seq(Subs)] /\ Heard
  BY DEF Inv, Typed
<1>2. SessionOf(c) \in Sessions
  BY SubParts
<1> DEFINE p == listeners[SessionOf(c)]
           q == Append(p, c)
<1>3. p \in Seq(Subs) /\ Once(p) /\ c \notin ToSet(p)
  BY <1>1, <1>2 DEF Heard, Listens
<1>4. Pushed(p, q, c)
  BY DEF Pushed
<1>5. listeners' = [listeners EXCEPT ![SessionOf(c)] = q] /\ listeners'[SessionOf(c)] = q
  BY <1>1, <1>2
<1> HIDE DEF q
<1>6. q \in Seq(Subs) /\ Once(q) /\ ToSet(q) = ToSet(p) \cup {c}
  BY <1>3, <1>4, ValuesAppended
<1> QED
  BY <1>5, <1>6 DEF Listens, Hears
-----------------------------------------------------------------------------
(* Steps of a subscription that has not been started *)

\* An outside call returns and nothing else changes.
LEMMA DoneKeeps == ASSUME Inv, Done PROVE Inv'
<1>1. At("done") /\ "done" \in SubPoints
  BY DEF Done, SubPoints, Quiet
<1>2. PICK c \in Subs : Goes(c, "done")
  BY <1>1, TopIs
<1>3. /\ Typed /\ Good(c) /\ Birth(c) /\ Life(c) /\ Slot(c) /\ Told(c)
      /\ SessionOf(c) \in Sessions
  BY InvParts
<1>4. Leaves(c, Below)
  BY <1>2, StackLeft DEF Done, Below, Goes
<1>5. UNCHANGED <<status, server, watermark, registry, verdict, window, upstream,
                  history, lost, out>>
  BY DEF Done
<1>6. Talks(c)
  BY <1>3, <1>5, Still DEF Talks
<1>7. Calm(SessionOf(c)) /\ (Is("sweeping")' <=> Is("sweeping"))
  BY <1>3, <1>4, <1>5, CalmSteps DEF Leaves
<1>8. /\ \A at : Has(at, c) <=> Has(at, c)' \/ at = "done"
      /\ EndDue(c)' <=> EndDue(c)
      /\ EndSent(c)' <=> EndSent(c)
  BY <1>2, <1>4 DEF Leaves, Goes
<1>9. Birth(c)'
  BY <1>3, <1>5, <1>8 DEF Birth, Untouched, registry, history, Listens, Active
<1>10. Life(c)'
  BY <1>3, <1>5, <1>8 DEF Life, registry, history, Active, HasEnd
<1>11. Slot(c)'
  BY <1>3, <1>5, <1>7 DEF Slot, registry, history, Calm, Listens
<1>12. Told(c)'
  BY <1>3, <1>5, <1>7, <1>8 DEF Told, registry, history, Calm, HasEnd
<1> QED
  BY <1>4, <1>6, <1>9, <1>10, <1>11, <1>12, OneTalks DEF Good, Leaves

\* authorize() returns its promise, or its denial is recorded.
LEMMA VerdictKeeps ==
  ASSUME Inv, Authorizing \/ Denying PROVE Inv'
<1>1. PICK at \in {"authorizing", "denying"} : At(at)
  BY DEF Authorizing, Denying
<1>2. at \in SubPoints
  BY DEF SubPoints, Quiet
<1>3. PICK c \in Subs : Goes(c, at)
  BY <1>1, <1>2, TopIs
<1>4. /\ Typed /\ Good(c) /\ Birth(c) /\ Life(c) /\ Slot(c) /\ Told(c)
      /\ SessionOf(c) \in Sessions
  BY InvParts
<1>5. /\ \E v \in {"waiting", "rejected"} : verdict' = [verdict EXCEPT ![c] = v]
      /\ stack' = Rest
      /\ UNCHANGED <<status, server, watermark, registry, window, upstream,
                     history, lost, out>>
  BY <1>3 DEF Authorizing, Denying, Goes
<1>6. Leaves(c, Below)
  BY <1>3, <1>5, StackLeft DEF Below, Goes
<1>7. verdict'[c] \in {"waiting", "rejected"}
  BY <1>4, <1>5 DEF Typed
<1>8. Talks(c)
  BY <1>4, <1>5, Still DEF Talks, Verdicts
<1>9. Calm(SessionOf(c)) /\ (Is("sweeping")' <=> Is("sweeping"))
  BY <1>4, <1>5, <1>6, CalmSteps DEF Leaves
<1>10. /\ \A p : Has(p, c) <=> Has(p, c)' \/ p = at
       /\ EndDue(c)' <=> EndDue(c)
       /\ EndSent(c)' <=> EndSent(c)
  BY <1>3, <1>6 DEF Leaves, Goes
<1>11. Birth(c)'
  BY <1>2, <1>4, <1>5, <1>7, <1>10 DEF Birth, Untouched, registry, history, Listens, Active
<1>12. Life(c)'
  BY <1>4, <1>5, <1>10 DEF Life, registry, history, Active, HasEnd
<1>13. Slot(c)'
  BY <1>4, <1>5, <1>9 DEF Slot, registry, history, Calm, Listens
<1>14. Told(c)'
  BY <1>4, <1>5, <1>9, <1>10 DEF Told, registry, history, Calm, HasEnd
<1> QED
  BY <1>6, <1>8, <1>11, <1>12, <1>13, <1>14, OneTalks DEF Good, Leaves

\* The refusal was recorded, or a retired subscription cleaned up.
LEMMA RefuseKeeps == ASSUME Inv, Refuse PROVE Inv'
<1>1. PICK at \in {"rejecting", "notify"} : At(at)
  BY DEF Refuse
<1>2. at \in SubPoints /\ at \in Firsts
  BY DEF SubPoints, Speaking, Firsts
<1>3. PICK c \in Subs : Goes(c, at)
  BY <1>1, <1>2, TopIs
<1>4. /\ Typed /\ Nested(stack) /\ Retirement
      /\ Good(c) /\ Birth(c) /\ Life(c) /\ Slot(c) /\ Told(c)
      /\ SessionOf(c) \in Sessions /\ out[c] \in Seq(Messages)
  BY InvParts
<1>5. /\ Top.arg \in Causes
      /\ at = "notify" /\ Top.arg = "retired" => RetireReason(SessionOf(c)) # "none"
  BY <1>3, <1>4, TopPopped DEF Goes, FrameOK, Retirement
<1>6. UNCHANGED <<status, server, watermark, registry, verdict, upstream, history>>
  BY DEF Refuse
<1>7. /\ Has(at, c) /\ \A p : HasIn(Below, p, c) => p \in Quiet
      /\ ~EndDue(c) /\ ~EndSent(c) /\ ~DueIn(Below, c) /\ ~SentIn(Below, c)
      /\ \A p : Has(p, c) <=> HasIn(Below, p, c) \/ p = at
  BY <1>2, <1>3 DEF Goes
<1>8. /\ out[c] = <<>> /\ ~window[c].opened /\ c \in requested
      /\ place[c] # "consumer" \/ window[c].closed
      /\ place[c] # "pending"
      /\ at = "rejecting" => lease[c] = "none"
  BY <1>2, <1>4, <1>7 DEF Birth, Untouched, NewWindow, Quiet
<1>9. EndUnstarted(c, Top.arg, Rest)
  BY <1>3 DEF Refuse, Goes
<1>10. /\ window' = window
       /\ \E x \in Seq(Messages) : out' = [out EXCEPT ![c] = x]
       /\ lost' \in {lost, lost \cup {c}}
       /\ \/ /\ Notice(c, Top.arg) = "none" /\ out' = out
             /\ Leaves(c, Below)
          \/ /\ Notice(c, Top.arg) # "none" /\ out'[c] = Append(out[c], "subscribed")
             /\ Makes(c, Below, "noticed", Top.arg)
          \/ /\ c \in lost' /\ out' = out
             /\ Leaves(c, Below)
  BY <1>3, <1>4, <1>5, <1>7, <1>9, EndUnstartedDoes DEF Below, Goes
<1>11. /\ Moves(c, stack') /\ ~EndDue(c)' /\ ~EndSent(c)'
       /\ \A p : Has(p, c)' => p \in Quiet \/ (p = "noticed" /\ out'[c] = Append(out[c], "subscribed"))
       /\ \A p : p # "noticed" => (Has(p, c)' <=> HasIn(Below, p, c))
  BY <1>7, <1>10 DEF Leaves, Makes
<1>12. Talks(c)
  BY <1>4, <1>6, <1>10, Still DEF Talks
<1>13. Calm(SessionOf(c)) /\ (Is("sweeping")' <=> Is("sweeping"))
  BY <1>4, <1>6, <1>11, CalmSteps
<1>14. /\ "subscribed" \in Messages /\ "subscribed" \notin Terminals
       /\ Protocol(out[c]) /\ ~Ended(out[c])
  BY <1>8, NothingSaid DEF Messages, Terminals
<1>15. /\ Protocol(out'[c]) /\ ~Ended(out'[c])
       /\ out'[c] = out[c] \/ out'[c] = <<"subscribed">>
       /\ Has("noticed", c)' => out'[c] = <<"subscribed">>
  BY <1>4, <1>8, <1>10, <1>11, <1>14, Said DEF Quiet
<1>16. Birth(c)'
  BY <1>4, <1>6, <1>7, <1>8, <1>10, <1>11, <1>15
     DEF Birth, Untouched, registry, history, Listens, Active, Quiet
<1>17. Life(c)'
  BY <1>4, <1>6, <1>7, <1>8, <1>10, <1>11, <1>15
     DEF Life, registry, history, Active, HasEnd, Quiet, Birth
<1>18. Slot(c)'
  BY <1>4, <1>6, <1>10, <1>13 DEF Slot, registry, history, Calm, Listens
<1>19. Told(c)'
  <2>1. at = "notify" =>
          \/ Notice(c, Top.arg) # "none"
          \/ RetireReason(SessionOf(c)) \in {"replaced", "navigation"}
    BY <1>5, NoticeIs DEF Causes
  <2>2. Has("noticed", c)' \/ c \in lost' \/ Notice(c, Top.arg) = "none"
    BY <1>10 DEF Makes
  <2>3. ~Has("opening", c)'
    BY <1>11 DEF Quiet
  <2> QED
    BY <1>6, <1>8, <1>13, <2>1, <2>2, <2>3 DEF Told, registry, history, Calm
<1> QED
  BY <1>11, <1>12, <1>16, <1>17, <1>18, <1>19, OneTalks DEF Good

\* subscribed(0) of #endUnstarted is sent; the notice follows.
LEMMA NoticedKeeps == ASSUME Inv, Noticed PROVE Inv'
<1>1. At("noticed") /\ "noticed" \in SubPoints /\ "noticed" \in Firsts
  BY DEF Noticed, SubPoints, Speaking, Firsts
<1>2. PICK c \in Subs : Goes(c, "noticed")
  BY <1>1, TopIs
<1>3. /\ Typed /\ Nested(stack) /\ Retirement
      /\ Good(c) /\ Birth(c) /\ Life(c) /\ Slot(c) /\ Told(c)
      /\ SessionOf(c) \in Sessions /\ out[c] \in Seq(Messages)
  BY InvParts
<1>4. /\ Top.arg \in Causes
      /\ Top.arg = "retired" => RetireReason(SessionOf(c)) # "none"
  BY <1>2, <1>3, TopPopped DEF Goes, FrameOK, Retirement
<1>5. UNCHANGED <<status, server, watermark, registry, verdict, window, upstream,
                  history>>
  BY DEF Noticed
<1>6. /\ Has("noticed", c) /\ \A p : HasIn(Below, p, c) => p \in Quiet
      /\ ~EndDue(c) /\ ~EndSent(c) /\ ~DueIn(Below, c) /\ ~SentIn(Below, c)
      /\ \A p : Has(p, c) <=> HasIn(Below, p, c) \/ p = "noticed"
  BY <1>1, <1>2 DEF Goes
<1>7. /\ out[c] = <<"subscribed">> /\ ~window[c].opened /\ c \in requested
      /\ place[c] # "pending"
  BY <1>1, <1>3, <1>6 DEF Birth, Quiet
<1> DEFINE m == Notice(c, Top.arg)
<1>8. /\ \/ /\ m # "none" /\ out' = [out EXCEPT ![c] = Append(@, m)]
            /\ stack' = Append(Rest, Frame("done", c, "")) /\ lost' = lost
         \/ /\ stack' = Rest /\ out' = out
            /\ lost' = IF m = "none" THEN lost ELSE lost \cup {c}
  BY <1>2 DEF Noticed, Goes
<1>9. m \in {"none", "rejected", "cancelled"}
  BY NoticeIs
<1>10. m = "none" => RetireReason(SessionOf(c)) \in {"replaced", "navigation"}
  BY <1>4, NoticeIs DEF Causes
<1> HIDE DEF m
<1>11. /\ Moves(c, stack') /\ ~EndDue(c)' /\ ~EndSent(c)'
       /\ \A p : Has(p, c)' => p \in Quiet
       /\ \A p : HasIn(Below, p, c) => Has(p, c)'
  <2>1. CASE stack' = Rest
    <3>1. Leaves(c, Below)
      BY <1>2, <2>1, StackLeft DEF Below, Goes
    <3> QED
      BY <1>6, <3>1 DEF Leaves
  <2>2. CASE stack' = Append(Rest, Frame("done", c, ""))
    <3>1. Makes(c, Below, "done", "")
      BY <1>2, <2>2, PlainMade DEF Below, Goes, Plain, Quiet, Args
    <3> QED
      BY <1>6, <3>1 DEF Makes, Quiet
  <2> QED
    BY <1>8, <2>1, <2>2
<1>12. /\ \E x \in Seq(Messages) : out' = [out EXCEPT ![c] = x]
       /\ lost' \in {lost, lost \cup {c}}
       /\ Protocol(out'[c]) /\ out'[c] # <<>>
       /\ \/ Ended(out'[c])
          \/ c \in lost'
          \/ RetireReason(SessionOf(c)) \in {"replaced", "navigation"}
  <2>1. CASE m # "none" /\ out' = [out EXCEPT ![c] = Append(@, m)] /\ lost' = lost
    <3>1. m \in Messages /\ m \in Terminals /\ m # "subscribed"
      BY <1>9, <2>1 DEF Messages, Terminals
    <3>2. Append(out[c], m) \in Seq(Messages) /\ out'[c] = Append(out[c], m)
      BY <1>3, <2>1, <3>1, Appended DEF Typed
    <3>3. Protocol(out[c]) /\ ~Ended(out[c]) /\ out[c] # <<>>
      BY <1>3, <1>7, NothingSaid DEF Life
    <3> QED
      BY <1>3, <2>1, <3>1, <3>2, <3>3, Said
  <2>2. CASE out' = out /\ lost' = IF m = "none" THEN lost ELSE lost \cup {c}
    <3>1. \E x \in Seq(Messages) : out' = [out EXCEPT ![c] = x]
      BY <1>3, <2>2, Still
    <3>2. Protocol(out[c]) /\ out[c] # <<>>
      BY <1>3, <1>7 DEF Life
    <3>3. lost' \in {lost, lost \cup {c}} /\ (m # "none" => c \in lost')
      BY <2>2
    <3> QED
      BY <1>10, <2>2, <3>1, <3>2, <3>3
  <2> QED
    BY <1>8, <2>1, <2>2
<1>13. Talks(c)
  BY <1>3, <1>5, <1>12, Still DEF Talks
<1>14. Calm(SessionOf(c)) /\ (Is("sweeping")' <=> Is("sweeping"))
  BY <1>3, <1>5, <1>11, CalmSteps
<1>15. Birth(c)'
  BY <1>3, <1>5, <1>6, <1>7, <1>11
     DEF Birth, Untouched, registry, history, Listens, Active, Quiet
<1>16. Life(c)'
  BY <1>3, <1>5, <1>6, <1>7, <1>11, <1>12
     DEF Life, Birth, registry, history, Active, HasEnd, Quiet
<1>17. Slot(c)'
  BY <1>3, <1>5, <1>14 DEF Slot, registry, history, Calm, Listens
<1>18. Told(c)'
  BY <1>5, <1>11, <1>12, <1>14 DEF Told, registry, history, Calm, HasEnd, Quiet
<1> QED
  BY <1>11, <1>13, <1>15, <1>16, <1>17, <1>18, OneTalks DEF Good
-----------------------------------------------------------------------------
(* The subscribe command *)

\* The calls about a subscription are at its points.
LEMMA OnlySubPoints ==
  ASSUME Typed, NEW c \in Subs, NEW q, Moves(c, q)
  PROVE  \A p : HasIn(ToSet(q), p, c) => p \in SubPoints
<1>1. ASSUME NEW f \in Frames, f.sub = c PROVE f.at \in SubPoints
  <2>1. f \in FrameSet /\ FrameOK(f)
    BY Values DEF Typed, Frames
  <2>2. c \notin Sessions \X {0} /\ c # <<0, 0>>
    BY SubParts
  <2> QED
    BY <1>1, <2>1, <2>2, PointsAre DEF FrameSet, FrameOK
<1> QED
  BY <1>1 DEF Moves, Onto, About, HasIn

\* A command that was received and has done nothing yet.
LEMMA AskedGood ==
  ASSUME NEW c, Untouched(c)', c \in requested',
         \A p : Has(p, c)' => p \in {"established", "rejecting"}
  PROVE  Good(c)'
<1>1. ~EndDue(c)' /\ ~EndSent(c)'
  BY WhatIsIn DEF EndDue, EndSent, Has
<1>2. Protocol(out'[c]) /\ ~Ended(out'[c])
  BY NothingSaid DEF Untouched
<1>3. Birth(c)'
  BY DEF Birth, Untouched, NewWindow, Active, Quiet
<1>4. Life(c)'
  BY <1>1, <1>2 DEF Life, Untouched, NewWindow, Active, HasEnd
<1>5. Slot(c)'
  BY DEF Slot, Untouched, NewWindow
<1>6. Told(c)'
  BY DEF Told, Untouched, NewWindow
<1> QED
  BY <1>3, <1>4, <1>5, <1>6 DEF Good

LEMMA StartDoes ==
  ASSUME Typed, NEW c \in Subs, NEW below, Moves(c, below),
         \A p : HasIn(ToSet(below), p, c) => p \in Quiet,
         Start(c, below)
  PROVE  /\ \E x \in WindowSet : window' = [window EXCEPT ![c] = x]
         /\ window'[c] = NewWindow /\ out' = out /\ lost' = lost
         /\ Makes(c, ToSet(below), "opening", "")
<1>1. window' = [window EXCEPT ![c] = NewWindow] /\ NewWindow \in WindowSet
  BY DEF Start, NewWindow, WindowSet
<1>2. Makes(c, ToSet(below), "opening", "")
  BY FirstMade DEF Start, Firsts, Speaking, Args
<1> QED
  BY <1>1, <1>2 DEF Typed, Start

\* An entry is made, with its slot, for a subscription of a session that is not retired.
LEMMA EntryMade ==
  ASSUME Inv, NEW c \in Subs, NEW x \in {"pending", "consumer"},
         place' = [place EXCEPT ![c] = x], live' = live \cup {SessionOf(c)}
  PROVE  place'[c] = x /\ Owns(c)
<1>1. /\ place \in [Subs -> Places] /\ live \subseteq Sessions
      /\ SessionOf(c) \in Sessions
  BY SubParts DEF Inv, Typed
<1>2. place'[c] = x /\ x # "none"
  BY <1>1
<1> QED
  BY <1>1, <1>2 DEF Owns

\* An id over the watermark is of a new subscription.
LEMMA RegisterKeeps ==
  ASSUME Inv, NEW c \in Subs, NEW below, Moves(c, below), Register(c, below),
         UNCHANGED <<status, server, verdict, upstream, left>>,
         requested' \in {requested, requested \cup {c}}, c \in requested',
         Untouched(c), \A p : ~HasIn(ToSet(below), p, c)
  PROVE  Inv'
<1> DEFINE B == ToSet(below)
           s == SessionOf(c)
<1>1. /\ Typed /\ Good(c) /\ s \in Sessions
      /\ watermark \in [Sessions -> 0 .. NumIds] /\ IdOf(c) \in 1 .. NumIds
      /\ lease \in [Subs -> Leases] /\ place \in [Subs -> Places]
  BY InvParts, SubParts DEF Typed
<1>2. watermark' = [watermark EXCEPT ![s] = IdOf(c)]
  BY DEF Register
<1>3. watermark' \in [Sessions -> 0 .. NumIds]
  <2> HIDE DEF s
  <2>1. IdOf(c) \in 0 .. NumIds
    BY <1>1
  <2> QED
    BY <1>1, <1>2, <2>1
<1>4. ~DueIn(B, c) /\ ~SentIn(B, c)
  BY WhatIsIn
<1>5. \A p : HasIn(B, p, c) => p \in Quiet
  OBVIOUS
<1>6. /\ \E x \in Verdicts : verdict' = [verdict EXCEPT ![c] = x]
      /\ upstream' \subseteq Subs
      /\ \A d \in Subs : d # c => (d \in upstream' <=> d \in upstream)
  BY <1>1, Still
<1>7. Protocol(<<>>) /\ ~Ended(<<>>) /\ ~Ended(<<"subscribed">>)
  BY NothingSaid
<1>8. /\ place[c] = "none" /\ lease[c] = "none" /\ window[c] = NewWindow
      /\ out[c] = <<>> /\ verdict[c] = "none" /\ ~Listens(c) /\ c \notin upstream
  BY DEF Untouched
<1>9. window[c].closed = FALSE /\ window[c].opened = FALSE /\ window[c].concluded = FALSE
      /\ window[c].inFlight = FALSE /\ window[c].terminal = "none"
  BY <1>8 DEF NewWindow
<1>10. CASE /\ stack' = Append(below, Frame("rejecting", c, "rejected"))
            /\ UNCHANGED <<registry, window, out, lost>>
  <2>1. Makes(c, B, "rejecting", "rejected")
    BY <1>5, <1>10, FirstMade DEF Firsts, Speaking, Args, Causes
  <2>2. Untouched(c)'
    BY <1>10 DEF Untouched, registry, Listens
  <2>3. Good(c)'
    BY <2>1, <2>2, AskedGood DEF Makes
  <2>4. Touches(c)
    BY <1>1, <1>3, <1>6, <1>10, Still DEF Touches, registry
  <2>5. Hears(c) /\ Owns(c)
    BY <1>10, RegistryStill DEF registry
  <2> QED
    BY <2>1, <2>3, <2>4, <2>5, OneSub DEF Makes
<1>11. CASE /\ RetireReason(s) # "none"
            /\ lease' = [lease EXCEPT ![c] = "released"]
            /\ EndUnstarted(c, "retired", below)
            /\ UNCHANGED <<place, live, listeners>>
  <2>1. "retired" \in Causes
    BY DEF Causes
  <2>2. /\ window' = window
        /\ \E x \in Seq(Messages) : out' = [out EXCEPT ![c] = x]
        /\ lost' \in {lost, lost \cup {c}}
        /\ \/ /\ Notice(c, "retired") = "none" /\ out' = out
              /\ Leaves(c, B)
           \/ /\ Notice(c, "retired") # "none" /\ out'[c] = Append(out[c], "subscribed")
              /\ Makes(c, B, "noticed", "retired")
           \/ /\ c \in lost' /\ out' = out
              /\ Leaves(c, B)
    BY <1>1, <1>5, <1>11, <2>1, EndUnstartedDoes
  <2>3. lease'[c] = "released" /\ \E x \in Leases : lease' = [lease EXCEPT ![c] = x]
    BY <1>1, <1>11 DEF Leases
  <2>4. Moves(c, stack') /\ ~EndDue(c)' /\ ~EndSent(c)' /\ \A p : Has(p, c)' => p = "noticed"
    BY <1>4, <2>2 DEF Leaves, Makes
  <2>5. /\ out'[c] = <<>> \/ out'[c] = <<"subscribed">>
        /\ Protocol(out'[c]) /\ ~Ended(out'[c])
        /\ Has("noticed", c)' => out'[c] = <<"subscribed">>
        /\ Has("noticed", c)' \/ c \in lost'
             \/ RetireReason(s) \in {"replaced", "navigation"}
    <3>1. "subscribed" \in Messages /\ "subscribed" \notin Terminals
      BY DEF Messages, Terminals
    <3>2. /\ Append(<<>>, "subscribed") = <<"subscribed">>
          /\ Protocol(<<"subscribed">>)
      BY <1>7, <3>1, EmptySeq, Said
    <3>3. Notice(c, "retired") # "none" \/ RetireReason(s) \in {"replaced", "navigation"}
      BY <1>11, NoticeIs
    <3> QED
      BY <1>7, <1>8, <2>2, <3>2, <3>3 DEF Leaves, Makes
  <2>6. Calm(s) /\ (Is("sweeping")' <=> Is("sweeping"))
    BY <1>1, <2>4, CalmSteps
  <2>7. ~Listens(c)'
    BY <1>8, <1>11 DEF Listens
  <2>8. Birth(c)'
    BY <1>8, <1>9, <1>11, <2>2, <2>4, <2>5 DEF Birth, Active, Quiet, Untouched
  <2>9. Life(c)'
    BY <1>8, <1>9, <1>11, <2>2, <2>4, <2>5 DEF Life, Active, HasEnd
  <2>10. Slot(c)'
    BY <1>8, <1>9, <1>11, <2>2, <2>3, <2>7 DEF Slot
  <2>11. Told(c)'
    BY <2>4, <2>5, <2>6 DEF Told, Calm
  <2>12. Touches(c)
    BY <1>1, <1>3, <1>6, <1>11, <2>2, <2>3, Still DEF Touches
  <2>13. Hears(c) /\ Owns(c)
    BY <1>11, RegistryStill
  <2> QED
    BY <2>4, <2>8, <2>9, <2>10, <2>11, <2>12, <2>13, OneSub DEF Good
<1>12. CASE /\ RetireReason(s) = "none"
            /\ lease' = [lease EXCEPT ![c] = "held"]
            /\ live' = live \cup {s}
            /\ IF hasAuthorize
               THEN /\ place' = [place EXCEPT ![c] = "pending"]
                    /\ listeners' = [listeners EXCEPT ![s] = Append(@, c)]
                    /\ stack' = Append(below, Frame("authorizing", c, ""))
                    /\ UNCHANGED <<window, out, lost>>
               ELSE /\ place' = [place EXCEPT ![c] = "consumer"]
                    /\ Start(c, below)
                    /\ UNCHANGED listeners
  <2>1. lease'[c] = "held" /\ \E x \in Leases : lease' = [lease EXCEPT ![c] = x]
    BY <1>1, <1>12 DEF Leases
  <2>2. CASE hasAuthorize
    <3>1. place'[c] = "pending" /\ Owns(c)
          /\ \E x \in Places : place' = [place EXCEPT ![c] = x]
      BY <1>12, <2>2, EntryMade DEF Places
    <3>2. Listens(c)' /\ Hears(c)
      BY <1>8, <1>12, <2>2, HeardOnce
    <3>3. Makes(c, B, "authorizing", "")
      BY <1>12, <2>2, PlainMade DEF Plain, Quiet, Args
    <3>4. Moves(c, stack') /\ ~EndDue(c)' /\ ~EndSent(c)' /\ \A p : Has(p, c)' => p \in Quiet
      BY <1>4, <1>5, <3>3 DEF Makes, Quiet
    <3>5. UNCHANGED <<window, out, lost>>
      BY <1>12, <2>2
    <3>6. Birth(c)'
      BY <1>8, <1>9, <3>1, <3>4, <3>5 DEF Birth, Active, Quiet
    <3>7. Life(c)'
      BY <1>7, <1>8, <1>9, <3>1, <3>4, <3>5 DEF Life, Active, HasEnd, Quiet
    <3>8. Slot(c)'
      BY <1>9, <1>12, <2>1, <3>1, <3>2, <3>5 DEF Slot
    <3>9. Told(c)'
      BY <3>1, <3>4 DEF Told, Quiet
    <3>10. Touches(c)
      BY <1>1, <1>3, <1>6, <2>1, <3>1, <3>5, Still DEF Touches
    <3> QED
      BY <3>1, <3>2, <3>4, <3>6, <3>7, <3>8, <3>9, <3>10, OneSub DEF Good
  <2>3. CASE ~hasAuthorize
    <3>1. place'[c] = "consumer" /\ Owns(c)
          /\ \E x \in Places : place' = [place EXCEPT ![c] = x]
      BY <1>12, <2>3, EntryMade DEF Places
    <3>2. ~Listens(c)' /\ Hears(c)
      BY <1>8, <1>12, <2>3, RegistryStill DEF Listens
    <3>3. /\ \E x \in WindowSet : window' = [window EXCEPT ![c] = x]
          /\ window'[c] = NewWindow /\ out' = out /\ lost' = lost
          /\ Makes(c, B, "opening", "")
      BY <1>1, <1>5, <1>12, <2>3, StartDoes
    <3>4. Moves(c, stack') /\ ~EndDue(c)' /\ ~EndSent(c)' /\ \A p : Has(p, c)' <=> p = "opening"
      BY <1>4, <3>3 DEF Makes
    <3>10. window'[c] = window[c] /\ out'[c] = <<>>
      BY <1>8, <3>3
    <3>11. verdict' = verdict /\ upstream' = upstream
      OBVIOUS
    <3>5. Birth(c)'
      BY <1>8, <1>9, <3>1, <3>2, <3>10, <3>11, <3>4 DEF Birth, Active
    <3>6. Life(c)'
      BY <1>7, <1>8, <1>9, <3>1, <3>10, <3>11, <3>4 DEF Life, Active, HasEnd
    <3>7. Slot(c)'
      BY <1>9, <1>12, <2>1, <3>1, <3>2, <3>3, <1>8 DEF Slot
    <3>8. Told(c)'
      BY <1>8, <1>9, <3>3, <3>4 DEF Told
    <3>9. Touches(c)
      BY <1>1, <1>3, <1>6, <2>1, <3>1, <3>3, Still DEF Touches
    <3> QED
      BY <3>1, <3>2, <3>4, <3>5, <3>6, <3>7, <3>8, <3>9, OneSub DEF Good
  <2> QED
    BY <2>2, <2>3
<1> QED
  BY <1>10, <1>11, <1>12 DEF Register

LEMMA BeginKeeps ==
  ASSUME Inv, NEW c \in Subs, NEW below, Moves(c, below), Begin(c, below),
         UNCHANGED <<status, server, verdict, upstream, left>>,
         requested' \in {requested, requested \cup {c}}, c \in requested',
         IdOf(c) > watermark[SessionOf(c)] =>
           Untouched(c) /\ \A p : ~HasIn(ToSet(below), p, c),
         ToSet(below) = Frames \/ (Untouched(c) /\ \A p : ~HasIn(ToSet(below), p, c))
  PROVE  Inv'
<1> DEFINE B == ToSet(below)
<1>1. Typed /\ Good(c) /\ Birth(c) /\ Life(c) /\ Slot(c) /\ Told(c) /\ SessionOf(c) \in Sessions
  BY InvParts
<1>2. ASSUME UNCHANGED <<watermark, registry, window, out, lost>>
      PROVE  Touches(c) /\ Hears(c) /\ Owns(c) /\ (Untouched(c) => Untouched(c)')
  <2>1. Touches(c)
    BY <1>1, <1>2, Still DEF Touches, registry
  <2>2. Hears(c) /\ Owns(c)
    BY <1>2, RegistryStill DEF registry
  <2>3. Untouched(c) => Untouched(c)'
    BY <1>2 DEF Untouched, registry, Listens
  <2> QED
    BY <2>1, <2>2, <2>3
<1>3. CASE /\ IdOf(c) > watermark[SessionOf(c)]
           /\ stack' = Append(below, Frame("rejecting", c, "rejected"))
           /\ UNCHANGED <<watermark, registry, window, out, lost>>
  <2>1. Makes(c, B, "rejecting", "rejected")
    BY <1>3, FirstMade DEF Firsts, Speaking, Args, Causes
  <2>2. Good(c)'
    BY <1>2, <1>3, <2>1, AskedGood DEF Makes
  <2> QED
    BY <1>2, <1>3, <2>1, <2>2, OneSub DEF Makes
<1>4. CASE /\ IdOf(c) <= watermark[SessionOf(c)]
           /\ stack' = below
           /\ UNCHANGED <<watermark, registry, window, out, lost>>
  <2>1. Leaves(c, B)
    BY <1>4, StackLeft
  <2>2. Good(c)'
    <3>1. CASE Untouched(c) /\ \A p : ~HasIn(B, p, c)
      BY <1>2, <1>4, <2>1, <3>1, AskedGood DEF Leaves
    <3>2. CASE B = Frames
      <4>1. /\ \A p : Has(p, c)' <=> Has(p, c)
            /\ EndDue(c)' <=> EndDue(c)
            /\ EndSent(c)' <=> EndSent(c)
        BY <2>1, <3>2 DEF Leaves, Has, EndDue, EndSent
      <4>2. Calm(SessionOf(c)) /\ (Is("sweeping")' <=> Is("sweeping"))
        BY <1>1, <2>1, CalmSteps DEF Leaves
      <4>3. Birth(c)'
        BY <1>1, <1>4, <4>1 DEF Birth, Untouched, registry, Listens
      <4>4. Life(c)'
        BY <1>1, <1>4, <4>1 DEF Life, registry, HasEnd
      <4>5. Slot(c)'
        BY <1>1, <1>4, <4>2 DEF Slot, registry, Calm, Listens
      <4>6. Told(c)'
        BY <1>1, <1>4, <4>1, <4>2 DEF Told, registry, Calm, HasEnd
      <4> QED
        BY <4>3, <4>4, <4>5, <4>6 DEF Good
    <3> QED
      BY <3>1, <3>2
  <2> QED
    BY <1>2, <1>4, <2>1, <2>2, OneSub DEF Leaves
<1>5. CASE IdOf(c) > watermark[SessionOf(c)] /\ Register(c, below)
  BY <1>5, RegisterKeeps
<1> QED
  BY <1>3, <1>4, <1>5 DEF Begin

\* A subscription nobody asked for: there is nothing of it.
LEMMA Unasked ==
  ASSUME Inv, NEW c \in Subs, c \notin requested
  PROVE  Untouched(c) /\ \A p : ~Has(p, c)
<1>1. Typed /\ Nested(stack) /\ Birth(c)
  BY InvParts
<1>2. Untouched(c) /\ \A p \in SubPoints : ~Has(p, c)
  BY <1>1 DEF Birth
<1>3. Moves(c, stack)
  BY <1>1, StackStays
<1> QED
  BY <1>1, <1>2, <1>3, OnlySubPoints DEF Has, Frames

LEMMA SubscribeKeeps ==
  ASSUME Inv, NEW c \in Subs, Subscribe(c) PROVE Inv'
<1> DEFINE s == SessionOf(c)
<1>1. /\ Typed /\ Nested(stack) /\ Retirement /\ Good(c) /\ s \in Sessions
  BY InvParts
<1>2. Moves(c, stack) /\ ToSet(stack) = Frames
  BY <1>1, StackStays DEF Frames
<1>3. /\ UNCHANGED <<server, verdict, upstream, left>>
      /\ requested' = requested \cup {c} /\ c \in requested'
      /\ c \in requested => stack = <<>> /\ status[s] = "current" /\ IdOf(c) <= watermark[s]
  BY DEF Subscribe
<1>4. c \notin requested => Untouched(c) /\ \A p : ~HasIn(ToSet(stack), p, c)
  BY <1>2, Unasked DEF Has
<1>5. ASSUME UNCHANGED <<watermark, registry, window, out, lost>>,
             UNCHANGED status \/ Admits(c)
      PROVE  Touches(c) /\ Hears(c) /\ Owns(c) /\ (Untouched(c) => Untouched(c)')
  <2>1. Touches(c)
    BY <1>1, <1>3, <1>5, Still DEF Touches, registry
  <2>2. Hears(c) /\ Owns(c)
    BY <1>5, RegistryStill DEF registry
  <2>3. Untouched(c) => Untouched(c)'
    BY <1>3, <1>5 DEF Untouched, registry, Listens
  <2> QED
    BY <2>1, <2>2, <2>3
<1>6. ASSUME NEW at \in {"established", "rejecting"}, NEW arg \in {"", "admission"},
             at = "rejecting" => arg = "admission",
             stack' = Append(stack, Frame(at, c, arg)), c \notin requested,
             UNCHANGED <<watermark, registry, window, out, lost>>,
             UNCHANGED status \/ Admits(c)
      PROVE  Inv'
  <2>1. Makes(c, ToSet(stack), at, arg)
    BY <1>2, <1>4, <1>6, FirstMade DEF Firsts, Speaking, Args, Causes
  <2>2. Good(c)'
    BY <1>3, <1>4, <1>5, <1>6, <2>1, AskedGood DEF Makes
  <2> QED
    BY <1>5, <1>6, <2>1, <2>2, OneSub DEF Makes
<1>7. CASE /\ ~disposed /\ status[s] = "fresh"
           /\ status' = [status EXCEPT ![s] = "current"]
           /\ stack' = Append(stack, Frame("established", c, ""))
           /\ UNCHANGED <<watermark, registry, window, out, lost>>
  <2>1. c \notin requested /\ Admits(c)
    BY <1>3, <1>7 DEF Admits
  <2> QED
    BY <1>6, <1>7, <2>1
<1>8. CASE /\ ~disposed /\ status[s] = "current"
           /\ Begin(c, stack)
           /\ UNCHANGED status
  <2>1. IdOf(c) > watermark[s] => c \notin requested
    <3>1. IdOf(c) \in Int /\ watermark[s] \in Int
      BY <1>1, SubParts DEF Typed
    <3> QED
      BY <1>3, <3>1
  <2> QED
    BY <1>2, <1>3, <1>4, <1>8, <2>1, BeginKeeps
<1>9. CASE /\ disposed \/ status[s] \notin {"fresh", "current"}
           /\ stack' = Append(stack, Frame("rejecting", c, "admission"))
           /\ UNCHANGED <<status, watermark, registry, window, out, lost>>
  <2>1. c \notin requested
    <3> SUFFICES ASSUME c \in requested PROVE FALSE
      OBVIOUS
    <3>1. stack = <<>> /\ disposed /\ status[s] = "current"
      BY <1>3, <1>9
    <3>2. ~Is("disposing")
      BY <3>1, NothingUp
    <3> QED
      BY <1>1, <3>1, <3>2 DEF Retirement
  <2> QED
    BY <1>6, <1>9, <2>1
<1> QED
  BY <1>7, <1>8, <1>9 DEF Subscribe

\* The sink heard of the new session and subscribe() goes on.
LEMMA EstablishedKeeps == ASSUME Inv, Established PROVE Inv'
<1>1. At("established") /\ "established" \in SubPoints /\ "established" \in Firsts
  BY DEF Established, SubPoints, Speaking, Firsts
<1>2. PICK c \in Subs : Goes(c, "established")
  BY <1>1, TopIs
<1>3. Typed /\ Birth(c)
  BY InvParts
<1>4. Has("established", c) /\ Moves(c, Rest)
  BY <1>2 DEF Goes
<1>5. Untouched(c) /\ c \in requested /\ \A p \in SubPoints \ {"established", "rejecting"} : ~Has(p, c)
  BY <1>1, <1>3, <1>4 DEF Birth
<1>6. \A p : ~HasIn(Below, p, c)
  <2> SUFFICES ASSUME NEW p, HasIn(Below, p, c) PROVE FALSE
    OBVIOUS
  <2>1. p \in Quiet /\ Has(p, c)
    BY <1>1, <1>2 DEF Goes
  <2> QED
    BY <1>5, <2>1 DEF SubPoints, Quiet
<1>7. Begin(c, Rest) /\ UNCHANGED <<status, server, verdict, upstream, history>>
  BY <1>2 DEF Established, Goes
<1>8. requested' = requested /\ left' = left
  BY <1>7 DEF history
<1> QED
  BY <1>4, <1>5, <1>6, <1>7, <1>8, BeginKeeps DEF Below
-----------------------------------------------------------------------------
(* The decision of authorize *)

\* The promise of authorize() settles.
LEMMA SettleKeeps ==
  ASSUME Inv, NEW c \in Subs, NEW v \in {"allowed", "denied", "rejected"}, Settle(c, v)
  PROVE  Inv'
<1>1. /\ Typed /\ Nested(stack) /\ Good(c) /\ Birth(c) /\ Life(c) /\ Slot(c) /\ Told(c)
      /\ SessionOf(c) \in Sessions /\ verdict[c] \in Verdicts
  BY InvParts
<1>2. /\ stack = <<>> /\ verdict[c] = "waiting"
      /\ UNCHANGED <<status, server, watermark, registry, window, upstream, history,
                     lost, out>>
  BY DEF Settle
<1>3. /\ Moves(c, stack) /\ ToSet(stack) = {}
      /\ \A p : ~HasIn({}, p, c)
      /\ ~DueIn({}, c) /\ ~SentIn({}, c)
      /\ \A p : ~Has(p, c)
      /\ ~EndDue(c) /\ ~EndSent(c)
  BY <1>1, <1>2, NothingUp, StackStays DEF HasIn, DueIn, SentIn
<1>4. c \in requested
  BY <1>1, <1>2 DEF Birth, Untouched
<1>5. /\ \E x \in Verdicts : verdict' = [verdict EXCEPT ![c] = x]
      /\ verdict'[c] = "cancelled" => place[c] # "pending"
      /\ Moves(c, stack') /\ ~EndDue(c)' /\ ~EndSent(c)'
      /\ \A p : Has(p, c)' => p \in Quiet
  <2>1. CASE /\ v # "denied" \/ place[c] # "pending"
             /\ verdict' = [verdict EXCEPT ![c] =
                              IF place[c] = "pending" THEN v ELSE "cancelled"]
             /\ UNCHANGED stack
    <3>1. (IF place[c] = "pending" THEN v ELSE "cancelled") \in Verdicts
      BY <2>1 DEF Verdicts
    <3>2. verdict'[c] = IF place[c] = "pending" THEN v ELSE "cancelled"
      BY <1>1, <2>1 DEF Typed
    <3>3. Leaves(c, {})
      BY <1>3, <2>1, StackLeft
    <3> QED
      BY <1>3, <2>1, <3>1, <3>2, <3>3 DEF Leaves
  <2>2. CASE /\ v = "denied" /\ place[c] = "pending"
             /\ stack' = <<Frame("denying", c, "")>>
             /\ UNCHANGED verdict
    <3>1. \A g : <<g>> = Append(<<>>, g)
      OBVIOUS
    <3>2. stack' = Append(stack, Frame("denying", c, ""))
      BY <1>2, <2>2, <3>1
    <3>3. Makes(c, {}, "denying", "")
      BY <1>3, <3>2, PlainMade DEF Plain, Quiet, Args
    <3> QED
      BY <1>1, <1>2, <1>3, <2>2, <3>3, Still DEF Makes, Quiet
  <2> QED
    BY <2>1, <2>2 DEF Settle
<1>6. Talks(c)
  BY <1>1, <1>2, <1>5, Still DEF Talks
<1>7. Calm(SessionOf(c)) /\ (Is("sweeping")' <=> Is("sweeping"))
  BY <1>1, <1>2, <1>5, CalmSteps
<1>8. Birth(c)'
  BY <1>1, <1>2, <1>3, <1>4, <1>5
     DEF Birth, Untouched, registry, history, Listens, Active, Quiet
<1>9. Life(c)'
  BY <1>1, <1>2, <1>3, <1>5 DEF Life, registry, history, Active, HasEnd, Quiet
<1>10. Slot(c)'
  BY <1>1, <1>2, <1>7 DEF Slot, registry, history, Calm, Listens
<1>11. Told(c)'
  BY <1>1, <1>2, <1>3, <1>5, <1>7 DEF Told, registry, history, Calm, HasEnd, Quiet
<1> QED
  BY <1>5, <1>6, <1>8, <1>9, <1>10, <1>11, OneTalks DEF Good

\* subscribe() goes on after its await.
LEMMA DecideKeeps ==
  ASSUME Inv, NEW c \in Subs, Decide(c) PROVE Inv'
<1> DEFINE s == SessionOf(c)
<1>1. /\ Typed /\ Nested(stack) /\ Good(c) /\ Birth(c) /\ Life(c) /\ Slot(c) /\ Told(c)
      /\ s \in Sessions
  BY InvParts
<1>2. /\ stack = <<>> /\ verdict[c] \in {"allowed", "rejected", "cancelled"}
      /\ verdict' = [verdict EXCEPT ![c] = "none"]
      /\ FinishPending(c, verdict[c], stack)
      /\ UNCHANGED <<status, server, watermark, upstream, history>>
  BY DEF Decide
<1>3. /\ Moves(c, stack)
      /\ \A p : ~HasIn(ToSet(stack), p, c)
      /\ ~DueIn(ToSet(stack), c) /\ ~SentIn(ToSet(stack), c)
      /\ \A p : ~Has(p, c)
      /\ ~EndDue(c) /\ ~EndSent(c)
      /\ ~Is("sweeping")
      /\ RetireReason(s) # "none" => listeners[s] = <<>>
  BY <1>1, <1>2, NothingUp, StackStays DEF HasIn, DueIn, SentIn
<1>4. c \in requested
  BY <1>1, <1>2 DEF Birth, Untouched
<1>5. /\ \E x \in Verdicts : verdict' = [verdict EXCEPT ![c] = x]
      /\ verdict'[c] = "none"
  BY <1>1, <1>2 DEF Typed, Verdicts
<1>6. /\ requested' = requested /\ left' = left /\ disposed' = disposed
      /\ upstream' = upstream /\ status' = status /\ watermark' = watermark
  BY <1>2 DEF history, server
<1>7. place[c] = "pending" =>
        /\ RetireReason(s) = "none" /\ out[c] = <<>> /\ ~window[c].opened
        /\ c \notin upstream /\ ~window[c].concluded /\ ~window[c].inFlight
        /\ window[c].terminal = "none"
        /\ verdict[c] # "cancelled" /\ lease[c] = "held" /\ s \in live
  BY <1>1, <1>3, ValuesEmpty DEF Birth, Slot, Listens
<1>8. CASE /\ place[c] # "pending"
           /\ stack' = stack
           /\ UNCHANGED <<registry, window, out, lost>>
  <2>1. Leaves(c, ToSet(stack))
    BY <1>3, <1>8, StackLeft
  <2>2. Calm(s) /\ (Is("sweeping")' <=> Is("sweeping"))
    BY <1>1, <1>2, <2>1, CalmSteps DEF Leaves
  <2>3. \A p : ~Has(p, c)'
    BY <1>3, <2>1 DEF Leaves
  <2>4. ~EndDue(c)' /\ ~EndSent(c)'
    BY <1>3, <2>1 DEF Leaves
  <2>5. Birth(c)'
    BY <1>1, <1>3, <1>4, <1>5, <1>6, <1>8, <2>3 DEF Birth, registry, Untouched
  <2>6. Life(c)'
    BY <1>1, <1>3, <1>6, <1>8, <2>3, <2>4 DEF Life, registry, HasEnd
  <2>7. Slot(c)'
    BY <1>1, <1>6, <1>8, <2>2 DEF Slot, registry, Listens, Calm
  <2>8. Told(c)'
    BY <1>1, <1>3, <1>6, <1>8, <2>2, <2>3, <2>4 DEF Told, registry, Calm, HasEnd
  <2>9. Talks(c)
    BY <1>1, <1>2, <1>5, <1>8, Still DEF Talks
  <2> QED
    BY <2>1, <2>5, <2>6, <2>7, <2>8, <2>9, OneTalks DEF Good, Leaves
<1>9. CASE /\ place[c] = "pending"
           /\ verdict[c] = "allowed" /\ RetireReason(s) = "none"
           /\ place' = [place EXCEPT ![c] = "consumer"]
           /\ listeners' = Unheard(c)
           /\ Start(c, stack)
           /\ UNCHANGED <<live, lease>>
  <2>1. place'[c] = "consumer" /\ Owns(c)
        /\ \E x \in Places : place' = [place EXCEPT ![c] = x]
    <3>1. live' = live \cup {s}
      BY <1>7, <1>9
    <3> QED
      BY <1>9, <3>1, EntryMade DEF Places
  <2>2. ~Listens(c)' /\ Hears(c)
    BY <1>9, UnheardDoes
  <2>3. /\ \E x \in WindowSet : window' = [window EXCEPT ![c] = x]
        /\ window'[c] = NewWindow /\ out' = out /\ lost' = lost
        /\ Makes(c, ToSet(stack), "opening", "")
    BY <1>1, <1>3, <1>9, StartDoes
  <2>4. Moves(c, stack') /\ ~EndDue(c)' /\ ~EndSent(c)' /\ \A p : Has(p, c)' <=> p = "opening"
    BY <1>3, <2>3 DEF Makes
  <2>5. /\ ~window'[c].closed /\ ~window'[c].opened /\ ~window'[c].concluded
        /\ ~window'[c].inFlight /\ window'[c].terminal = "none"
    BY <2>3, NewWindowIs
  <2>6. lease' = lease /\ live' = live
    BY <1>9
  <2>12. out'[c] = <<>> /\ c \notin upstream
    BY <1>7, <1>9, <2>3
  <2>7. Birth(c)'
    BY <1>4, <1>5, <1>6, <2>1, <2>2, <2>4, <2>5, <2>12 DEF Birth, Active
  <2>8. Life(c)'
    BY <1>6, <2>1, <2>4, <2>5, <2>12, NothingSaid DEF Life, Active, HasEnd
  <2>9. Slot(c)'
    BY <1>7, <1>9, <2>1, <2>2, <2>5, <2>6 DEF Slot
  <2>10. Told(c)'
    BY <2>4, <2>5 DEF Told
  <2>11. Touches(c)
    BY <1>1, <1>2, <1>5, <1>6, <2>1, <2>3, <2>6, Still DEF Touches
  <2> QED
    BY <2>1, <2>2, <2>4, <2>7, <2>8, <2>9, <2>10, <2>11, OneSub DEF Good
<1>10. CASE /\ place[c] = "pending"
            /\ verdict[c] # "allowed" \/ RetireReason(s) # "none"
            /\ Forget(c)
            /\ IF verdict[c] = "rejected" /\ RetireReason(s) = "none"
               THEN EndUnstarted(c, "rejected", stack)
               ELSE stack' = stack /\ UNCHANGED <<window, out, lost>>
  <2>1. EndUnstarted(c, "rejected", stack) /\ "rejected" \in Causes
    BY <1>2, <1>7, <1>10 DEF Causes
  <2>2. Notice(c, "rejected") # "none"
    BY <1>7, <1>10, NoticeIs
  <2>3. /\ window' = window
        /\ \E x \in Seq(Messages) : out' = [out EXCEPT ![c] = x]
        /\ lost' \in {lost, lost \cup {c}}
        /\ \/ /\ out'[c] = Append(out[c], "subscribed")
              /\ Makes(c, ToSet(stack), "noticed", "rejected")
           \/ /\ c \in lost' /\ out' = out
              /\ Leaves(c, ToSet(stack))
    BY <1>1, <1>3, <2>1, <2>2, EndUnstartedDoes
  <2>4. Moves(c, stack') /\ ~EndDue(c)' /\ ~EndSent(c)' /\ \A p : Has(p, c)' => p = "noticed"
    BY <1>3, <2>3 DEF Leaves, Makes
  <2>5. /\ \E x \in Places : place' = [place EXCEPT ![c] = x]
        /\ \E x \in Leases : lease' = [lease EXCEPT ![c] = x]
        /\ place'[c] = "none" /\ lease'[c] # "held"
        /\ ~Listens(c)' /\ Hears(c) /\ Owns(c)
    BY <1>6, <1>10, ForgetDoes
  <2>6. /\ out'[c] = <<>> \/ out'[c] = <<"subscribed">>
        /\ Protocol(out'[c]) /\ ~Ended(out'[c])
        /\ Has("noticed", c)' => out'[c] = <<"subscribed">>
        /\ Has("noticed", c)' \/ c \in lost'
    <3>1. "subscribed" \in Messages /\ "subscribed" \notin Terminals
      BY DEF Messages, Terminals
    <3>2. /\ Append(<<>>, "subscribed") = <<"subscribed">>
          /\ Protocol(<<"subscribed">>) /\ Protocol(<<>>)
          /\ ~Ended(<<>>) /\ ~Ended(<<"subscribed">>)
      BY <3>1, EmptySeq, Said, NothingSaid
    <3> QED
      BY <1>3, <1>7, <1>10, <2>3, <3>2 DEF Leaves, Makes
  <2>7. Birth(c)'
    BY <1>4, <1>5, <1>6, <1>7, <1>10, <2>3, <2>4, <2>5, <2>6 DEF Birth, Active
  <2>8. Life(c)'
    BY <1>6, <1>7, <1>10, <2>3, <2>4, <2>5, <2>6 DEF Life, Active, HasEnd
  <2>9. Slot(c)'
    BY <1>7, <1>10, <2>3, <2>5 DEF Slot
  <2>10. Told(c)'
    BY <2>4, <2>6 DEF Told
  <2>11. Touches(c)
    BY <1>1, <1>2, <1>5, <1>6, <2>3, <2>5, Still DEF Touches
  <2> QED
    BY <2>4, <2>5, <2>7, <2>8, <2>9, <2>10, <2>11, OneSub DEF Good
<1> QED
  BY <1>2, <1>8, <1>9, <1>10 DEF FinishPending

-----------------------------------------------------------------------------
(* The opening of a consumer *)

\* The cleanup of a retired consumer that was not opened is to be followed by its notice.
LEMMA NotifyPushed ==
  ASSUME NEW c \in Subs, NEW q, Moves(c, q), \A p : HasIn(ToSet(q), p, c) => p \in Quiet,
         RetireReason(SessionOf(c)) # "none"
  PROVE  LET r == Append(q, Frame("notify", c, "retired")) IN
         /\ Moves(c, r)
         /\ \A p : HasIn(ToSet(r), p, c) <=> HasIn(ToSet(q), p, c) \/ p = "notify"
         /\ DueIn(ToSet(r), c) <=> DueIn(ToSet(q), c)
         /\ SentIn(ToSet(r), c) <=> SentIn(ToSet(q), c)
<1> DEFINE g == Frame("notify", c, "retired")
           r == Append(q, g)
<1>1. "notify" \in SubPoints /\ "retired" \in Args /\ "retired" \in Causes
  BY DEF SubPoints, Speaking, Args, Causes
<1>2. g \in FrameSet /\ FrameOK(g) /\ g.at = "notify" /\ g.sub = c /\ g.arg = "retired"
  BY <1>1, SubFrame
<1> HIDE DEF g
<1>3. \A f \in ToSet(q) : Under(f, g)
  <2>1. \A f \in ToSet(q) : f.sub = c => f.at \in Quiet
    BY DEF HasIn
  <2> QED
    BY <1>2, <2>1 DEF Under, Due, Whole
<1>4. Onto(c, g)
  BY <1>1, <1>2 DEF Onto, About
<1>5. Moves(c, r) /\ ToSet(r) = ToSet(q) \cup {g}
  BY <1>3, <1>4, StackGrows
<1> HIDE DEF r
<1>6. /\ \A p : HasIn(ToSet(r), p, c) <=> HasIn(ToSet(q), p, c) \/ (g.at = p /\ g.sub = c)
      /\ DueIn(ToSet(r), c) <=> DueIn(ToSet(q), c) \/ (Due(g) /\ g.sub = c)
      /\ SentIn(ToSet(r), c) <=> SentIn(ToSet(q), c) \/ (Ending(g) /\ g.sub = c)
  BY <1>5, OneMore
<1> QED
  BY <1>2, <1>5, <1>6 DEF r, g, Due, Ending

\* subscription-opened is recorded.
LEMMA OpenedKeeps == ASSUME Inv, Opened PROVE Inv'
<1>1. At("opening") /\ "opening" \in SubPoints /\ "opening" \in Firsts
  BY DEF Opened, SubPoints, Speaking, Firsts
<1>2. PICK c \in Subs : Goes(c, "opening")
  BY <1>1, TopIs
<1> DEFINE s == SessionOf(c)
           w == window[c]
<1>3. /\ Typed /\ Nested(stack) /\ Retirement
      /\ Good(c) /\ Birth(c) /\ Life(c) /\ Slot(c) /\ Told(c)
      /\ s \in Sessions /\ out[c] \in Seq(Messages) /\ w \in WindowSet
  BY InvParts
<1>4. /\ Has("opening", c) /\ \A p : HasIn(Below, p, c) => p \in Quiet
      /\ ~EndDue(c) /\ ~EndSent(c) /\ ~DueIn(Below, c) /\ ~SentIn(Below, c)
      /\ \A p : Has(p, c) <=> HasIn(Below, p, c) \/ p = "opening"
      /\ Moves(c, Rest)
  BY <1>1, <1>2 DEF Goes
<1>5. /\ out[c] = <<>> /\ ~w.opened /\ c \in requested /\ ~Listens(c)
      /\ ~w.closed => place[c] = "consumer"
      /\ place[c] # "pending"
      /\ c \notin upstream /\ ~w.concluded /\ ~w.inFlight /\ w.terminal = "none"
  BY <1>1, <1>3, <1>4 DEF Birth, Quiet
<1>6. w.closed => place[c] # "consumer"
  BY <1>3, <1>4 DEF Life, Quiet
<1>7. UNCHANGED <<status, server, watermark, place, live, lease, verdict, upstream,
                  history>>
  BY DEF Opened
<1>8. /\ disposed' = disposed /\ requested' = requested /\ left' = left
  BY <1>7 DEF server, history
<1>9. Owns(c)
  BY <1>7, RegistryStill
<1>10. ASSUME NEW q, Moves(c, q), stack' = q \/ stack' = Append(q, Frame("closing", c, ""))
             \/ Makes(c, ToSet(q), "greeted", "")
       PROVE  Calm(s) /\ (Is("sweeping")' <=> Is("sweeping"))
  <2>1. Moves(c, stack')
    BY <1>10, PlainMade DEF Makes, Plain, Args
  <2> QED
    BY <1>3, <1>7, <2>1, CalmSteps
<1>11. ASSUME \E x \in WindowSet : window' = [window EXCEPT ![c] = x],
              \E x \in Seq(Messages) : out' = [out EXCEPT ![c] = x],
              lost' \in {lost, lost \cup {c}}
       PROVE  Touches(c)
  BY <1>3, <1>7, <1>8, <1>11, Still DEF Touches
<1>12. Protocol(<<>>) /\ ~Ended(<<>>)
  BY NothingSaid
<1>13. CASE /\ RetireReason(s) # "none"
            /\ OnRetireConsumer(c, Rest)
            /\ UNCHANGED listeners
  <2> DEFINE q == Append(Rest, Frame("notify", c, "retired"))
  <2>1. Close(c, w, q) /\ UNCHANGED <<out, lost>>
    BY <1>5, <1>13 DEF OnRetireConsumer
  <2>2. /\ Moves(c, q)
        /\ \A p : HasIn(ToSet(q), p, c) <=> HasIn(Below, p, c) \/ p = "notify"
        /\ DueIn(ToSet(q), c) <=> DueIn(Below, c)
        /\ SentIn(ToSet(q), c) <=> SentIn(Below, c)
    BY <1>4, <1>13, NotifyPushed DEF Below
  <2> HIDE DEF q
  <2>3. /\ window'[c] = [w EXCEPT !.closed = TRUE]
        /\ \E x \in WindowSet : window' = [window EXCEPT ![c] = x]
        /\ \/ w.closed /\ Leaves(c, ToSet(q))
           \/ ~w.closed /\ Makes(c, ToSet(q), "closing", "")
    BY <1>3, <2>1, <2>2, CloseDoes
  <2>4. /\ window'[c].closed /\ ~window'[c].opened /\ ~window'[c].concluded
        /\ ~window'[c].inFlight /\ window'[c].terminal = "none"
    BY <1>3, <1>5, <2>3 DEF WindowSet
  <2>5. /\ Moves(c, stack') /\ ~EndDue(c)' /\ ~EndSent(c)' /\ Has("notify", c)'
        /\ \A p : Has(p, c)' => p \in Quiet \/ p \in {"notify", "closing"}
        /\ Has("closing", c)' <=> ~w.closed
    BY <1>4, <2>2, <2>3 DEF Leaves, Makes, Quiet
  <2>6. Calm(s)
    BY <1>3, <1>7, <2>5, CalmSteps
  <2>7. ~Listens(c)' /\ Hears(c)
    BY <1>5, <1>13, RegistryStill DEF Listens
  <2>8. Birth(c)'
    BY <1>3, <1>5, <1>7, <1>8, <2>1, <2>4, <2>5, <2>7 DEF Birth, Active, Quiet
  <2>9. Life(c)'
    BY <1>5, <1>6, <1>7, <1>12, <2>1, <2>4, <2>5 DEF Life, Active, HasEnd, Quiet
  <2>10. Slot(c)'
    BY <1>3, <1>5, <1>7, <2>4, <2>7 DEF Slot
  <2>11. Told(c)'
    BY <2>5 DEF Told, Quiet
  <2>12. Touches(c)
    BY <1>3, <1>11, <2>1, <2>3, Still
  <2> QED
    BY <1>9, <2>5, <2>7, <2>8, <2>9, <2>10, <2>11, <2>12, OneSub DEF Good
<1>14. CASE /\ RetireReason(s) = "none" /\ w.closed
            /\ stack' = Rest
            /\ UNCHANGED <<listeners, window, out, lost>>
  <2>1. Leaves(c, Below)
    BY <1>4, <1>14, StackLeft DEF Below
  <2>2. /\ Moves(c, stack') /\ ~EndDue(c)' /\ ~EndSent(c)'
        /\ \A p : Has(p, c)' => p \in Quiet
    BY <1>4, <2>1 DEF Leaves
  <2>3. Calm(s) /\ (Is("sweeping")' <=> Is("sweeping"))
    BY <1>3, <1>7, <2>2, CalmSteps
  <2>4. ~Listens(c)' /\ Hears(c)
    BY <1>5, <1>14, RegistryStill DEF Listens
  <2>5. Birth(c)'
    BY <1>3, <1>5, <1>7, <1>8, <1>14, <2>2, <2>4 DEF Birth, Active, Quiet
  <2>6. Life(c)'
    BY <1>5, <1>6, <1>7, <1>12, <1>14, <2>2 DEF Life, Active, HasEnd, Quiet
  <2>7. Slot(c)'
    BY <1>3, <1>5, <1>6, <1>7, <1>14, <2>4 DEF Slot
  <2>8. c \in left \/ RetireReason(s) # "none" \/ Overtaken(s)
    BY <1>3, <1>4, <1>14 DEF Told
  <2>9. Told(c)'
    BY <1>8, <1>14, <2>2, <2>3, <2>8 DEF Told, Calm, Quiet
  <2>10. Touches(c)
    BY <1>3, <1>11, <1>14, Still
  <2> QED
    BY <1>9, <2>2, <2>4, <2>5, <2>6, <2>7, <2>9, <2>10, OneSub DEF Good
<1>15. CASE /\ RetireReason(s) = "none" /\ ~w.closed
            /\ listeners' = [listeners EXCEPT ![s] = Append(@, c)]
            /\ out' = [out EXCEPT ![c] = Append(@, "subscribed")]
            /\ window' = [window EXCEPT ![c].opened = TRUE]
            /\ stack' = Append(Rest, Frame("greeted", c, ""))
            /\ UNCHANGED lost
  <2>1. Listens(c)' /\ Hears(c)
    BY <1>5, <1>15, HeardOnce
  <2>2. \A f \in Below : f.at = "dispatching" => SessionOf(f.sub) # s
    <3>1. \A f \in Frames : f.at = "dispatching" =>
            status[SessionOf(f.sub)] = f.arg /\ f.arg \in AllReasons
      BY <1>3 DEF Retirement, Typed, FrameOK
    <3>2. status[s] \notin AllReasons
      BY <1>15 DEF RetireReason, AllReasons
    <3>3. Below \subseteq Frames
      BY <1>2, <1>3, TopPopped DEF Goes
    <3> QED
      BY <3>1, <3>2, <3>3
  <2>3. Makes(c, Below, "greeted", "")
    BY <1>4, <1>15, <2>2, FirstMade DEF Below, Firsts, Args
  <2>4. /\ Moves(c, stack') /\ ~EndDue(c)' /\ ~EndSent(c)'
        /\ \A p : Has(p, c)' => p \in Quiet \/ p = "greeted"
        /\ Has("greeted", c)'
    BY <1>4, <2>3 DEF Makes
  <2>5. /\ "subscribed" \in Messages /\ "subscribed" \notin Terminals
        /\ Append(out[c], "subscribed") \in Seq(Messages)
        /\ Protocol(out[c]) /\ ~Ended(out[c])
    BY <1>3, <1>5, <1>12, Appended DEF Messages, Terminals
  <2>6. out'[c] = Append(out[c], "subscribed")
        /\ \E x \in Seq(Messages) : out' = [out EXCEPT ![c] = x]
    BY <1>3, <1>15, <2>5 DEF Typed
  <2>7. Protocol(out'[c]) /\ ~Ended(out'[c]) /\ out'[c] # <<>>
    BY <1>3, <1>5, <2>5, <2>6, Said
  <2> DEFINE wo == [w EXCEPT !.opened = TRUE]
  <2>16. /\ wo \in WindowSet /\ ~wo.closed /\ wo.opened /\ ~wo.concluded
         /\ ~wo.inFlight /\ wo.terminal = "none"
    <3>1. w \in WindowSet /\ ~w.closed /\ ~w.concluded /\ ~w.inFlight /\ w.terminal = "none"
      BY <1>3, <1>5, <1>15
    <3> QED
      BY <3>1 DEF WindowSet
  <2>17. window' = [window EXCEPT ![c] = wo]
    BY <1>15
  <2> HIDE DEF wo
  <2>8. window'[c] = wo /\ \E x \in WindowSet : window' = [window EXCEPT ![c] = x]
    BY <1>3, <2>16, <2>17 DEF Typed
  <2>9. /\ ~window'[c].closed /\ window'[c].opened /\ ~window'[c].concluded
        /\ ~window'[c].inFlight /\ window'[c].terminal = "none"
    BY <2>8, <2>16
  <2>10. Calm(s)
    BY <1>3, <1>7, <2>4, CalmSteps
  <2>11. Birth(c)'
    BY <1>3, <1>5, <1>7, <1>8, <1>15, <2>4, <2>9 DEF Birth, Active, Quiet
  <2>12. Life(c)'
    BY <1>5, <1>7, <1>15, <2>4, <2>7, <2>9 DEF Life, Active, HasEnd, Quiet
  <2>13. Slot(c)'
    BY <1>3, <1>5, <1>7, <1>15, <2>1, <2>9 DEF Slot
  <2>14. Told(c)'
    BY <1>5, <1>7, <1>15, <2>4, <2>9 DEF Told, Quiet
  <2>15. Touches(c)
    BY <1>11, <1>15, <2>6, <2>8
  <2> QED
    BY <1>9, <2>1, <2>4, <2>11, <2>12, <2>13, <2>14, <2>15, OneSub DEF Good
<1>16. CASE /\ RetireReason(s) = "none" /\ ~w.closed
            /\ listeners' = [listeners EXCEPT ![s] = Append(@, c)]
            /\ lost' = lost \cup {c}
            /\ Close(c, [w EXCEPT !.opened = TRUE], Rest)
            /\ UNCHANGED out
  <2>1. Listens(c)' /\ Hears(c)
    BY <1>5, <1>16, HeardOnce
  <2> DEFINE wo == [w EXCEPT !.opened = TRUE]
  <2>2. /\ wo \in WindowSet /\ ~wo.closed /\ wo.opened /\ ~wo.concluded
        /\ ~wo.inFlight /\ wo.terminal = "none"
    BY <1>3, <1>5, <1>16, WindowMade DEF WindowSet
  <2>3. Close(c, wo, Rest)
    BY <1>16
  <2> HIDE DEF wo
  <2>4. /\ window'[c] = [wo EXCEPT !.closed = TRUE]
        /\ \E x \in WindowSet : window' = [window EXCEPT ![c] = x]
        /\ Makes(c, Below, "closing", "")
    BY <1>3, <1>4, <2>2, <2>3, CloseDoes DEF Below
  <2>5. /\ window'[c].closed /\ window'[c].opened /\ ~window'[c].concluded
        /\ ~window'[c].inFlight /\ window'[c].terminal = "none"
    BY <2>2, <2>4 DEF WindowSet
  <2>6. /\ Moves(c, stack') /\ ~EndDue(c)' /\ ~EndSent(c)'
        /\ \A p : Has(p, c)' => p \in Quiet \/ p = "closing"
        /\ Has("closing", c)'
    BY <1>4, <2>4 DEF Makes
  <2>7. Birth(c)'
    BY <1>3, <1>5, <1>7, <1>8, <1>16, <2>5, <2>6 DEF Birth, Active, Quiet
  <2>8. Life(c)'
    BY <1>5, <1>7, <1>12, <1>16, <2>5, <2>6 DEF Life, Active, HasEnd, Quiet, Accepting
  <2>9. Slot(c)'
    BY <1>3, <1>5, <1>7, <1>16, <2>1, <2>5 DEF Slot
  <2>10. Told(c)'
    BY <1>16, <2>6 DEF Told, Quiet
  <2>11. Touches(c)
    BY <1>3, <1>11, <1>16, <2>4, Still
  <2> QED
    BY <1>9, <2>1, <2>6, <2>7, <2>8, <2>9, <2>10, <2>11, OneSub DEF Good
<1> QED
  BY <1>2, <1>13, <1>14, <1>15, <1>16 DEF Opened, Goes
-----------------------------------------------------------------------------
(* Steps of a subscription that was opened *)

\* What a subscription that was opened no longer has.
LEMMA OpenedOnce ==
  ASSUME Inv, NEW c \in Subs, window[c].opened
  PROVE  /\ c \in requested /\ place[c] # "pending"
         /\ \A p \in Speaking : ~Has(p, c)
<1>1. Birth(c) /\ ~NewWindow.opened
  BY InvParts, NewWindowIs
<1> QED
  BY <1>1 DEF Birth, Untouched, Speaking

LEMMA OpenedBirth ==
  ASSUME NEW c, window'[c].opened, c \in requested', place'[c] # "pending",
         \A p \in Speaking : ~Has(p, c)'
  PROVE  Birth(c)'
BY DEF Birth, Speaking

LEMMA ActiveOpened ==
  ASSUME Inv, NEW c \in Subs, c \in upstream \/ \E p \in Active : Has(p, c)
  PROVE  window[c].opened /\ out[c] # <<>>
<1>1. Birth(c) /\ Life(c)
  BY InvParts
<1> QED
  BY <1>1 DEF Birth, Life

\* A call is made or returns; of the windows, only what is in flight changes.
LEMMA OnlyCalls ==
  ASSUME Inv, NEW c \in Subs, Moves(c, stack'), window[c].opened,
         NEW w \in WindowSet, window' = [window EXCEPT ![c] = w],
         w.opened, w.closed = window[c].closed, w.concluded = window[c].concluded,
         w.terminal = window[c].terminal,
         UNCHANGED <<status, server, watermark, registry, verdict, upstream, history,
                     lost, out>>,
         \A p : Has(p, c)' => Has(p, c) \/ (p \in {"parsing", "failed"} /\ ~Has("greeted", c)),
         \A p : Has(p, c) => Has(p, c)'
                  \/ p \in {"sent", "detached", "parsing", "connecting", "greeted"},
         Has("greeted", c) => Has("greeted", c)' \/ window[c].closed,
         EndDue(c)' <=> EndDue(c), EndSent(c)' <=> EndSent(c),
         out[c] # <<>>
  PROVE  Inv'
<1>1. /\ Typed /\ Good(c) /\ Birth(c) /\ Life(c) /\ Slot(c) /\ Told(c)
      /\ SessionOf(c) \in Sessions
  BY InvParts
<1>2. /\ c \in requested /\ place[c] # "pending"
      /\ \A p \in Speaking : ~Has(p, c)
  BY OpenedOnce
<1>3. window'[c] = w
  BY <1>1 DEF Typed
<1>4. Talks(c)
  BY <1>1, Still DEF Talks
<1>5. Calm(SessionOf(c)) /\ (Is("sweeping")' <=> Is("sweeping"))
  BY <1>1, CalmSteps
<1>6. Birth(c)'
  <2>1. \A p \in Speaking : p \notin {"parsing", "failed"}
    BY DEF Speaking
  <2> QED
    BY <1>2, <1>3, <2>1, OpenedBirth DEF history, registry
<1>7. Life(c)'
  BY <1>1, <1>3 DEF Life, registry, HasEnd, Accepting, Active
<1>8. Slot(c)'
  BY <1>1, <1>2, <1>3, <1>5 DEF Slot, registry, Listens
<1>9. Told(c)'
  BY <1>1, <1>2, <1>3, <1>5 DEF Told, registry, history, HasEnd, Calm, Speaking
<1> QED
  BY <1>4, <1>6, <1>7, <1>8, <1>9, OneTalks DEF Good

\* A message after subscribed is sent with window w, or the send fails.
LEMMA SendKeeps ==
  ASSUME Inv, NEW c \in Subs, NEW message \in Messages \ {"subscribed"},
         NEW w \in WindowSet, NEW below, Moves(c, below), Send(c, message, w, below),
         UNCHANGED <<status, server, watermark, place, live, lease, verdict, upstream,
                     history>>,
         Hears(c),
         (Listens(c)' <=> Listens(c)) \/ (~Listens(c)' /\ w.concluded),
         window[c].opened, out[c] # <<>>, ~HasEnd(c),
         w.opened, w.closed = window[c].closed,
         window[c].concluded => w.concluded,
         w.concluded => window[c].concluded \/ message \in Terminals,
         message \in Terminals => w.concluded /\ ~DueIn(ToSet(below), c),
         c \in upstream \/ Has("greeted", c) => w.terminal = "none",
         Accepting(w) => Accepting(window[c]),
         \A p : HasIn(ToSet(below), p, c) => Has(p, c),
         \A p : Has(p, c) => HasIn(ToSet(below), p, c) \/ p \in {"parsing", "detached"},
         DueIn(ToSet(below), c) => EndDue(c),
         EndDue(c) => DueIn(ToSet(below), c) \/ message \in Terminals,
         SentIn(ToSet(below), c) <=> EndSent(c)
  PROVE  Inv'
<1> DEFINE B == ToSet(below)
           s == SessionOf(c)
<1>1. /\ Typed /\ Good(c) /\ Birth(c) /\ Life(c) /\ Slot(c) /\ Told(c)
      /\ s \in Sessions /\ out[c] \in Seq(Messages)
  BY InvParts
<1>2. /\ c \in requested /\ place[c] # "pending"
      /\ \A p \in Speaking : ~Has(p, c)
  BY OpenedOnce
<1>3. ~EndSent(c)
  BY <1>1 DEF Life
<1>4. /\ \E x \in WindowSet : window' = [window EXCEPT ![c] = x]
      /\ \E x \in Seq(Messages) : out' = [out EXCEPT ![c] = x]
      /\ lost' \in {lost, lost \cup {c}}
      /\ \/ /\ out'[c] = Append(out[c], message) /\ window'[c] = w
            /\ Makes(c, B, "sent", message)
            /\ lost' = lost
         \/ /\ c \in lost' /\ out' = out
            /\ window'[c] = [w EXCEPT !.closed = TRUE]
            /\ \/ w.closed /\ Leaves(c, B)
               \/ ~w.closed /\ Makes(c, B, "closing", "")
  BY <1>1, SendDoes
<1>5. requested' = requested /\ left' = left /\ disposed' = disposed
  BY DEF history, server
<1>6. Touches(c)
  BY <1>1, <1>4, <1>5, Still DEF Touches
<1>7. Owns(c)
  BY RegistryStill
<1>8. CASE /\ out'[c] = Append(out[c], message) /\ window'[c] = w
           /\ Makes(c, B, "sent", message)
           /\ lost' = lost
  <2>1. /\ Moves(c, stack')
        /\ \A p : Has(p, c)' => Has(p, c) \/ p = "sent"
        /\ \A p : Has(p, c) => Has(p, c)' \/ p \in {"parsing", "detached"}
        /\ EndDue(c)' <=> DueIn(B, c)
        /\ EndSent(c)' <=> message \in Terminals
    BY <1>3, <1>8 DEF Makes
  <2>2. /\ Protocol(out'[c]) /\ out'[c] # <<>> /\ (Ended(out'[c]) <=> message \in Terminals)
    <3>1. Protocol(out[c]) /\ ~Ended(out[c]) /\ (message = "subscribed" <=> out[c] = <<>>)
      BY <1>1 DEF Life, HasEnd
    <3> QED
      BY <1>1, <1>8, <3>1, Said
  <2>3. Calm(s) /\ (Is("sweeping")' <=> Is("sweeping"))
    BY <1>1, <2>1, CalmSteps
  <2>4. Birth(c)'
    <3>1. "sent" \notin Speaking
      BY DEF Speaking
    <3> QED
      BY <1>2, <1>5, <1>8, <2>1, <3>1, OpenedBirth
  <2>5. Life(c)'
    BY <1>1, <1>8, <2>1, <2>2 DEF Life, HasEnd, Accepting, Active
  <2>6. Slot(c)'
    BY <1>1, <1>2, <1>8, <2>3 DEF Slot
  <2>7. Told(c)'
    BY <1>1, <1>2, <1>5, <1>8, <2>1, <2>2, <2>3 DEF Told, HasEnd, Calm, Speaking
  <2> QED
    BY <1>6, <1>7, <2>1, <2>4, <2>5, <2>6, <2>7, OneSub DEF Good
<1>9. CASE /\ c \in lost' /\ out' = out
           /\ window'[c] = [w EXCEPT !.closed = TRUE]
           /\ \/ w.closed /\ Leaves(c, B)
              \/ ~w.closed /\ Makes(c, B, "closing", "")
  <2>1. /\ Moves(c, stack')
        /\ \A p : Has(p, c)' => Has(p, c) \/ p = "closing"
        /\ \A p : Has(p, c) => Has(p, c)' \/ p \in {"parsing", "detached"}
        /\ Has("closing", c)' \/ w.closed
        /\ EndDue(c)' <=> DueIn(B, c)
        /\ ~EndSent(c)'
    BY <1>3, <1>9 DEF Makes, Leaves
  <2>2. /\ window'[c].closed /\ window'[c].opened
        /\ window'[c].concluded = w.concluded /\ window'[c].terminal = w.terminal
    BY <1>9 DEF WindowSet
  <2>3. Birth(c)'
    <3>1. "closing" \notin Speaking
      BY DEF Speaking
    <3> QED
      BY <1>2, <1>5, <2>1, <2>2, <3>1, OpenedBirth
  <2>4. Life(c)'
    <3>1. /\ Life(c) /\ c \in lost'
          /\ out'[c] = out[c] /\ place'[c] = place[c]
          /\ c \in upstream' <=> c \in upstream
      BY <1>1, <1>9
    <3>2. EndDue(c)' => w.concluded
      BY <2>1, <3>1 DEF Life
    <3>3. \A p \in Active : Has(p, c)' => Has(p, c)
      BY <2>1 DEF Active
    <3> QED
      BY <2>1, <2>2, <3>1, <3>2, <3>3 DEF Life, HasEnd, Accepting
  <2>5. Slot(c)'
    BY <1>1, <1>2, <2>2 DEF Slot
  <2>6. Told(c)'
    BY <1>2, <1>9, <2>1 DEF Told, Speaking
  <2> QED
    BY <1>6, <1>7, <2>1, <2>3, <2>4, <2>5, <2>6, OneSub DEF Good
<1> QED
  BY <1>4, <1>8, <1>9

\* A consumer is closed.
LEMMA CloseKeeps ==
  ASSUME Inv, NEW c \in Subs, NEW below, Moves(c, below), Close(c, window[c], below),
         UNCHANGED <<status, server, watermark, place, live, lease, verdict, upstream,
                     requested, lost, out>>,
         left' \in {left, left \cup {c}},
         Hears(c), Listens(c)' => Listens(c),
         place[c] = "consumer" \/ window[c].opened,
         \A p : HasIn(ToSet(below), p, c) => Has(p, c),
         \A p : Has(p, c) => HasIn(ToSet(below), p, c) \/ p = "sent",
         DueIn(ToSet(below), c) <=> EndDue(c),
         SentIn(ToSet(below), c) => EndSent(c),
         \/ HasEnd(c) \/ EndDue(c) \/ Has("opening", c) \/ window[c].closed
         \/ c \in left' \/ c \in lost
         \/ RetireReason(SessionOf(c)) \in {"replaced", "navigation"}
         \/ Overtaken(SessionOf(c)),
         Has("opening", c) => window[c].closed \/ c \in left'
           \/ RetireReason(SessionOf(c)) # "none" \/ Overtaken(SessionOf(c))
  PROVE  Inv'
<1> DEFINE B == ToSet(below)
           s == SessionOf(c)
           w == window[c]
<1>1. /\ Typed /\ Good(c) /\ Birth(c) /\ Life(c) /\ Slot(c) /\ Told(c)
      /\ s \in Sessions /\ w \in WindowSet
  BY InvParts
<1>2. /\ window'[c] = [w EXCEPT !.closed = TRUE]
      /\ \E x \in WindowSet : window' = [window EXCEPT ![c] = x]
      /\ \/ w.closed /\ Leaves(c, B)
         \/ ~w.closed /\ Makes(c, B, "closing", "")
  BY <1>1, CloseDoes
<1>3. /\ window'[c].closed /\ window'[c].opened = w.opened
      /\ window'[c].concluded = w.concluded /\ window'[c].inFlight = w.inFlight
      /\ window'[c].terminal = w.terminal
  BY <1>1, <1>2 DEF WindowSet
<1>4. /\ Moves(c, stack')
      /\ \A p : Has(p, c)' => Has(p, c) \/ p = "closing"
      /\ \A p : Has(p, c) => Has(p, c)' \/ p = "sent"
      /\ Has("closing", c)' <=> Has("closing", c) \/ ~w.closed
      /\ EndDue(c)' <=> EndDue(c)
      /\ EndSent(c)' => EndSent(c)
  BY <1>2 DEF Leaves, Makes
<1>5. Calm(s) /\ (Is("sweeping")' <=> Is("sweeping"))
  BY <1>1, <1>4, CalmSteps
<1>6. disposed' = disposed /\ c \in requested /\ place[c] # "pending"
      /\ ~Has("established", c) /\ ~Has("rejecting", c)
  BY <1>1, OpenedOnce, NewWindowIs DEF server, Birth, Untouched
<1>7. Touches(c) /\ Owns(c)
  BY <1>1, <1>2, <1>6, Still, RegistryStill DEF Touches
<1>8. Birth(c)'
  BY <1>1, <1>3, <1>4, <1>6 DEF Birth, Active, Quiet
<1>9. Life(c)'
  BY <1>1, <1>3, <1>4 DEF Life, HasEnd, Accepting, Active
<1>10. Slot(c)'
  BY <1>1, <1>3, <1>6 DEF Slot
<1>11. Told(c)'
  BY <1>1, <1>3, <1>4, <1>5, <1>6 DEF Told, HasEnd, Calm
<1> QED
  BY <1>4, <1>7, <1>8, <1>9, <1>10, <1>11, OneSub DEF Good

\* The source ends, or the application's part in it.
LEMMA TerminateKeeps ==
  ASSUME Inv, NEW c \in Subs, NEW terminal \in {"complete", "error"}, NEW below,
         Moves(c, below), Terminate(c, terminal, below),
         UNCHANGED <<status, server, watermark, registry, verdict, history>>,
         window[c].opened, out[c] # <<>>, ~Has("greeted", c),
         \A p : HasIn(ToSet(below), p, c) => Has(p, c),
         \A p : Has(p, c) => HasIn(ToSet(below), p, c) \/ p \in {"failed", "failing", "parsing"},
         DueIn(ToSet(below), c) <=> EndDue(c),
         SentIn(ToSet(below), c) <=> EndSent(c)
  PROVE  Inv'
<1> DEFINE B == ToSet(below)
           s == SessionOf(c)
           w == Recorded(window[c], terminal)
<1>1. /\ Typed /\ Good(c) /\ Birth(c) /\ Life(c) /\ Slot(c) /\ Told(c)
      /\ s \in Sessions /\ out[c] \in Seq(Messages) /\ window[c] \in WindowSet
  BY InvParts
<1>2. /\ c \in requested /\ place[c] # "pending"
      /\ \A p \in Speaking : ~Has(p, c)
  BY OpenedOnce
<1>3. /\ upstream' \in {upstream, upstream \cup {c}, upstream \ {c}}
      /\ \E x \in WindowSet : window' = [window EXCEPT ![c] = x]
      /\ \E x \in Seq(Messages) : out' = [out EXCEPT ![c] = x]
      /\ lost' \in {lost, lost \cup {c}}
      /\ \/ /\ ~Accepting(window[c]) /\ upstream' = upstream
            /\ window' = window /\ out' = out /\ lost' = lost
            /\ Leaves(c, B)
         \/ /\ Accepting(window[c]) /\ c \notin upstream'
            /\ window'[c] = w /\ out' = out /\ lost' = lost
            /\ \/ ~w.concluded /\ Leaves(c, B)
               \/ Makes(c, B, "detached", IF w.concluded THEN terminal ELSE "none")
         \/ /\ Accepting(window[c]) /\ c \notin upstream' /\ w.concluded
            /\ out'[c] = Append(out[c], terminal) /\ window'[c] = w
            /\ Makes(c, B, "sent", terminal) /\ lost' = lost
         \/ /\ Accepting(window[c]) /\ c \notin upstream' /\ w.concluded
            /\ c \in lost' /\ out' = out
            /\ window'[c] = [w EXCEPT !.closed = TRUE]
            /\ Makes(c, B, "closing", "")
  <2>1. DueIn(B, c) => window[c].concluded
    BY <1>1 DEF Life
  <2> QED
    BY <1>1, <2>1, TerminateDoes
<1>4. Talks(c)
  BY <1>1, <1>3, Still DEF Talks
<1>5. Moves(c, stack')
  BY <1>3 DEF Leaves, Makes
<1>6. Calm(s) /\ (Is("sweeping")' <=> Is("sweeping"))
  BY <1>1, <1>5, CalmSteps
<1>7. /\ place' = place /\ lease' = lease /\ live' = live /\ listeners' = listeners
      /\ verdict' = verdict /\ requested' = requested /\ left' = left
  BY DEF registry, history
<1>8. Listens(c)' <=> Listens(c)
  BY <1>7 DEF Listens
<1>9. /\ "sent" \notin Speaking /\ "closing" \notin Speaking /\ "detached" \notin Speaking
      /\ terminal \in Terminals /\ terminal \in Messages /\ terminal # "subscribed"
      /\ "none" \notin Terminals /\ terminal # "none"
  BY DEF Speaking, Messages, Terminals
<1>10. CASE /\ ~Accepting(window[c]) /\ upstream' = upstream
            /\ window' = window /\ out' = out /\ lost' = lost
            /\ Leaves(c, B)
  <2>1. /\ \A p : Has(p, c)' => Has(p, c)
        /\ \A p : Has(p, c) => Has(p, c)' \/ p \in {"failed", "failing", "parsing"}
        /\ EndDue(c)' <=> EndDue(c)
        /\ EndSent(c)' <=> EndSent(c)
    BY <1>10 DEF Leaves
  <2>2. Birth(c)'
    BY <1>2, <1>7, <1>10, <2>1, OpenedBirth
  <2>3. Life(c)'
    BY <1>1, <1>7, <1>10, <2>1 DEF Life, HasEnd, Active
  <2>4. Slot(c)'
    BY <1>1, <1>6, <1>7, <1>8, <1>10 DEF Slot
  <2>5. Told(c)'
    BY <1>1, <1>2, <1>6, <1>7, <1>10, <2>1 DEF Told, HasEnd, Calm, Speaking
  <2> QED
    BY <1>4, <1>5, <2>2, <2>3, <2>4, <2>5, OneTalks DEF Good
<1>11. ASSUME Accepting(window[c])
       PROVE  /\ ~window[c].closed /\ ~window[c].concluded
              /\ ~HasEnd(c) /\ ~EndDue(c) /\ ~EndSent(c) /\ place[c] = "consumer"
              /\ w.opened /\ ~w.closed /\ w.terminal = terminal
              /\ Protocol(out[c]) /\ ~Ended(out[c])
  <2>1. ~window[c].closed /\ ~window[c].concluded
    BY <1>11 DEF Accepting
  <2>2. ~HasEnd(c) /\ ~EndDue(c) /\ ~EndSent(c) /\ place[c] = "consumer" /\ Protocol(out[c])
    BY <1>1, <2>1 DEF Life
  <2>3. w.opened /\ ~w.closed /\ w.terminal = terminal
    BY <1>1, <2>1 DEF WindowSet, Recorded
  <2> QED
    BY <2>1, <2>2, <2>3 DEF HasEnd
<1> HIDE DEF w
<1>12. CASE /\ Accepting(window[c]) /\ c \notin upstream'
            /\ window'[c] = w /\ out' = out /\ lost' = lost
            /\ \/ ~w.concluded /\ Leaves(c, B)
               \/ Makes(c, B, "detached", IF w.concluded THEN terminal ELSE "none")
  <2>1. /\ \A p : Has(p, c)' => Has(p, c) \/ p = "detached"
        /\ \A p : Has(p, c) => Has(p, c)' \/ p \in {"failed", "failing", "parsing"}
        /\ EndDue(c)' <=> w.concluded
        /\ ~EndSent(c)'
    BY <1>9, <1>11, <1>12 DEF Leaves, Makes
  <2>2. Birth(c)'
    BY <1>2, <1>7, <1>9, <1>11, <1>12, <2>1, OpenedBirth
  <2>3. Life(c)'
    BY <1>1, <1>7, <1>9, <1>11, <1>12, <2>1 DEF Life, HasEnd, Active, Accepting
  <2>4. Slot(c)'
    BY <1>1, <1>2, <1>6, <1>7, <1>8, <1>11, <1>12 DEF Slot
  <2>5. Told(c)'
    BY <1>2, <1>7, <1>11, <1>12, <2>1 DEF Told, Speaking
  <2> QED
    BY <1>4, <1>5, <2>2, <2>3, <2>4, <2>5, OneTalks DEF Good
<1>13. CASE /\ Accepting(window[c]) /\ c \notin upstream' /\ w.concluded
            /\ out'[c] = Append(out[c], terminal) /\ window'[c] = w
            /\ Makes(c, B, "sent", terminal) /\ lost' = lost
  <2>1. /\ \A p : Has(p, c)' => Has(p, c) \/ p = "sent"
        /\ \A p : Has(p, c) => Has(p, c)' \/ p \in {"failed", "failing", "parsing"}
        /\ ~EndDue(c)' /\ EndSent(c)'
    BY <1>9, <1>11, <1>13 DEF Makes
  <2>2. Protocol(out'[c]) /\ Ended(out'[c]) /\ out'[c] # <<>>
    BY <1>1, <1>9, <1>11, <1>13, Said
  <2>3. Birth(c)'
    BY <1>2, <1>7, <1>9, <1>11, <1>13, <2>1, OpenedBirth
  <2>4. Life(c)'
    BY <1>1, <1>7, <1>9, <1>11, <1>13, <2>1, <2>2 DEF Life, HasEnd, Active, Accepting
  <2>5. Slot(c)'
    BY <1>1, <1>2, <1>6, <1>7, <1>8, <1>11, <1>13 DEF Slot
  <2>6. Told(c)'
    BY <1>2, <1>7, <1>11, <1>13, <2>1, <2>2 DEF Told, HasEnd, Speaking
  <2> QED
    BY <1>4, <1>5, <2>3, <2>4, <2>5, <2>6, OneTalks DEF Good
<1>14. CASE /\ Accepting(window[c]) /\ c \notin upstream' /\ w.concluded
            /\ c \in lost' /\ out' = out
            /\ window'[c] = [w EXCEPT !.closed = TRUE]
            /\ Makes(c, B, "closing", "")
  <2>1. /\ \A p : Has(p, c)' => Has(p, c) \/ p = "closing"
        /\ \A p : Has(p, c) => Has(p, c)' \/ p \in {"failed", "failing", "parsing"}
        /\ Has("closing", c)' /\ ~EndDue(c)' /\ ~EndSent(c)'
    BY <1>9, <1>11, <1>14 DEF Makes
  <2>2. window'[c].opened /\ window'[c].closed
    <3>1. w \in WindowSet
      BY <1>1 DEF WindowSet, Recorded, w
    <3> QED
      BY <1>11, <1>14, <3>1 DEF WindowSet
  <2>3. Birth(c)'
    BY <1>2, <1>7, <1>9, <2>1, <2>2, OpenedBirth
  <2>4. Life(c)'
    BY <1>1, <1>7, <1>11, <1>14, <2>1, <2>2 DEF Life, HasEnd, Active, Accepting
  <2>5. Slot(c)'
    BY <1>1, <1>2, <1>6, <1>7, <1>8, <2>2 DEF Slot
  <2>6. Told(c)'
    BY <1>2, <1>14, <2>1 DEF Told, Speaking
  <2> QED
    BY <1>4, <1>5, <2>3, <2>4, <2>5, <2>6, OneTalks DEF Good
<1> QED
  BY <1>3, <1>10, <1>12, <1>13, <1>14
LEMMA ActivePoints ==
  /\ Active \subseteq SubPoints /\ "closing" \in SubPoints /\ "aborting" \in SubPoints
  /\ Quiet \subseteq SubPoints /\ Speaking \subseteq SubPoints
  /\ {"greeted", "connecting"} \subseteq Active
  /\ {"failed", "failing", "sent", "detached", "parsing"} \subseteq Active
BY DEF SubPoints, Active

\* The call that goes on is about a subscription that was opened.
LEMMA GoesOpened ==
  ASSUME Inv, NEW at \in Active, NEW c \in Subs, Goes(c, at)
  PROVE  window[c].opened /\ out[c] # <<>> /\ Has(at, c)
<1>1. Has(at, c)
  BY DEF Goes
<1> QED
  BY <1>1, ActiveOpened

\* subscribed(0) is sent: the source is subscribed unless the window was closed.
LEMMA GreetedKeeps == ASSUME Inv, Greeted PROVE Inv'
<1>1. At("greeted") /\ "greeted" \in SubPoints /\ "greeted" \in Firsts /\ "greeted" \in Active
  BY ActivePoints DEF Greeted, Firsts
<1>2. PICK c \in Subs : Goes(c, "greeted")
  BY <1>1, TopIs
<1>3. /\ Typed /\ Good(c) /\ Birth(c) /\ Life(c) /\ Slot(c) /\ Told(c)
      /\ SessionOf(c) \in Sessions /\ window[c] \in WindowSet
  BY InvParts
<1>4. /\ \A p : HasIn(Below, p, c) => p \in Quiet
      /\ ~EndDue(c) /\ ~EndSent(c) /\ ~DueIn(Below, c) /\ ~SentIn(Below, c)
      /\ \A p : Has(p, c) <=> HasIn(Below, p, c) \/ p = "greeted"
      /\ Moves(c, Rest) /\ Top.sub = c
  BY <1>1, <1>2 DEF Goes
<1>5. window[c].opened /\ out[c] # <<>> /\ Has("greeted", c)
  BY <1>1, <1>2, GoesOpened
<1>6. c \in requested /\ place[c] # "pending" /\ \A p \in Speaking : ~Has(p, c)
  BY <1>5, OpenedOnce
<1>7. UNCHANGED <<status, server, watermark, registry, verdict, window, history, lost, out>>
  BY DEF Greeted
<1>8. CASE window[c].closed /\ stack' = Rest /\ UNCHANGED upstream
  <2>1. Leaves(c, Below)
    BY <1>4, <1>8, StackLeft DEF Below
  <2>2. window' = [window EXCEPT ![c] = window[c]]
    BY <1>3, <1>7 DEF Typed
  <2>3. /\ Moves(c, stack')
        /\ \A p : Has(p, c)' => Has(p, c)
        /\ \A p : Has(p, c) => Has(p, c)' \/ p = "greeted"
        /\ ~EndDue(c)' /\ ~EndSent(c)'
    BY <1>4, <2>1 DEF Leaves
  <2> QED
    BY <1>3, <1>4, <1>5, <1>7, <1>8, <2>2, <2>3, OnlyCalls
<1>9. CASE /\ ~window[c].closed /\ upstream' = upstream \cup {c}
           /\ stack' = Append(Rest, Frame("connecting", c, ""))
  <2>1. Makes(c, Below, "connecting", "")
    BY <1>4, <1>9, FirstMade DEF Below, Firsts, Args
  <2>2. /\ Moves(c, stack') /\ ~EndDue(c)' /\ ~EndSent(c)'
        /\ \A p : Has(p, c)' => p \in Quiet \/ p = "connecting"
        /\ Has("connecting", c)'
    BY <1>4, <2>1 DEF Makes
  <2>3. ~window[c].concluded /\ window[c].terminal = "none"
    BY <1>3, <1>4, <1>5, <1>9 DEF Life
  <2>4. Talks(c)
    BY <1>3, <1>7, <1>9, Still DEF Talks
  <2>5. Calm(SessionOf(c)) /\ (Is("sweeping")' <=> Is("sweeping"))
    BY <1>3, <1>7, <2>2, CalmSteps
  <2>6. Birth(c)'
    BY <1>5, <1>6, <1>7, <2>2, OpenedBirth DEF registry, history, Quiet, Speaking
  <2>7. Life(c)'
    BY <1>3, <1>4, <1>5, <1>7, <1>9, <2>2, <2>3 DEF Life, registry, HasEnd, Quiet, Active
  <2>8. Slot(c)'
    BY <1>3, <1>7, <2>5 DEF Slot, registry, Listens, Calm
  <2>9. Told(c)'
    BY <1>3, <1>4, <1>6, <1>7, <2>2, <2>5
       DEF Told, registry, history, HasEnd, Quiet, Speaking, Calm
  <2> QED
    BY <2>2, <2>4, <2>6, <2>7, <2>8, <2>9, OneTalks DEF Good
<1> QED
  BY <1>4, <1>8, <1>9 DEF Greeted

\* No source is subscribed for a retired session.
LEMMA GreetedInTime ==
  ASSUME Inv, Greeted, NEW c \in upstream' \ upstream
  PROVE  RetireReason(SessionOf(c)) = "none"
<1>1. At("greeted") /\ "greeted" \in SubPoints /\ "greeted" \in Firsts /\ "greeted" \in Active
  BY ActivePoints DEF Greeted, Firsts
<1>2. PICK b \in Subs : Goes(b, "greeted")
  BY <1>1, TopIs
<1>3. c = b /\ ~window[b].closed
  BY <1>2 DEF Greeted, Goes
<1>4. Typed /\ Nested(stack) /\ Retirement /\ Life(b) /\ Slot(b) /\ SessionOf(b) \in Sessions
  BY InvParts
<1>5. window[b].opened /\ ~EndDue(b) /\ ~EndSent(b)
  BY <1>1, <1>2, GoesOpened DEF Goes
<1>6. ~window[b].concluded
  BY <1>3, <1>4, <1>5 DEF Life
<1>7. listeners[SessionOf(b)] # <<>>
  <2>1. Listens(b)
    BY <1>3, <1>4, <1>5, <1>6 DEF Slot
  <2> QED
    BY <2>1, ValuesEmpty DEF Listens
<1>8. ~Dispatching(SessionOf(b))
  <2> SUFFICES ASSUME NEW f \in Frames, f.at = "dispatching", SessionOf(f.sub) = SessionOf(b)
               PROVE  FALSE
    BY DEF Dispatching
  <2>1. stack # <<>> /\ Top.at = "greeted" /\ Top.sub = b
    BY <1>2 DEF Goes
  <2>2. f \in Below
    BY <1>4, <2>1, TopPopped
  <2>3. Under(f, Top)
    BY <1>4, <2>1, <2>2, TopPopped
  <2> QED
    BY <2>1, <2>3 DEF Under
<1> QED
  BY <1>3, <1>4, <1>7, <1>8 DEF Retirement

\* The source was subscribed, or threw.
LEMMA ConnectedKeeps == ASSUME Inv, Connected PROVE Inv'
<1>1. At("connecting") /\ "connecting" \in SubPoints /\ "connecting" \in Firsts
      /\ "connecting" \in Active
  BY ActivePoints DEF Connected, Firsts
<1>2. PICK c \in Subs : Goes(c, "connecting")
  BY <1>1, TopIs
<1>3. /\ Typed /\ Good(c) /\ Birth(c) /\ Life(c) /\ Slot(c) /\ Told(c)
      /\ SessionOf(c) \in Sessions /\ window[c] \in WindowSet
  BY InvParts
<1>4. /\ \A p : HasIn(Below, p, c) => p \in Quiet
      /\ ~EndDue(c) /\ ~EndSent(c) /\ ~DueIn(Below, c) /\ ~SentIn(Below, c)
      /\ \A p : Has(p, c) <=> HasIn(Below, p, c) \/ p = "connecting"
      /\ Moves(c, Rest) /\ Top.sub = c
  BY <1>1, <1>2 DEF Goes
<1>5. window[c].opened /\ out[c] # <<>> /\ Has("connecting", c)
  BY <1>1, <1>2, GoesOpened
<1>6. c \in requested /\ place[c] # "pending" /\ \A p \in Speaking : ~Has(p, c)
  BY <1>5, OpenedOnce
<1>7. UNCHANGED <<status, server, watermark, registry, verdict, window, history, lost, out>>
  BY DEF Connected
<1>8. CASE stack' = Rest /\ UNCHANGED upstream
  <2>1. Leaves(c, Below)
    BY <1>4, <1>8, StackLeft DEF Below
  <2>2. window' = [window EXCEPT ![c] = window[c]]
    BY <1>3, <1>7 DEF Typed
  <2>3. /\ Moves(c, stack')
        /\ \A p : Has(p, c)' => Has(p, c)
        /\ \A p : Has(p, c) => Has(p, c)' \/ p = "connecting"
        /\ ~EndDue(c)' /\ ~EndSent(c)' /\ ~Has("greeted", c)
    BY <1>4, <2>1 DEF Leaves, Quiet
  <2> QED
    BY <1>3, <1>4, <1>5, <1>7, <1>8, <2>2, <2>3, OnlyCalls
<1>9. ASSUME NEW at \in {"failed", "failing"}, stack' = Append(Rest, Frame(at, c, "")),
             upstream' = upstream \ {c}
      PROVE  Inv'
  <2>1. Makes(c, Below, at, "")
    BY <1>4, <1>9, PlainMade DEF Below, Plain, Args
  <2>2. /\ Moves(c, stack') /\ ~EndDue(c)' /\ ~EndSent(c)'
        /\ \A p : Has(p, c)' => p \in Quiet \/ p = at
        /\ Has(at, c)'
    BY <1>4, <2>1 DEF Makes
  <2>3. Talks(c)
    BY <1>3, <1>7, <1>9, Still DEF Talks
  <2>4. Calm(SessionOf(c)) /\ (Is("sweeping")' <=> Is("sweeping"))
    BY <1>3, <1>7, <2>2, CalmSteps
  <2>5. Birth(c)'
    BY <1>5, <1>6, <1>7, <2>2, OpenedBirth DEF registry, history, Quiet, Speaking
  <2>6. Life(c)'
    <3>1. ~Has("closing", c)
      BY <1>4 DEF Quiet
    <3> QED
      BY <1>3, <1>4, <1>5, <1>7, <1>9, <2>2, <3>1
         DEF Life, registry, HasEnd, Quiet, Active
  <2>7. Slot(c)'
    BY <1>3, <1>7, <2>4 DEF Slot, registry, Listens, Calm
  <2>8. Told(c)'
    BY <1>3, <1>4, <1>6, <1>7, <2>2, <2>4
       DEF Told, registry, history, HasEnd, Quiet, Speaking, Calm
  <2> QED
    BY <2>2, <2>3, <2>5, <2>6, <2>7, <2>8, OneTalks DEF Good
<1> QED
  BY <1>4, <1>8, <1>9 DEF Connected

\* connect() failed, or an output does not fit its schema.
LEMMA FailedKeeps == ASSUME Inv, Failed PROVE Inv'
<1>1. PICK at \in {"failed", "failing"} : At(at)
  BY DEF Failed
<1>2. at \in SubPoints /\ at \in Active
  BY ActivePoints
<1>3. PICK c \in Subs : Goes(c, at)
  BY <1>1, <1>2, TopIs
<1>4. window[c].opened /\ out[c] # <<>> /\ Has(at, c) /\ Life(c)
  BY <1>2, <1>3, GoesOpened, InvParts
<1>5. ~Has("greeted", c)
  BY <1>4 DEF Life
<1>6. Terminate(c, "error", Rest) /\ "error" \in {"complete", "error"}
      /\ UNCHANGED <<status, server, watermark, registry, verdict, history>>
  BY <1>3 DEF Failed, Goes
<1>7. /\ Moves(c, Rest)
      /\ \A p : HasIn(ToSet(Rest), p, c) => Has(p, c)
      /\ \A p : Has(p, c) => HasIn(ToSet(Rest), p, c) \/ p \in {"failed", "failing", "parsing"}
      /\ DueIn(ToSet(Rest), c) <=> EndDue(c)
      /\ SentIn(ToSet(Rest), c) <=> EndSent(c)
  BY <1>3 DEF Goes, Below
<1> QED
  BY <1>4, <1>5, <1>6, <1>7, TerminateKeeps

\* A send returns.
LEMMA SentKeeps == ASSUME Inv, Sent PROVE Inv'
<1>1. At("sent") /\ "sent" \in SubPoints /\ "sent" \in Active
  BY ActivePoints DEF Sent
<1>2. PICK c \in Subs : Goes(c, "sent")
  BY <1>1, TopIs
<1>3. window[c].opened /\ out[c] # <<>> /\ Has("sent", c) /\ Life(c) /\ Typed
      /\ window[c] \in WindowSet
  BY <1>1, <1>2, GoesOpened, InvParts
<1>4. UNCHANGED <<status, server, watermark, registry, verdict, upstream, history, lost, out>>
  BY DEF Sent
<1>5. /\ Moves(c, Rest) /\ Top.sub = c
      /\ \A p : HasIn(Below, p, c) => Has(p, c)
      /\ \A p : Has(p, c) => HasIn(Below, p, c) \/ p = "sent"
      /\ DueIn(Below, c) <=> EndDue(c)
      /\ EndSent(c) <=> SentIn(Below, c) \/ Top.arg \in Terminals
  BY <1>2 DEF Goes
<1>6. CASE Top.arg \in Terminals
  <2>1. Close(c, window[c], Rest)
    BY <1>5, <1>6 DEF Sent
  <2>2. HasEnd(c)
    BY <1>3, <1>5, <1>6 DEF Life
  <2>3. Hears(c) /\ (Listens(c)' => Listens(c))
    BY <1>4, RegistryStill DEF registry, Listens
  <2>4. ~Has("opening", c)
    BY <1>3, OpenedOnce DEF Speaking
  <2>5. /\ UNCHANGED <<place, live, lease, requested>>
        /\ left' \in {left, left \cup {c}}
    BY <1>4 DEF registry, history
  <2> QED
    BY <1>3, <1>4, <1>5, <2>1, <2>2, <2>3, <2>4, <2>5, CloseKeeps DEF Below
<1>7. CASE Top.arg \notin Terminals
  <2>1. stack' = Rest /\ UNCHANGED window
    BY <1>7 DEF Sent
  <2>2. Leaves(c, Below)
    BY <1>5, <2>1, StackLeft DEF Below
  <2>3. window' = [window EXCEPT ![c] = window[c]]
    BY <1>3, <2>1 DEF Typed
  <2>4. /\ Moves(c, stack')
        /\ \A p : Has(p, c)' => Has(p, c)
        /\ \A p : Has(p, c) => Has(p, c)' \/ p = "sent"
        /\ EndDue(c)' <=> EndDue(c)
        /\ EndSent(c)' <=> EndSent(c)
    BY <1>5, <1>7, <2>2 DEF Leaves
  <2>5. /\ \A p : Has(p, c) => Has(p, c)'
                  \/ p \in {"sent", "detached", "parsing", "connecting", "greeted"}
        /\ Has("greeted", c) => Has("greeted", c)'
    BY <2>4
  <2> QED
    BY <1>3, <1>4, <2>3, <2>4, <2>5, OnlyCalls
<1> QED
  BY <1>6, <1>7

\* The teardown of the source returns into #terminate.
LEMMA DetachedKeeps == ASSUME Inv, Detached PROVE Inv'
<1>1. At("detached") /\ "detached" \in SubPoints /\ "detached" \in Active
  BY ActivePoints DEF Detached
<1>2. PICK c \in Subs : Goes(c, "detached")
  BY <1>1, TopIs
<1>3. window[c].opened /\ out[c] # <<>> /\ Has("detached", c) /\ Life(c) /\ Typed
      /\ window[c] \in WindowSet
  BY <1>1, <1>2, GoesOpened, InvParts
<1>4. UNCHANGED <<status, server, watermark, registry, verdict, upstream, history>>
  BY DEF Detached
<1>5. /\ Moves(c, Rest) /\ Top.sub = c
      /\ \A p : HasIn(Below, p, c) => Has(p, c)
      /\ \A p : Has(p, c) => HasIn(Below, p, c) \/ p = "detached"
      /\ EndDue(c) <=> DueIn(Below, c) \/ Top.arg \in Terminals
      /\ EndSent(c) <=> SentIn(Below, c)
      /\ Top.arg \in Terminals => ~DueIn(Below, c)
  BY <1>2 DEF Goes
<1>6. ~Has("greeted", c)
  BY <1>3 DEF Life
<1>7. CASE Top.arg \in Terminals
  <2>1. Send(c, Top.arg, window[c], Rest)
    BY <1>5, <1>7 DEF Detached
  <2>2. Top.arg \in Messages \ {"subscribed"}
    BY <1>7 DEF Messages, Terminals
  <2>3. window[c].concluded /\ ~HasEnd(c)
    BY <1>3, <1>5, <1>7 DEF Life
  <2>4. Hears(c) /\ (Listens(c)' <=> Listens(c))
    BY <1>4, RegistryStill DEF registry, Listens
  <2>5. UNCHANGED <<place, live, lease>>
    BY <1>4 DEF registry
  <2>6. c \in upstream => window[c].terminal = "none"
    BY <1>3 DEF Life
  <2> HIDE DEF Detached
  <2> QED
    BY <1>3, <1>4, <1>5, <1>6, <1>7, <2>1, <2>2, <2>3, <2>4, <2>5, <2>6, SendKeeps DEF Below
<1>8. CASE Top.arg \notin Terminals
  <2>1. stack' = Rest /\ UNCHANGED <<window, out, lost>>
    BY <1>8 DEF Detached
  <2>2. Leaves(c, Below)
    BY <1>5, <2>1, StackLeft DEF Below
  <2>3. window' = [window EXCEPT ![c] = window[c]]
    BY <1>3, <2>1 DEF Typed
  <2>4. /\ Moves(c, stack')
        /\ \A p : Has(p, c)' => Has(p, c)
        /\ \A p : Has(p, c) => Has(p, c)' \/ p = "detached"
        /\ EndDue(c)' <=> EndDue(c)
        /\ EndSent(c)' <=> EndSent(c)
    BY <1>5, <1>8, <2>2 DEF Leaves
  <2>5. /\ \A p : Has(p, c) => Has(p, c)'
                  \/ p \in {"sent", "detached", "parsing", "connecting", "greeted"}
        /\ Has("greeted", c) => Has("greeted", c)'
    BY <2>4
  <2> QED
    BY <1>3, <1>4, <2>1, <2>3, <2>4, <2>5, OnlyCalls
<1> QED
  BY <1>7, <1>8

\* #close gives the slot back.
LEMMA ClosingKeeps == ASSUME Inv, Closing PROVE Inv'
<1>1. At("closing") /\ "closing" \in SubPoints
  BY ActivePoints DEF Closing
<1>2. PICK c \in Subs : Goes(c, "closing")
  BY <1>1, TopIs
<1>3. /\ Typed /\ Good(c) /\ Birth(c) /\ Life(c) /\ Slot(c) /\ Told(c)
      /\ SessionOf(c) \in Sessions
  BY InvParts
<1>4. /\ UNCHANGED <<status, server, watermark, verdict, window, upstream, history, lost, out>>
      /\ Forget(c)
      /\ stack' = Append(Rest, Frame("aborting", c, ""))
  BY <1>2 DEF Closing, Goes
<1>5. requested' = requested /\ left' = left /\ disposed' = disposed
  BY <1>4 DEF history, server
<1>6. /\ \E x \in Places : place' = [place EXCEPT ![c] = x]
      /\ \E x \in Leases : lease' = [lease EXCEPT ![c] = x]
      /\ place'[c] = "none" /\ lease'[c] # "held"
      /\ lease'[c] = "none" <=> lease[c] = "none"
      /\ ~Listens(c)' /\ Hears(c) /\ Owns(c)
  BY <1>4, <1>5, ForgetDoes
<1>7. Makes(c, Below, "aborting", "")
  BY <1>2, <1>4, PlainMade DEF Below, Plain, Args, Goes
<1>8. /\ Moves(c, stack') /\ Has("closing", c)
      /\ \A p : Has(p, c)' => Has(p, c) \/ p = "aborting"
      /\ \A p : Has(p, c) => Has(p, c)' \/ p = "closing"
      /\ Has("aborting", c)'
      /\ EndDue(c)' <=> EndDue(c)
      /\ EndSent(c)' <=> EndSent(c)
  BY <1>2, <1>7 DEF Makes, Goes
<1>9. window[c].closed /\ place[c] # "pending" /\ c \in requested
      /\ ~Has("established", c) /\ ~Has("rejecting", c)
  BY <1>1, <1>3, <1>8 DEF Birth, Life, Quiet
<1>10. Calm(SessionOf(c)) /\ (Is("sweeping")' <=> Is("sweeping"))
  BY <1>3, <1>4, <1>8, CalmSteps
<1>11. Touches(c)
  BY <1>3, <1>4, <1>5, <1>6, Still DEF Touches
<1>12. Birth(c)'
  BY <1>3, <1>4, <1>5, <1>6, <1>8, <1>9 DEF Birth, Active, Quiet
<1>13. Life(c)'
  BY <1>3, <1>4, <1>6, <1>8, <1>9 DEF Life, HasEnd, Active
<1>14. Slot(c)'
  BY <1>4, <1>6, <1>9 DEF Slot
<1>15. Told(c)'
  BY <1>3, <1>4, <1>5, <1>6, <1>8, <1>9, <1>10 DEF Told, HasEnd, Calm
<1> QED
  BY <1>6, <1>8, <1>11, <1>12, <1>13, <1>14, <1>15, OneSub DEF Good

\* The abort listeners of the source's context were called.
LEMMA AbortingKeeps == ASSUME Inv, Aborting PROVE Inv'
<1>1. At("aborting") /\ "aborting" \in SubPoints
  BY ActivePoints DEF Aborting
<1>2. PICK c \in Subs : Goes(c, "aborting")
  BY <1>1, TopIs
<1>3. /\ Typed /\ Good(c) /\ Birth(c) /\ Life(c) /\ Slot(c) /\ Told(c)
      /\ SessionOf(c) \in Sessions
  BY InvParts
<1>4. /\ UNCHANGED <<status, server, watermark, registry, verdict, window, history, lost, out>>
      /\ upstream' = upstream \ {c}
      /\ stack' = IF c \in upstream THEN Append(Rest, Frame("done", c, "")) ELSE Rest
  BY <1>2 DEF Aborting, Goes
<1>5. /\ Moves(c, stack') /\ Has("aborting", c)
      /\ \A p : Has(p, c)' => Has(p, c) \/ p = "done"
      /\ \A p : Has(p, c) => Has(p, c)' \/ p = "aborting"
      /\ EndDue(c)' <=> EndDue(c)
      /\ EndSent(c)' <=> EndSent(c)
  <2>1. CASE c \in upstream
    <3>1. Makes(c, Below, "done", "")
      BY <1>2, <1>4, <2>1, PlainMade DEF Below, Plain, Quiet, Args, Goes
    <3> QED
      BY <1>2, <3>1 DEF Makes, Goes
  <2>2. CASE c \notin upstream
    <3>1. Leaves(c, Below)
      BY <1>2, <1>4, <2>2, StackLeft DEF Below, Goes
    <3> QED
      BY <1>2, <3>1 DEF Leaves, Goes
  <2> QED
    BY <2>1, <2>2
<1>6. window[c].closed /\ place[c] # "pending" /\ c \in requested
      /\ ~Has("established", c) /\ ~Has("rejecting", c)
  BY <1>1, <1>3, <1>5 DEF Birth, Life, Quiet
<1>7. Calm(SessionOf(c)) /\ (Is("sweeping")' <=> Is("sweeping"))
  BY <1>3, <1>4, <1>5, CalmSteps
<1>8. Talks(c)
  BY <1>3, <1>4, Still DEF Talks
<1>9. Birth(c)'
  BY <1>3, <1>4, <1>5, <1>6 DEF Birth, registry, history, Listens, Active, Quiet
<1>10. Life(c)'
  BY <1>3, <1>4, <1>5, <1>6 DEF Life, registry, HasEnd, Active, Accepting
<1>11. Slot(c)'
  BY <1>3, <1>4, <1>7 DEF Slot, registry, Listens, Calm
<1>12. Told(c)'
  BY <1>3, <1>4, <1>5, <1>7 DEF Told, registry, history, HasEnd, Calm
<1> QED
  BY <1>5, <1>8, <1>9, <1>10, <1>11, <1>12, OneTalks DEF Good

\* A value of the source is handed to the application's schema.
LEMMA EmitKeeps == ASSUME Inv, NEW c \in Subs, Emit(c) PROVE Inv'
<1>1. /\ c \in upstream /\ stack' = Append(stack, Frame("parsing", c, ""))
      /\ UNCHANGED <<status, server, watermark, registry, verdict, window, upstream,
                     history, lost, out>>
  BY DEF Emit
<1>2. window[c].opened /\ out[c] # <<>> /\ Life(c) /\ Typed /\ Nested(stack)
      /\ window[c] \in WindowSet
  BY <1>1, ActiveOpened, InvParts
<1>3. ~Has("greeted", c)
  BY <1>1, <1>2 DEF Life
<1>4. Makes(c, Frames, "parsing", "")
  BY <1>1, <1>2, StackStays, PlainMade DEF Plain, Args, Frames
<1>5. /\ Moves(c, stack')
      /\ \A p : Has(p, c)' <=> Has(p, c) \/ p = "parsing"
      /\ EndDue(c)' <=> EndDue(c)
      /\ EndSent(c)' <=> EndSent(c)
  BY <1>4 DEF Makes, Has, EndDue, EndSent
<1>6. window' = [window EXCEPT ![c] = window[c]]
  BY <1>1, <1>2 DEF Typed
<1> QED
  BY <1>1, <1>2, <1>3, <1>5, <1>6, OnlyCalls

\* The value is parsed, and the window takes it or not.
LEMMA ParsedKeeps == ASSUME Inv, Parsed PROVE Inv'
<1>1. At("parsing") /\ "parsing" \in SubPoints /\ "parsing" \in Active
  BY ActivePoints DEF Parsed
<1>2. PICK c \in Subs : Goes(c, "parsing")
  BY <1>1, TopIs
<1> DEFINE w == window[c]
<1>3. w.opened /\ out[c] # <<>> /\ Has("parsing", c) /\ Life(c) /\ Typed /\ w \in WindowSet
  BY <1>1, <1>2, GoesOpened, InvParts
<1>4. UNCHANGED <<status, server, watermark, registry, verdict, history>>
  BY DEF Parsed
<1>5. /\ Moves(c, Rest) /\ Top.sub = c
      /\ \A p : HasIn(Below, p, c) => Has(p, c)
      /\ \A p : Has(p, c) => HasIn(Below, p, c) \/ p = "parsing"
      /\ DueIn(Below, c) <=> EndDue(c)
      /\ SentIn(Below, c) <=> EndSent(c)
  BY <1>2 DEF Goes
<1>6. ~Has("greeted", c)
  BY <1>3 DEF Life
<1>7. ASSUME NEW v \in WindowSet, window' = [window EXCEPT ![c] = v],
             v.opened, v.closed = w.closed, v.concluded = w.concluded,
             v.terminal = w.terminal, UNCHANGED <<upstream, lost, out>>,
             stack' = Rest \/ stack' = Append(Rest, Frame("failed", c, ""))
      PROVE  Inv'
  <2>1. /\ Moves(c, stack')
        /\ \A p : Has(p, c)' => Has(p, c) \/ p = "failed"
        /\ \A p : Has(p, c) => Has(p, c)' \/ p = "parsing"
        /\ EndDue(c)' <=> EndDue(c)
        /\ EndSent(c)' <=> EndSent(c)
    <3>1. CASE stack' = Rest
      <4>1. Leaves(c, Below)
        BY <1>5, <3>1, StackLeft DEF Below
      <4> QED
        BY <1>5, <4>1 DEF Leaves
    <3>2. CASE stack' = Append(Rest, Frame("failed", c, ""))
      <4>1. Makes(c, Below, "failed", "")
        BY <1>5, <3>2, PlainMade DEF Below, Plain, Args
      <4> QED
        BY <1>5, <4>1 DEF Makes
    <3> QED
      BY <1>7, <3>1, <3>2
  <2> QED
    BY <1>3, <1>4, <1>6, <1>7, <2>1, OnlyCalls
<1>8. window' = window => window' = [window EXCEPT ![c] = w]
  BY <1>3 DEF Typed
<1>9. CASE ~Accepting(w) /\ stack' = Rest /\ UNCHANGED <<upstream, window, lost, out>>
  BY <1>3, <1>7, <1>8, <1>9
<1>10. CASE /\ Accepting(w) /\ ~w.inFlight
            /\ Send(c, "batch", [w EXCEPT !.inFlight = TRUE], Rest)
            /\ UNCHANGED upstream
  <2> DEFINE v == [w EXCEPT !.inFlight = TRUE]
  <2>1. /\ v \in WindowSet /\ v.opened /\ v.closed = w.closed /\ v.concluded = w.concluded
        /\ v.terminal = w.terminal
    BY <1>3 DEF WindowSet
  <2>2. Send(c, "batch", v, Rest)
    BY <1>10
  <2> HIDE DEF v
  <2>3. "batch" \in Messages \ {"subscribed"} /\ "batch" \notin Terminals
    BY DEF Messages, Terminals
  <2>4. ~w.concluded /\ w.terminal = "none" /\ ~HasEnd(c) /\ (Accepting(v) => Accepting(w))
    BY <1>3, <1>10 DEF Accepting, Life
  <2>5. Hears(c) /\ (Listens(c)' <=> Listens(c)) /\ UNCHANGED <<place, live, lease>>
    BY <1>4, RegistryStill DEF registry, Listens
  <2>6. UNCHANGED upstream
    BY <1>10
  <2> QED
    BY <1>3, <1>4, <1>5, <2>1, <2>2, <2>3, <2>4, <2>5, <2>6, SendKeeps DEF Below
<1>11. CASE /\ Accepting(w) /\ w.inFlight
            /\ window' = [window EXCEPT ![c].queued = TRUE]
            /\ stack' = Rest
            /\ UNCHANGED <<upstream, lost, out>>
  <2> DEFINE v == [w EXCEPT !.queued = TRUE]
  <2>1. /\ v \in WindowSet /\ v.opened /\ v.closed = w.closed /\ v.concluded = w.concluded
        /\ v.terminal = w.terminal
    BY <1>3 DEF WindowSet
  <2>2. window' = [window EXCEPT ![c] = v]
    BY <1>11
  <2> HIDE DEF v
  <2> QED
    BY <1>7, <1>11, <2>1, <2>2
<1>12. CASE w.queued /\ Terminate(c, "error", Rest)
  <2>1. /\ \A p : Has(p, c) => HasIn(ToSet(Rest), p, c) \/ p \in {"failed", "failing", "parsing"}
        /\ "error" \in {"complete", "error"}
    BY <1>5 DEF Below
  <2> QED
    BY <1>3, <1>4, <1>5, <1>6, <1>12, <2>1, TerminateKeeps DEF Below
<1>13. CASE /\ stack' = Append(Rest, Frame("failed", c, ""))
            /\ UNCHANGED <<upstream, window, lost, out>>
  BY <1>3, <1>7, <1>8, <1>13
<1> QED
  BY <1>5, <1>9, <1>10, <1>11, <1>12, <1>13 DEF Parsed

\* The source completes or fails.
LEMMA EndKeeps ==
  ASSUME Inv, NEW c \in Subs, NEW terminal \in {"complete", "error"}, End(c, terminal)
  PROVE  Inv'
<1>1. /\ c \in upstream /\ Terminate(c, terminal, stack)
      /\ UNCHANGED <<status, server, watermark, registry, verdict, history>>
  BY DEF End
<1>2. window[c].opened /\ out[c] # <<>> /\ Life(c) /\ Typed /\ Nested(stack)
  BY <1>1, ActiveOpened, InvParts
<1>3. ~Has("greeted", c) /\ Moves(c, stack)
  BY <1>1, <1>2, StackStays DEF Life
<1>4. /\ \A p : HasIn(ToSet(stack), p, c) <=> Has(p, c)
      /\ DueIn(ToSet(stack), c) <=> EndDue(c)
      /\ SentIn(ToSet(stack), c) <=> EndSent(c)
  BY DEF Has, EndDue, EndSent, Frames
<1> QED
  BY <1>1, <1>2, <1>3, <1>4, TerminateKeeps

\* A batch is acknowledged.
LEMMA AckKeeps == ASSUME Inv, NEW c \in Subs, Ack(c) PROVE Inv'
<1> DEFINE w == window[c]
<1>1. /\ place[c] = "consumer" /\ w.inFlight /\ ~w.closed /\ ~w.concluded
      /\ UNCHANGED <<status, server, watermark, registry, verdict, upstream, history>>
  BY DEF Ack
<1>2. Typed /\ Nested(stack) /\ Birth(c) /\ Life(c) /\ w \in WindowSet
  BY InvParts
<1>3. w.opened
  BY <1>1, <1>2 DEF Birth
<1>4. out[c] # <<>> /\ ~HasEnd(c) /\ ~EndDue(c)
  BY <1>1, <1>2, <1>3 DEF Life
<1>5. /\ Moves(c, stack)
      /\ \A p : HasIn(ToSet(stack), p, c) <=> Has(p, c)
      /\ DueIn(ToSet(stack), c) <=> EndDue(c)
      /\ SentIn(ToSet(stack), c) <=> EndSent(c)
  BY <1>2, StackStays DEF Has, EndDue, EndSent, Frames
<1>6. Hears(c) /\ (Listens(c)' <=> Listens(c)) /\ UNCHANGED <<place, live, lease>>
  BY <1>1, RegistryStill DEF registry, Listens
<1>7. c \in upstream \/ Has("greeted", c) => w.terminal = "none"
  BY <1>2 DEF Life
<1>8. CASE w.queued /\ Send(c, "batch", [w EXCEPT !.queued = FALSE], stack)
  <2> DEFINE v == [w EXCEPT !.queued = FALSE]
  <2>1. /\ v \in WindowSet /\ v.opened /\ v.closed = w.closed /\ v.concluded = w.concluded
        /\ v.terminal = w.terminal
    BY <1>2, <1>3 DEF WindowSet
  <2>2. Send(c, "batch", v, stack)
    BY <1>8
  <2> HIDE DEF v
  <2>3. "batch" \in Messages \ {"subscribed"} /\ "batch" \notin Terminals
    BY DEF Messages, Terminals
  <2>4. Accepting(v) => Accepting(w)
    BY <2>1 DEF Accepting
  <2> QED
    BY <1>1, <1>3, <1>4, <1>5, <1>6, <1>7, <2>1, <2>2, <2>3, <2>4, SendKeeps
<1>9. CASE /\ ~w.queued /\ w.terminal # "none"
           /\ Send(c, w.terminal, [w EXCEPT !.inFlight = FALSE, !.concluded = TRUE], stack)
  <2> DEFINE v == [w EXCEPT !.inFlight = FALSE, !.concluded = TRUE]
  <2>1. /\ v \in WindowSet /\ v.opened /\ v.closed = w.closed /\ v.concluded
        /\ v.terminal = w.terminal
    BY <1>2, <1>3 DEF WindowSet
  <2>2. Send(c, w.terminal, v, stack)
    BY <1>9
  <2> HIDE DEF v
  <2>3. w.terminal \in Messages \ {"subscribed"} /\ w.terminal \in Terminals
    BY <1>2, <1>9 DEF Messages, Terminals, WindowSet
  <2>4. ~Accepting(v)
    BY <2>1 DEF Accepting
  <2> QED
    BY <1>1, <1>3, <1>4, <1>5, <1>6, <1>7, <1>9, <2>1, <2>2, <2>3, <2>4, SendKeeps
<1>10. CASE /\ ~w.queued /\ w.terminal = "none"
            /\ window' = [window EXCEPT ![c].inFlight = FALSE]
            /\ UNCHANGED <<stack, out, lost>>
  <2> DEFINE v == [w EXCEPT !.inFlight = FALSE]
  <2>1. /\ v \in WindowSet /\ v.opened /\ v.closed = w.closed /\ v.concluded = w.concluded
        /\ v.terminal = w.terminal
    BY <1>2, <1>3 DEF WindowSet
  <2>2. window' = [window EXCEPT ![c] = v]
    BY <1>10
  <2> HIDE DEF v
  <2>3. Leaves(c, ToSet(stack))
    BY <1>5, <1>10, StackLeft
  <2>4. /\ Moves(c, stack')
        /\ \A p : Has(p, c)' <=> Has(p, c)
        /\ EndDue(c)' <=> EndDue(c)
        /\ EndSent(c)' <=> EndSent(c)
    BY <1>5, <2>3 DEF Leaves
  <2> QED
    BY <1>1, <1>3, <1>4, <1>10, <2>1, <2>2, <2>4, OnlyCalls
<1> QED
  BY <1>8, <1>9, <1>10 DEF Ack

\* The Renderer unsubscribes.
LEMMA UnsubscribeKeeps == ASSUME Inv, NEW c \in Subs, Unsubscribe(c) PROVE Inv'
<1>1. /\ left' = left \cup {c}
      /\ UNCHANGED <<status, server, watermark, verdict, upstream, requested, lost, out>>
  BY DEF Unsubscribe
<1>2. /\ Typed /\ Nested(stack) /\ Birth(c) /\ Life(c) /\ Slot(c) /\ Told(c)
      /\ SessionOf(c) \in Sessions
  BY InvParts
<1>3. /\ Moves(c, stack)
      /\ \A p : HasIn(ToSet(stack), p, c) <=> Has(p, c)
      /\ DueIn(ToSet(stack), c) <=> EndDue(c)
      /\ SentIn(ToSet(stack), c) <=> EndSent(c)
  BY <1>2, StackStays DEF Has, EndDue, EndSent, Frames
<1>4. disposed' = disposed
  BY <1>1 DEF server
<1>5. CASE /\ place[c] = "pending"
           /\ Forget(c)
           /\ stack' = Append(stack, Frame("done", c, ""))
           /\ UNCHANGED window
  <2>1. /\ \E x \in Places : place' = [place EXCEPT ![c] = x]
        /\ \E x \in Leases : lease' = [lease EXCEPT ![c] = x]
        /\ place'[c] = "none" /\ lease'[c] # "held"
        /\ ~Listens(c)' /\ Hears(c) /\ Owns(c)
    BY <1>4, <1>5, ForgetDoes
  <2>2. Makes(c, ToSet(stack), "done", "")
    BY <1>3, <1>5, PlainMade DEF Plain, Quiet, Args
  <2>3. /\ Moves(c, stack')
        /\ \A p : Has(p, c)' <=> Has(p, c) \/ p = "done"
        /\ EndDue(c)' <=> EndDue(c)
        /\ EndSent(c)' <=> EndSent(c)
    BY <1>3, <2>2 DEF Makes
  <2>4. c \in requested /\ (\A p \in SubPoints : Has(p, c) => p \in Quiet)
    BY <1>2, <1>5 DEF Birth, Untouched
  <2>5. Touches(c)
    BY <1>1, <1>2, <1>5, <2>1, Still DEF Touches
  <2>6. Birth(c)'
    BY <1>1, <1>2, <1>5, <2>1, <2>3, <2>4 DEF Birth, Active, Quiet, SubPoints, Speaking
  <2>7. Life(c)'
    BY <1>1, <1>2, <1>5, <2>1, <2>3, <2>4 DEF Life, HasEnd, Birth, Active
  <2>8. Slot(c)'
    BY <1>2, <1>5, <2>1 DEF Slot, Birth
  <2>9. Told(c)'
    BY <1>1 DEF Told
  <2> QED
    BY <2>1, <2>3, <2>5, <2>6, <2>7, <2>8, <2>9, OneSub DEF Good
<1>6. CASE /\ place[c] = "consumer"
           /\ Close(c, window[c], stack)
           /\ UNCHANGED registry
  <2>1. Hears(c) /\ (Listens(c)' => Listens(c)) /\ UNCHANGED <<place, live, lease>>
    BY <1>6, RegistryStill DEF registry, Listens
  <2>2. c \in left' /\ left' \in {left, left \cup {c}}
    BY <1>1
  <2> QED
    BY <1>1, <1>3, <1>6, <2>1, <2>2, CloseKeeps
<1> QED
  BY <1>5, <1>6 DEF Unsubscribe
-----------------------------------------------------------------------------
(* Retirement and dispose() *)

\* A step of the calls that are about no subscription.
LEMMA OtherCalls ==
  ASSUME Inv,
         UNCHANGED <<hasAuthorize, watermark, registry, verdict, window, upstream, history,
                     lost, out>>,
         status' \in [Sessions -> {"fresh", "current", "closing"} \cup AllReasons],
         disposed' \in BOOLEAN, disposed => disposed',
         stack' \in Seq(FrameSet), \A f \in Frames' : FrameOK(f), Nested(stack'),
         Retirement',
         \A f \in Frames : f.sub \in Subs => f \in Frames',
         \A f \in Frames' : f.sub \in Subs => f \in Frames,
         \A d \in Subs : Onward(d)
  PROVE  Inv'
<1>1. /\ Typed /\ Heard /\ LiveOwns /\ \A c \in Subs : Good(c)
  BY DEF Inv
<1>2. /\ place' = place /\ lease' = lease /\ live' = live /\ listeners' = listeners
      /\ requested' = requested /\ left' = left
  BY DEF registry, history
<1>3. Typed'
  BY <1>1, <1>2 DEF Typed, FrameOK
<1>4. Heard' /\ LiveOwns'
  BY <1>1, <1>2 DEF Heard, LiveOwns, OpenIn
<1>5. ASSUME NEW d \in Subs PROVE Good(d)'
  <2>1. /\ \A f \in Frames : f.sub = d => f \in Frames'
        /\ \A f \in Frames' : f.sub = d => f \in Frames
    OBVIOUS
  <2>2. /\ \A at : Has(at, d)' <=> Has(at, d)
        /\ EndDue(d)' <=> EndDue(d)
        /\ EndSent(d)' <=> EndSent(d)
    BY <2>1 DEF Has, HasIn, EndDue, DueIn, EndSent, SentIn
  <2>3. Same(d)
    BY <1>2, <2>2 DEF Same, Listens
  <2> QED
    BY <1>1, <1>5, <2>3, SameGood
<1>6. Nested(stack)'
  BY DEF Nested, Under, Due, ForDispose
<1> QED
  BY <1>3, <1>4, <1>5, <1>6 DEF Inv

\* A current session starts to be retired.
LEMMA RetiringKeeps ==
  ASSUME Inv, NEW s \in Sessions, status[s] = "current", NEW reason \in AllReasons,
         reason = "dispose" => Is("disposing"),
         Retiring(s, reason, stack),
         UNCHANGED <<server, watermark, registry, verdict, window, upstream, history,
                     lost, out>>
  PROVE  Inv'
<1> DEFINE g == Frame("retiring", <<s, 0>>, reason)
<1>1. /\ Typed /\ Nested(stack) /\ Retirement
  BY DEF Inv
<1>2. g \in FrameSet /\ FrameOK(g) /\ g.at = "retiring" /\ g.sub = <<s, 0>> /\ g.arg = reason
  BY SessionFrame
<1>3. status' = [status EXCEPT ![s] = "closing"] /\ stack' = Append(stack, g)
  BY DEF Retiring
<1> HIDE DEF g
<1>4. SessionOf(<<s, 0>>) = s /\ <<s, 0>> \notin Subs
  BY SessionMark, SubParts
<1>5. /\ status \in [Sessions -> {"fresh", "current", "closing"} \cup AllReasons]
      /\ stack \in Seq(FrameSet) /\ \A f \in Frames : FrameOK(f)
      /\ disposed \in BOOLEAN
  BY <1>1 DEF Typed
<1>6. \A f \in Frames : f.at \in {"retiring", "dispatching"} =>
        SessionOf(f.sub) \in Sessions /\ SessionOf(f.sub) # s /\ f.sub # <<s, 0>>
  <2> SUFFICES ASSUME NEW f \in Frames, f.at \in {"retiring", "dispatching"}
               PROVE  SessionOf(f.sub) \in Sessions /\ SessionOf(f.sub) # s
    BY <1>4
  <2>1. f.sub \in Sessions \X {0} /\ f.arg \in AllReasons
    BY <1>5 DEF FrameOK
  <2>2. SessionOf(f.sub) \in Sessions
    BY <2>1 DEF SessionOf
  <2>3. status[SessionOf(f.sub)] \in {"closing"} \cup AllReasons
    BY <1>1, <2>1 DEF Retirement
  <2> QED
    BY <2>2, <2>3 DEF AllReasons
<1>7. Append(stack, g) \in Seq(FrameSet) /\ Frames' = Frames \cup {g} /\ Nested(stack')
  <2>1. \A f \in Frames : Under(f, g)
    BY <1>2, <1>6, PointsAre DEF Under, Due, Speaking, Whole
  <2> QED
    BY <1>1, <1>2, <1>3, <1>5, <2>1, OnePushed DEF Frames
<1>8. /\ \A r \in Sessions : r # s => status'[r] = status[r]
      /\ status'[s] = "closing"
      /\ status' \in [Sessions -> {"fresh", "current", "closing"} \cup AllReasons]
      /\ disposed' = disposed /\ hasAuthorize' = hasAuthorize
  <2> DEFINE T == {"fresh", "current", "closing"} \cup AllReasons
  <2>1. status \in [Sessions -> T] /\ "closing" \in T
    BY <1>5
  <2> HIDE DEF T
  <2>2. /\ \A r \in Sessions : r # s => status'[r] = status[r]
        /\ status'[s] = "closing"
        /\ status' \in [Sessions -> T]
    BY <1>3, <2>1
  <2> QED
    BY <2>2 DEF T, server
<1>9. /\ \A r \in Sessions : RetireReason(r)' = RetireReason(r)
      /\ \A r \in Sessions : status'[r] = "dispose" <=> status[r] = "dispose"
  BY <1>8 DEF RetireReason, AllReasons
<1>10. /\ Is("disposing")' <=> Is("disposing")
       /\ Is("sweeping")' <=> Is("sweeping")
       /\ \A r : Dispatching(r)' <=> Dispatching(r)
  BY <1>2, <1>7 DEF Is, Dispatching
<1>11. \A f \in Frames : f.at \in {"notify", "noticed"} => SessionOf(f.sub) \in Sessions
  BY <1>5, SubParts, PointsAre DEF FrameOK, SubPoints, Speaking
<1>12. Retirement'
  <2>1. /\ \A f \in Frames' : f.at \in Whole => disposed'
        /\ \A f \in Frames' : ForDispose(f) => Is("disposing")'
        /\ disposed' => Is("disposing")' \/ \A r \in Sessions : status'[r] # "current"
    BY <1>1, <1>2, <1>7, <1>8, <1>10 DEF Retirement, Whole, ForDispose
  <2>2. /\ \A f \in Frames' : f.at = "retiring" => status'[SessionOf(f.sub)] = "closing"
        /\ \A f \in Frames' : f.at = "dispatching" => status'[SessionOf(f.sub)] = f.arg
    BY <1>1, <1>2, <1>4, <1>6, <1>7, <1>8 DEF Retirement
  <2>3. \A f \in Frames' : f.at \in {"notify", "noticed"} /\ f.arg = "retired" =>
          RetireReason(SessionOf(f.sub))' # "none"
    BY <1>1, <1>2, <1>7, <1>9, <1>11 DEF Retirement
  <2>4. \A r \in Sessions : RetireReason(r)' # "none" /\ listeners'[r] # <<>> =>
          Dispatching(r)'
    BY <1>1, <1>9, <1>10 DEF Retirement, registry
  <2> QED
    BY <2>1, <2>2, <2>3, <2>4 DEF Retirement, ForDispose
<1>13. \A d \in Subs : Onward(d)
  BY <1>8, <1>9, <1>10, SubParts DEF Onward, Overtaken, registry
<1>14. /\ \A f \in Frames : f.sub \in Subs => f \in Frames'
       /\ \A f \in Frames' : f.sub \in Subs => f \in Frames
  BY <1>2, <1>4, <1>7
<1>15. \A f \in Frames' : FrameOK(f)
  BY <1>2, <1>5, <1>7
<1>16. /\ UNCHANGED <<hasAuthorize, watermark, registry, verdict, window, upstream, history,
                      lost, out>>
       /\ disposed' \in BOOLEAN /\ (disposed => disposed')
       /\ stack' \in Seq(FrameSet)
  BY <1>3, <1>5, <1>7, <1>8
<1> QED
  BY <1>7, <1>8, <1>12, <1>13, <1>14, <1>15, <1>16, OtherCalls

LEMMA RetireKeeps ==
  ASSUME Inv, NEW s \in Sessions, NEW reason \in Reasons \ {"dispose"}, Retire(s, reason)
  PROVE  Inv'
BY RetiringKeeps, OptionsAssumption DEF Retire

LEMMA TopSession ==
  ASSUME Inv, NEW at \in {"retiring", "dispatching"}, At(at)
  PROVE  /\ stack # <<>> /\ Top.at = at /\ Top \in Frames
         /\ Top.arg \in AllReasons
         /\ SessionOf(Top.sub) \in Sessions /\ Top.sub = <<SessionOf(Top.sub), 0>>
<1>1. stack # <<>> /\ Top.at = at
  BY DEF At
<1>2. FrameOK(Top) /\ Top \in Frames
  BY <1>1, TopPopped DEF Inv
<1>3. Top.sub \in Sessions \X {0} /\ Top.arg \in AllReasons
  BY <1>1, <1>2 DEF FrameOK
<1> QED
  BY <1>1, <1>2, <1>3 DEF SessionOf

\* The reason is set and the listeners are going to be called.
LEMMA RetiredKeeps == ASSUME Inv, Retired PROVE Inv'
<1> DEFINE s == SessionOf(Top.sub)
           g == Frame("dispatching", Top.sub, Top.arg)
<1>1. At("retiring") /\ status' = [status EXCEPT ![s] = Top.arg]
      /\ stack' = Append(Rest, g)
      /\ UNCHANGED <<server, watermark, registry, verdict, window, upstream, history,
                     lost, out>>
  BY DEF Retired
<1>2. /\ stack # <<>> /\ Top.at = "retiring" /\ Top \in Frames
      /\ Top.arg \in AllReasons /\ s \in Sessions /\ Top.sub = <<s, 0>>
  BY <1>1, TopSession
<1>3. Typed /\ Nested(stack) /\ Retirement
  BY DEF Inv
<1>4. PICK r \in Sessions : r = s
  BY <1>2
<1>5. PICK reason \in AllReasons : reason = Top.arg
  BY <1>2
<1>6. Top.sub = <<r, 0>> /\ SessionOf(<<r, 0>>) = r /\ <<r, 0>> \notin Subs
  BY <1>2, <1>4, SessionMark, SubParts
<1>7. g \in FrameSet /\ FrameOK(g) /\ g.at = "dispatching" /\ g.sub = <<r, 0>>
      /\ g.arg = reason
  BY <1>4, <1>5, <1>6, SessionFrame
<1> HIDE DEF g
<1>8. /\ status' = [status EXCEPT ![r] = reason] /\ stack' = Append(Rest, g)
  BY <1>1, <1>4, <1>5
<1>9. /\ status \in [Sessions -> {"fresh", "current", "closing"} \cup AllReasons]
      /\ disposed \in BOOLEAN /\ \A f \in Frames : FrameOK(f)
  BY <1>3 DEF Typed
<1>10. /\ Rest \in Seq(FrameSet) /\ Nested(Rest) /\ Frames = Below \cup {Top}
       /\ \A f \in Below : Under(f, Top)
  BY <1>2, <1>3, TopPopped
<1>11. stack' \in Seq(FrameSet) /\ Frames' = Below \cup {g} /\ Nested(stack')
  <2>1. \A f \in Below : Under(f, g)
    BY <1>7 DEF Under, Due, Speaking, Whole
  <2> QED
    BY <1>7, <1>8, <1>10, <2>1, OnePushed DEF Frames, Below
<1>12. /\ \A t \in Sessions : t # r => status'[t] = status[t]
       /\ status'[r] = reason /\ status[r] = "closing"
       /\ status' \in [Sessions -> {"fresh", "current", "closing"} \cup AllReasons]
       /\ disposed' = disposed /\ hasAuthorize' = hasAuthorize
  <2> DEFINE T == {"fresh", "current", "closing"} \cup AllReasons
  <2>1. status \in [Sessions -> T] /\ reason \in T
    BY <1>9
  <2>2. status[r] = "closing"
    BY <1>2, <1>3, <1>4 DEF Retirement
  <2> HIDE DEF T
  <2>3. /\ \A t \in Sessions : t # r => status'[t] = status[t]
        /\ status'[r] = reason
        /\ status' \in [Sessions -> T]
    BY <1>8, <2>1
  <2> QED
    BY <1>1, <2>2, <2>3 DEF T, server
<1>13. \A f \in Below : f.at \in {"retiring", "dispatching"} =>
         SessionOf(f.sub) \in Sessions /\ SessionOf(f.sub) # r
  <2> SUFFICES ASSUME NEW f \in Below, f.at \in {"retiring", "dispatching"}
               PROVE  SessionOf(f.sub) \in Sessions /\ SessionOf(f.sub) # r
    OBVIOUS
  <2>1. f \in Frames /\ f.sub \in Sessions \X {0} /\ f.arg \in AllReasons
    BY <1>9, <1>10 DEF FrameOK
  <2>2. f.sub = <<SessionOf(f.sub), 0>> /\ SessionOf(f.sub) \in Sessions
    BY <2>1 DEF SessionOf
  <2>3. CASE f.at = "retiring"
    BY <1>2, <1>6, <1>10, <2>2, <2>3 DEF Under
  <2>4. CASE f.at = "dispatching"
    BY <1>3, <1>12, <2>1, <2>2, <2>4 DEF Retirement, AllReasons
  <2> QED
    BY <2>2, <2>3, <2>4
<1>14. /\ Is("disposing")' <=> Is("disposing")
       /\ Is("sweeping")' <=> Is("sweeping")
       /\ \A t : t # r => (Dispatching(t)' <=> Dispatching(t))
       /\ Dispatching(r)'
  BY <1>2, <1>6, <1>7, <1>10, <1>11 DEF Is, Dispatching
<1>15. reason = "dispose" => Is("disposing")
  BY <1>2, <1>3, <1>5 DEF Retirement, ForDispose
<1>16. Is("sweeping") => ~Is("disposing")
  BY <1>3, DisposeOnce
<1>17. /\ \A t \in Sessions : t # r => RetireReason(t)' = RetireReason(t)
       /\ RetireReason(r) = "none" /\ RetireReason(r)' # "none"
  BY <1>12 DEF RetireReason, AllReasons
<1>18. \A f \in Frames : f.at \in {"notify", "noticed"} => SessionOf(f.sub) \in Sessions
  BY <1>9, SubParts, PointsAre DEF FrameOK, SubPoints, Speaking
<1>19. Retirement'
  <2>1. /\ \A f \in Frames' : f.at \in Whole => disposed'
        /\ \A f \in Frames' : ForDispose(f) => Is("disposing")'
        /\ disposed' => Is("disposing")' \/ \A t \in Sessions : status'[t] # "current"
    <3>1. \A f \in Below : f.at \in Whole => disposed'
      BY <1>3, <1>10, <1>12 DEF Retirement
    <3>2. \A f \in Below : ForDispose(f) => Is("disposing")'
      BY <1>3, <1>10, <1>14 DEF Retirement
    <3>3. disposed' => Is("disposing")' \/ \A t \in Sessions : status'[t] # "current"
      BY <1>3, <1>12, <1>14 DEF Retirement, AllReasons
    <3> QED
      BY <1>7, <1>11, <1>14, <1>15, <3>1, <3>2, <3>3 DEF Whole, ForDispose
  <2>2. /\ \A f \in Frames' : f.at = "retiring" => status'[SessionOf(f.sub)] = "closing"
        /\ \A f \in Frames' : f.at = "dispatching" => status'[SessionOf(f.sub)] = f.arg
    <3>1. \A f \in Below : f.at = "retiring" => status'[SessionOf(f.sub)] = "closing"
      BY <1>3, <1>10, <1>12, <1>13 DEF Retirement
    <3>2. \A f \in Below : f.at = "dispatching" => status'[SessionOf(f.sub)] = f.arg
      BY <1>3, <1>10, <1>12, <1>13 DEF Retirement
    <3>3. SessionOf(g.sub) = r /\ g.at # "retiring"
      BY <1>6, <1>7
    <3> QED
      BY <1>7, <1>11, <1>12, <3>1, <3>2, <3>3
  <2>3. \A f \in Frames' : f.at \in {"notify", "noticed"} /\ f.arg = "retired" =>
          RetireReason(SessionOf(f.sub))' # "none"
    BY <1>3, <1>7, <1>10, <1>11, <1>17, <1>18 DEF Retirement
  <2>4. \A t \in Sessions : RetireReason(t)' # "none" /\ listeners'[t] # <<>> =>
          Dispatching(t)'
    BY <1>1, <1>3, <1>14, <1>17 DEF Retirement, registry
  <2> QED
    BY <2>1, <2>2, <2>3, <2>4 DEF Retirement, ForDispose
<1>20. \A d \in Subs : Onward(d)
  <2> SUFFICES ASSUME NEW d \in Subs PROVE Onward(d)
    OBVIOUS
  <2>1. SessionOf(d) \in Sessions
    BY SubParts
  <2> QED
    BY <1>1, <1>12, <1>14, <1>15, <1>16, <1>17, <2>1 DEF Onward, Overtaken, registry
<1>21. /\ \A f \in Frames : f.sub \in Subs => f \in Frames'
       /\ \A f \in Frames' : f.sub \in Subs => f \in Frames
  BY <1>6, <1>7, <1>10, <1>11
<1>22. \A f \in Frames' : FrameOK(f)
  BY <1>7, <1>9, <1>10, <1>11
<1>23. /\ UNCHANGED <<hasAuthorize, watermark, registry, verdict, window, upstream, history,
                      lost, out>>
       /\ disposed' \in BOOLEAN /\ (disposed => disposed')
  BY <1>1, <1>9, <1>12
<1> QED
  BY <1>11, <1>12, <1>19, <1>20, <1>21, <1>22, <1>23, OtherCalls

\* server.dispose() is called.
LEMMA DisposeKeeps == ASSUME Inv, Dispose PROVE Inv'
<1> DEFINE g == Frame("disposing", <<0, 0>>, "")
<1>1. /\ ~disposed /\ disposed' = TRUE /\ stack' = Append(stack, g)
      /\ UNCHANGED <<hasAuthorize, status, watermark, registry, verdict, window, upstream,
                     history, lost, out>>
  BY DEF Dispose
<1>2. Typed /\ Nested(stack) /\ Retirement
  BY DEF Inv
<1>3. g \in FrameSet /\ FrameOK(g) /\ g.at = "disposing" /\ g.sub = <<0, 0>> /\ g.arg = ""
  BY ServerFrame DEF Whole
<1> HIDE DEF g
<1>4. /\ stack \in Seq(FrameSet) /\ \A f \in Frames : FrameOK(f)
      /\ status \in [Sessions -> {"fresh", "current", "closing"} \cup AllReasons]
  BY <1>2 DEF Typed
<1>5. \A f \in Frames : f.at \notin Whole /\ ~ForDispose(f)
  BY <1>1, <1>2 DEF Retirement, Is, Whole
<1>6. stack' \in Seq(FrameSet) /\ Frames' = Frames \cup {g} /\ Nested(stack')
  <2>1. \A f \in Frames : Under(f, g)
    BY <1>3, <1>5 DEF Under, Due, Speaking, Whole
  <2> QED
    BY <1>1, <1>2, <1>3, <1>4, <2>1, OnePushed DEF Frames
<1>7. Retirement'
  <2>1. Is("disposing")' /\ \A s : Dispatching(s)' <=> Dispatching(s)
    BY <1>3, <1>6 DEF Is, Dispatching
  <2>2. /\ \A f \in Frames' : f.at = "retiring" => status'[SessionOf(f.sub)] = "closing"
        /\ \A f \in Frames' : f.at = "dispatching" => status'[SessionOf(f.sub)] = f.arg
    BY <1>1, <1>2, <1>3, <1>6 DEF Retirement
  <2>3. /\ \A f \in Frames' : f.at \in {"notify", "noticed"} /\ f.arg = "retired" =>
             RetireReason(SessionOf(f.sub))' # "none"
        /\ \A s \in Sessions : RetireReason(s)' # "none" /\ listeners'[s] # <<>> =>
             Dispatching(s)'
    BY <1>1, <1>2, <1>3, <1>6, <2>1 DEF Retirement, RetireReason, registry
  <2> QED
    BY <1>1, <2>1, <2>2, <2>3 DEF Retirement, ForDispose
<1>8. \A d \in Subs : Onward(d)
  <2>1. Is("sweeping")' <=> Is("sweeping")
    BY <1>3, <1>6 DEF Is
  <2> QED
    BY <1>1, <2>1 DEF Onward, Overtaken, RetireReason, registry
<1>9. /\ \A f \in Frames : f.sub \in Subs => f \in Frames'
      /\ \A f \in Frames' : f.sub \in Subs => f \in Frames
  BY <1>3, <1>6, SubParts
<1>10. \A f \in Frames' : FrameOK(f)
  BY <1>3, <1>4, <1>6
<1>11. /\ disposed' \in BOOLEAN /\ (disposed => disposed')
       /\ status' \in [Sessions -> {"fresh", "current", "closing"} \cup AllReasons]
       /\ UNCHANGED <<hasAuthorize, watermark, registry, verdict, window, upstream, history,
                      lost, out>>
  BY <1>1, <1>4
<1> QED
  BY <1>6, <1>7, <1>8, <1>9, <1>10, <1>11, OtherCalls

LEMMA LeastIs ==
  ASSUME NEW S \in SUBSET Sessions, S # {} PROVE Least(S) \in S
<1>1. S \in SUBSET Nat
  BY DEF Sessions
<1>2. \E n \in S : \A m \in S : n <= m
  BY <1>1, LeastNumber
<1> QED
  BY <1>2 DEF Least

\* server.dispose() retires the next session, or goes on to what is left.
LEMMA DisposeSessionsKeeps == ASSUME Inv, DisposeSessions PROVE Inv'
<1> DEFINE current == {s \in Sessions : status[s] = "current"}
           g == Frame("sweeping", <<0, 0>>, "")
<1>1. /\ At("disposing")
      /\ UNCHANGED <<server, watermark, registry, verdict, window, upstream, history,
                     lost, out>>
      /\ current # {} => Retiring(Least(current), "dispose", stack)
      /\ current = {} => stack' = Append(Rest, g) /\ UNCHANGED status
  BY DEF DisposeSessions
<1>2. Typed /\ Nested(stack) /\ Retirement
  BY DEF Inv
<1>3. stack # <<>> /\ Top.at = "disposing"
  BY <1>1 DEF At
<1>4. /\ Rest \in Seq(FrameSet) /\ Nested(Rest) /\ Frames = Below \cup {Top}
      /\ FrameOK(Top) /\ \A f \in Below : Under(f, Top)
  BY <1>2, <1>3, TopPopped
<1>5. Is("disposing")
  BY <1>3, <1>4 DEF Is
<1>6. CASE current # {}
  <2>1. Least(current) \in Sessions /\ status[Least(current)] = "current"
    BY <1>6, LeastIs
  <2> QED
    BY <1>1, <1>5, <1>6, <2>1, RetiringKeeps DEF AllReasons
<1>7. CASE current = {}
  <2>1. g \in FrameSet /\ FrameOK(g) /\ g.at = "sweeping" /\ g.sub = <<0, 0>> /\ g.arg = ""
    BY ServerFrame DEF Whole
  <2>2. stack' = Append(Rest, g) /\ status' = status /\ \A s \in Sessions : status[s] # "current"
    BY <1>1, <1>7
  <2> HIDE DEF g, current
  <2>3. /\ disposed \in BOOLEAN /\ \A f \in Frames : FrameOK(f)
        /\ status \in [Sessions -> {"fresh", "current", "closing"} \cup AllReasons]
    BY <1>2 DEF Typed
  <2>4. /\ Top.sub = <<0, 0>> /\ \A f \in Below : f.at \notin Whole /\ ~ForDispose(f)
        /\ disposed
    BY <1>2, <1>3, <1>4 DEF FrameOK, Whole, Under, Retirement
  <2>5. stack' \in Seq(FrameSet) /\ Frames' = Below \cup {g} /\ Nested(stack')
    <3>1. \A f \in Below : Under(f, g)
      BY <2>1, <2>4 DEF Under, Due, Speaking, Whole
    <3> QED
      BY <1>4, <2>1, <2>2, <3>1, OnePushed DEF Frames, Below
  <2>6. /\ disposed' = disposed /\ hasAuthorize' = hasAuthorize /\ listeners' = listeners
        /\ place' = place /\ live' = live
    BY <1>1 DEF server, registry
  <2>7. Retirement'
    <3>1. \A s : Dispatching(s)' <=> Dispatching(s)
      BY <1>3, <1>4, <2>1, <2>5 DEF Dispatching
    <3>2. /\ \A f \in Frames' : f.at = "retiring" => status'[SessionOf(f.sub)] = "closing"
          /\ \A f \in Frames' : f.at = "dispatching" => status'[SessionOf(f.sub)] = f.arg
      BY <1>2, <1>4, <2>1, <2>2, <2>5 DEF Retirement
    <3>3. /\ \A f \in Frames' : f.at \in {"notify", "noticed"} /\ f.arg = "retired" =>
               RetireReason(SessionOf(f.sub))' # "none"
          /\ \A s \in Sessions : RetireReason(s)' # "none" /\ listeners'[s] # <<>> =>
               Dispatching(s)'
      BY <1>2, <1>4, <2>1, <2>2, <2>5, <2>6, <3>1 DEF Retirement, RetireReason
    <3>4. /\ \A f \in Frames' : f.at \in Whole => disposed'
          /\ \A f \in Frames' : ~ForDispose(f)
          /\ \A s \in Sessions : status'[s] # "current"
      BY <2>1, <2>2, <2>4, <2>5, <2>6 DEF ForDispose
    <3> QED
      BY <3>2, <3>3, <3>4 DEF Retirement, ForDispose
  <2>8. \A d \in Subs : Onward(d)
    <3>1. ~Is("sweeping")
      BY <1>2, <1>5, DisposeOnce
    <3> QED
      BY <1>5, <2>2, <2>6, <3>1 DEF Onward, Overtaken, RetireReason
  <2>9. /\ \A f \in Frames : f.sub \in Subs => f \in Frames'
        /\ \A f \in Frames' : f.sub \in Subs => f \in Frames
    BY <1>4, <2>1, <2>4, <2>5, SubParts
  <2>10. \A f \in Frames' : FrameOK(f)
    BY <1>4, <2>1, <2>3, <2>5
  <2>11. /\ disposed' \in BOOLEAN /\ (disposed => disposed')
         /\ status' \in [Sessions -> {"fresh", "current", "closing"} \cup AllReasons]
         /\ UNCHANGED <<hasAuthorize, watermark, registry, verdict, window, upstream, history,
                        lost, out>>
    BY <1>1, <2>2, <2>3, <2>6
  <2> QED
    BY <2>5, <2>7, <2>8, <2>9, <2>10, <2>11, OtherCalls
<1> QED
  BY <1>6, <1>7
-----------------------------------------------------------------------------
(* What a retirement and dispose() do to the subscriptions *)

LEMMA TwoPushed ==
  ASSUME NEW S, NEW q \in Seq(S), NEW a, NEW b
  PROVE  q \o <<a, b>> = Append(Append(q, a), b)
OBVIOUS

\* The innermost call about no subscription returns.
LEMMA CallReturns ==
  ASSUME Inv, stack # <<>>, Top.sub \notin Subs, Top.at # "disposing", stack' = Rest,
         UNCHANGED <<status, server, watermark, registry, verdict, window, upstream,
                     history, lost, out>>,
         Top.at = "dispatching" => listeners[SessionOf(Top.sub)] = <<>>,
         Is("sweeping") => Is("sweeping")' \/ \A d \in Subs : place[d] # "pending"
  PROVE  Inv'
<1>1. /\ Typed /\ Nested(stack) /\ Retirement
  BY DEF Inv
<1>2. /\ Rest \in Seq(FrameSet) /\ Nested(Rest) /\ Frames = Below \cup {Top}
  BY <1>1, TopPopped
<1>3. stack' \in Seq(FrameSet) /\ Nested(stack') /\ Frames' = Below
  BY <1>2 DEF Frames, Below
<1>4. /\ status \in [Sessions -> {"fresh", "current", "closing"} \cup AllReasons]
      /\ disposed \in BOOLEAN /\ \A f \in Frames : FrameOK(f)
  BY <1>1 DEF Typed
<1>5. /\ disposed' = disposed /\ hasAuthorize' = hasAuthorize /\ listeners' = listeners
      /\ place' = place /\ live' = live
  BY DEF server, registry
<1>6. /\ Is("disposing")' <=> Is("disposing")
      /\ \A r : listeners[r] # <<>> => (Dispatching(r)' <=> Dispatching(r))
  BY <1>2, <1>3 DEF Is, Dispatching
<1>7. Retirement'
  <2>1. /\ \A f \in Frames' : f.at \in Whole => disposed'
        /\ \A f \in Frames' : ForDispose(f) => Is("disposing")'
        /\ disposed' => Is("disposing")' \/ \A r \in Sessions : status'[r] # "current"
    BY <1>1, <1>2, <1>3, <1>5, <1>6 DEF Retirement
  <2>2. /\ \A f \in Frames' : f.at = "retiring" => status'[SessionOf(f.sub)] = "closing"
        /\ \A f \in Frames' : f.at = "dispatching" => status'[SessionOf(f.sub)] = f.arg
        /\ \A f \in Frames' : f.at \in {"notify", "noticed"} /\ f.arg = "retired" =>
             RetireReason(SessionOf(f.sub))' # "none"
    BY <1>1, <1>2, <1>3 DEF Retirement, RetireReason
  <2>3. \A r \in Sessions : RetireReason(r)' # "none" /\ listeners'[r] # <<>> =>
          Dispatching(r)'
    BY <1>1, <1>5, <1>6 DEF Retirement, RetireReason
  <2> QED
    BY <2>1, <2>2, <2>3 DEF Retirement, ForDispose
<1>8. \A d \in Subs : Onward(d)
  BY <1>5, <1>6 DEF Onward, Overtaken, RetireReason
<1>9. /\ \A f \in Frames : f.sub \in Subs => f \in Frames'
      /\ \A f \in Frames' : f.sub \in Subs => f \in Frames
      /\ \A f \in Frames' : FrameOK(f)
  BY <1>2, <1>3, <1>4
<1>10. /\ UNCHANGED <<hasAuthorize, watermark, registry, verdict, window, upstream, history,
                      lost, out>>
       /\ disposed' \in BOOLEAN /\ (disposed => disposed')
       /\ status' \in [Sessions -> {"fresh", "current", "closing"} \cup AllReasons]
  BY <1>4, <1>5
<1> QED
  BY <1>3, <1>7, <1>8, <1>9, <1>10, OtherCalls

\* The next listener of a retirement is called.
LEMMA DispatchKeeps == ASSUME Inv, Dispatch PROVE Inv'
<1>1. At("dispatching")
      /\ UNCHANGED <<status, server, watermark, verdict, upstream, history>>
  BY DEF Dispatch
<1>0. PICK s \in Sessions : s = SessionOf(Top.sub)
  BY <1>1, TopSession
<1>2. /\ stack # <<>> /\ Top.at = "dispatching" /\ Top \in Frames
      /\ Top.arg \in AllReasons /\ SessionOf(Top.sub) = s /\ Top.sub = <<s, 0>>
  BY <1>0, <1>1, TopSession
<1>3. /\ Typed /\ Nested(stack) /\ Retirement /\ Heard
  BY DEF Inv
<1>4. RetireReason(s) # "none"
  BY <1>2, <1>3 DEF Retirement, RetireReason, AllReasons
<1>5. CASE /\ listeners[s] = <<>> /\ stack' = Rest
           /\ UNCHANGED <<registry, window, lost, out>>
  <2>1. <<s, 0>> \notin Subs
    BY <1>2, SessionMark, SubParts
  <2>2. Is("sweeping") => Is("sweeping")'
    <3>1. Frames = Below \cup {Top}
      BY <1>2, <1>3, TopPopped
    <3>2. Frames' = Below
      BY <1>5 DEF Frames, Below
    <3> QED
      BY <1>2, <3>1, <3>2 DEF Is
  <2>3. /\ Top.sub \notin Subs /\ Top.at # "disposing" /\ stack' = Rest
        /\ UNCHANGED <<status, server, watermark, registry, verdict, window, upstream,
                       history, lost, out>>
        /\ Top.at = "dispatching" => listeners[SessionOf(Top.sub)] = <<>>
    BY <1>1, <1>2, <1>5, <2>1
  <2> QED
    BY <1>2, <2>2, <2>3, CallReturns
<1>6. ASSUME listeners[s] # <<>>, NEW c, c = Head(listeners[s])
      PROVE  /\ c \in Subs /\ SessionOf(c) = s /\ Listens(c)
             /\ Tail(listeners[s]) \in Seq(Subs) /\ Once(Tail(listeners[s]))
             /\ ToSet(Tail(listeners[s])) = ToSet(listeners[s]) \ {c}
  <2>1. listeners[s] \in Seq(Subs)
    BY <1>2, <1>3 DEF Typed
  <2>2. Once(listeners[s]) /\ \A d \in ToSet(listeners[s]) : SessionOf(d) = s
    BY <1>2, <1>3 DEF Heard
  <2>3. /\ Tail(listeners[s]) \in Seq(Subs) /\ Once(Tail(listeners[s]))
        /\ ToSet(Tail(listeners[s])) = ToSet(listeners[s]) \ {c}
        /\ c \in ToSet(listeners[s])
    BY <1>6, <2>1, <2>2, ValuesTail
  <2>4. c \in Subs
    BY <1>6, <2>1
  <2> QED
    BY <2>2, <2>3, <2>4 DEF Listens
<1>7. ASSUME NEW c \in Subs
      PROVE  /\ Good(c) /\ Birth(c) /\ Life(c) /\ Slot(c) /\ Told(c)
             /\ window[c] \in WindowSet
             /\ Moves(c, stack)
             /\ \A p : HasIn(ToSet(stack), p, c) <=> Has(p, c)
             /\ DueIn(ToSet(stack), c) <=> EndDue(c)
             /\ SentIn(ToSet(stack), c) <=> EndSent(c)
  BY <1>3, InvParts, StackStays DEF Has, EndDue, EndSent, Frames
<1>8. /\ disposed' = disposed /\ requested' = requested /\ left' = left
  BY <1>1 DEF server, history
<1>9. ASSUME listeners[s] # <<>>, NEW c, c = Head(listeners[s]), place[c] = "pending",
             OnRetirePending(c, stack)
      PROVE  Inv'
  <2> DEFINE q == Append(stack, Frame("notify", c, "retired"))
  <2>1. c \in Subs /\ SessionOf(c) = s
    BY <1>6, <1>9
  <2>2. Forget(c) /\ UNCHANGED <<window, out, lost>>
        /\ stack' = stack \o <<Frame("notify", c, "retired"), Frame("done", c, "")>>
    BY <1>9 DEF OnRetirePending
  <2>3. stack' = Append(q, Frame("done", c, ""))
    <3> DEFINE a == Frame("notify", c, "retired")
               b == Frame("done", c, "")
    <3>1. stack \in Seq(FrameSet) /\ stack' = stack \o <<a, b>>
      BY <1>3, <2>2 DEF Typed
    <3> HIDE DEF a, b
    <3>2. stack \o <<a, b>> = Append(Append(stack, a), b)
      BY <3>1, TwoPushed
    <3> QED
      BY <3>1, <3>2 DEF a, b
  <2>4. /\ Moves(c, stack) /\ Birth(c) /\ Life(c) /\ Slot(c)
        /\ \A p : HasIn(ToSet(stack), p, c) <=> Has(p, c)
        /\ DueIn(ToSet(stack), c) <=> EndDue(c)
        /\ SentIn(ToSet(stack), c) <=> EndSent(c)
    BY <1>7, <2>1
  <2>5. c \in requested /\ \A p \in SubPoints : Has(p, c) => p \in Quiet
    BY <1>9, <2>4 DEF Birth, Untouched
  <2>6. /\ \A p : Has(p, c) => p \in Quiet
        /\ out[c] = <<>> /\ ~window[c].opened /\ c \notin upstream /\ ~window[c].concluded
        /\ ~window[c].inFlight /\ window[c].terminal = "none"
    BY <1>3, <1>9, <2>1, <2>4, <2>5, OnlySubPoints DEF Birth
  <2>7. /\ Moves(c, q)
        /\ \A p : HasIn(ToSet(q), p, c) <=> HasIn(ToSet(stack), p, c) \/ p = "notify"
        /\ DueIn(ToSet(q), c) <=> DueIn(ToSet(stack), c)
        /\ SentIn(ToSet(q), c) <=> SentIn(ToSet(stack), c)
    BY <1>4, <2>1, <2>4, <2>6, NotifyPushed
  <2> HIDE DEF q
  <2>8. Makes(c, ToSet(q), "done", "")
    BY <2>1, <2>3, <2>7, PlainMade DEF Plain, Quiet, Args
  <2>9. /\ Moves(c, stack')
        /\ \A p : Has(p, c)' <=> Has(p, c) \/ p \in {"notify", "done"}
        /\ EndDue(c)' <=> EndDue(c)
        /\ EndSent(c)' <=> EndSent(c)
    BY <2>4, <2>7, <2>8 DEF Makes
  <2>10. /\ \E x \in Places : place' = [place EXCEPT ![c] = x]
         /\ \E x \in Leases : lease' = [lease EXCEPT ![c] = x]
         /\ place'[c] = "none" /\ lease'[c] # "held"
         /\ ~Listens(c)' /\ Hears(c) /\ Owns(c)
    BY <1>8, <2>1, <2>2, ForgetDoes
  <2>11. Touches(c)
    BY <1>1, <1>3, <1>8, <2>1, <2>2, <2>10, Still DEF Touches
  <2>12. Birth(c)'
    <3>1. \A p : Has(p, c)' => p \in {"authorizing", "denying", "done", "notify"}
      BY <2>6, <2>9 DEF Quiet
    <3>2. /\ \A p \in Active : ~Has(p, c)'
          /\ ~Has("established", c)' /\ ~Has("rejecting", c)' /\ ~Has("opening", c)'
          /\ ~Has("noticed", c)'
      BY <3>1 DEF Active
    <3>3. /\ out'[c] = <<>> /\ window'[c] = window[c] /\ c \notin upstream' /\ c \in requested'
          /\ place'[c] = "none"
      BY <1>1, <1>8, <2>2, <2>5, <2>6, <2>10
    <3> QED
      BY <2>6, <3>2, <3>3 DEF Birth
  <2>13. Life(c)'
    BY <1>1, <1>9, <2>2, <2>4, <2>6, <2>9, <2>10 DEF Life, HasEnd, Birth, Active, Quiet
  <2>14. Slot(c)'
    BY <1>9, <2>2, <2>4, <2>10 DEF Slot, Birth
  <2>15. Told(c)'
    BY <2>6, <2>9 DEF Told, Quiet
  <2> QED
    BY <2>1, <2>9, <2>10, <2>11, <2>12, <2>13, <2>14, <2>15, OneSub DEF Good
<1>10. ASSUME listeners[s] # <<>>, NEW c, c = Head(listeners[s]), place[c] # "pending",
              listeners' = [listeners EXCEPT ![s] = Tail(@)],
              OnRetireConsumer(c, stack),
              UNCHANGED <<place, live, lease>>
       PROVE  Inv'
  <2>1. /\ c \in Subs /\ SessionOf(c) = s /\ Listens(c)
        /\ Tail(listeners[s]) \in Seq(Subs) /\ Once(Tail(listeners[s]))
        /\ ToSet(Tail(listeners[s])) = ToSet(listeners[s]) \ {c}
    BY <1>6, <1>10
  <2>2. /\ Birth(c) /\ Life(c) /\ Slot(c) /\ window[c] \in WindowSet
        /\ Moves(c, stack)
        /\ \A p : HasIn(ToSet(stack), p, c) <=> Has(p, c)
        /\ DueIn(ToSet(stack), c) <=> EndDue(c)
        /\ SentIn(ToSet(stack), c) <=> EndSent(c)
    BY <1>7, <2>1
  <2>3. place[c] = "consumer" /\ window[c].opened
    BY <1>10, <2>1, <2>2 DEF Slot
  <2>4. listeners' = [listeners EXCEPT ![SessionOf(c)] = Tail(listeners[s])]
    BY <1>10, <2>1
  <2>5. ~Listens(c)' /\ Hears(c)
    <3>1. listeners'[SessionOf(c)] = Tail(listeners[s])
      BY <1>2, <1>3, <2>1, <2>4 DEF Typed
    <3>2. ~Listens(c)'
      BY <2>1, <3>1 DEF Listens
    <3> QED
      BY <2>1, <2>4, <3>2 DEF Hears
  <2>6. \A p \in Speaking : ~Has(p, c)
    BY <2>1, <2>3, OpenedOnce
  <2> DEFINE told == Notice(c, "retired") # "none" /\ Preemptible(window[c])
             w == Preempted(window[c])
  <2>7. CASE told /\ Send(c, "cancelled", w, stack)
    <3>1. ~window[c].closed /\ ~window[c].concluded
      BY <2>7 DEF Preemptible
    <3>2. out[c] # <<>> /\ ~HasEnd(c) /\ ~EndDue(c)
      BY <2>2, <2>3, <3>1 DEF Life
    <3>3. /\ w \in WindowSet /\ w.opened /\ w.closed = window[c].closed /\ w.concluded
          /\ w.terminal = "none"
      BY <2>2, <2>3 DEF Preempted, WindowSet
    <3> HIDE DEF w
    <3>4. ~Accepting(w) /\ "cancelled" \in Messages \ {"subscribed"}
          /\ "cancelled" \in Terminals
      BY <3>3 DEF Accepting, Messages, Terminals
    <3> QED
      BY <1>1, <1>10, <2>1, <2>2, <2>3, <2>5, <2>7, <3>2, <3>3, <3>4, SendKeeps
  <2>8. CASE ~told /\ Close(c, window[c], stack) /\ UNCHANGED <<out, lost>>
    <3>1. \/ HasEnd(c) \/ EndDue(c) \/ window[c].closed
          \/ RetireReason(SessionOf(c)) \in {"replaced", "navigation"}
      <4>1. CASE Notice(c, "retired") = "none"
        BY <1>4, <2>1, <4>1, NoticeIs
      <4>2. CASE ~Preemptible(window[c])
        BY <2>2, <4>2 DEF Preemptible, Life
      <4> QED
        BY <2>8, <4>1, <4>2
    <3>2. left' \in {left, left \cup {c}} /\ requested' = requested /\ ~Has("opening", c)
      BY <1>8, <2>6 DEF Speaking
    <3> QED
      BY <1>1, <1>10, <2>1, <2>2, <2>3, <2>5, <2>8, <3>1, <3>2, CloseKeeps
  <2> QED
    BY <1>10, <2>3, <2>7, <2>8 DEF OnRetireConsumer
<1> QED
  BY <1>2, <1>5, <1>9, <1>10 DEF Dispatch

\* The first of some subscriptions is one of them.
LEMMA FirstIs ==
  ASSUME NEW S \in SUBSET Subs, S # {}
  PROVE  (CHOOSE c \in S : \A d \in S : IdOf(c) <= IdOf(d)) \in S
<1> DEFINE ids == {IdOf(c) : c \in S}
<1>1. ids \in SUBSET Nat /\ ids # {}
  BY SubParts
<1>2. PICK n \in ids : \A m \in ids : n <= m
  BY <1>1, LeastNumber
<1>3. PICK c \in S : IdOf(c) = n
  BY <1>2
<1>4. \A d \in S : IdOf(c) <= IdOf(d)
  BY <1>2, <1>3
<1> QED
  BY <1>3, <1>4

\* dispose() ends what the retirements left.
LEMMA SweepKeeps == ASSUME Inv, Sweep PROVE Inv'
<1> DEFINE s == Least({SessionOf(c) : c \in {d \in Subs : Unswept(d)}})
           waiting == {c \in HeldBy(s) : place[c] = "pending"}
           pending == {c \in Subs : SessionOf(c) = s /\ place[c] = "pending"}
           rest == {d \in Subs : SessionOf(d) = s /\ Unswept(d)}
           first(S) == CHOOSE c \in S : \A d \in S : IdOf(c) <= IdOf(d)
<1>1. At("sweeping")
      /\ UNCHANGED <<status, server, watermark, verdict, upstream, history, lost, out>>
  BY DEF Sweep
<1>2. stack # <<>> /\ Top.at = "sweeping"
  BY <1>1 DEF At
<1>3. /\ Typed /\ Nested(stack) /\ Retirement /\ Heard /\ LiveOwns /\ \A c \in Subs : Good(c)
  BY DEF Inv
<1>4. Frames = Below \cup {Top} /\ FrameOK(Top) /\ Top \in Frames
  BY <1>2, <1>3, TopPopped
<1>5. Is("sweeping") /\ ~Is("disposing") /\ disposed /\ Top.sub = <<0, 0>>
  <2>1. Is("sweeping") /\ Top.at \in Whole /\ Top.sub = <<0, 0>>
    BY <1>2, <1>4 DEF Is, Whole, FrameOK
  <2> QED
    BY <1>3, <1>4, <2>1, DisposeOnce DEF Retirement
<1>6. \A c \in Subs : status[SessionOf(c)] # "dispose" => Overtaken(SessionOf(c))
  BY <1>5 DEF Overtaken
<1>7. /\ disposed' = disposed /\ requested' = requested /\ left' = left
  BY <1>1 DEF server, history
<1>8. ASSUME NEW c \in Subs, status[SessionOf(c)] = "dispose"
      PROVE  ~Listens(c) /\ RetireReason(SessionOf(c)) # "none"
  <2>1. listeners[SessionOf(c)] = <<>>
    BY <1>3, <1>5, <1>8, SubParts, SweptUnheard
  <2> QED
    BY <1>8, <2>1, ValuesEmpty DEF Listens, RetireReason, AllReasons
<1>9. ASSUME NEW c \in Subs
      PROVE  /\ Birth(c) /\ Life(c) /\ Slot(c) /\ Told(c)
             /\ SessionOf(c) \in Sessions
             /\ Moves(c, stack)
             /\ \A p : HasIn(ToSet(stack), p, c) <=> Has(p, c)
             /\ DueIn(ToSet(stack), c) <=> EndDue(c)
             /\ SentIn(ToSet(stack), c) <=> EndSent(c)
  BY <1>3, <1>9, InvParts, StackStays DEF Has, EndDue, EndSent, Frames
<1>10. CASE /\ \A c \in Subs : ~Unswept(c)
            /\ stack' = Rest
            /\ UNCHANGED <<registry, window>>
  <2>1. \A d \in Subs : place[d] # "pending"
    BY <1>9, <1>10 DEF Unswept, Slot
  <2>2. /\ Top.sub \notin Subs /\ Top.at # "disposing" /\ Top.at # "dispatching"
        /\ UNCHANGED <<status, server, watermark, registry, verdict, window, upstream,
                       history, lost, out>>
    BY <1>1, <1>2, <1>5, <1>10, SubParts
  <2> QED
    BY <1>2, <1>10, <2>1, <2>2, CallReturns
<1>11. CASE /\ waiting # {}
            /\ lease' = [lease EXCEPT ![first(waiting)] = "released"]
            /\ listeners' = Unheard(first(waiting))
            /\ stack' = Append(stack, Frame("done", first(waiting), ""))
            /\ UNCHANGED <<place, live, window>>
  <2>1. waiting \in SUBSET Subs
    BY DEF HeldBy
  <2>2. PICK c \in waiting : c = first(waiting)
    BY <1>11, <2>1, FirstIs
  <2>3. c \in Subs /\ lease[c] = "held" /\ place[c] = "pending"
    BY <2>2 DEF HeldBy
  <2>4. /\ lease' = [lease EXCEPT ![c] = "released"] /\ listeners' = Unheard(c)
        /\ stack' = Append(stack, Frame("done", c, "")) /\ UNCHANGED <<place, live, window>>
    BY <1>11, <2>2
  <2> HIDE DEF waiting, first
  <2>5. ~Listens(c)' /\ Hears(c) /\ Owns(c)
    BY <2>3, <2>4, UnheardDoes, RegistryStill
  <2>6. Makes(c, ToSet(stack), "done", "")
    BY <1>9, <2>3, <2>4, PlainMade DEF Plain, Quiet, Args
  <2>7. /\ Moves(c, stack')
        /\ \A p : Has(p, c)' <=> Has(p, c) \/ p = "done"
        /\ EndDue(c)' <=> EndDue(c)
        /\ EndSent(c)' <=> EndSent(c)
    BY <1>9, <2>3, <2>6 DEF Makes
  <2>8. /\ "released" \in Leases /\ lease'[c] = "released"
        /\ \E x \in Leases : lease' = [lease EXCEPT ![c] = x]
    BY <1>3, <2>3, <2>4 DEF Typed, Leases
  <2>9. Touches(c)
    BY <1>1, <1>3, <1>7, <2>3, <2>4, <2>8, Still DEF Touches
  <2>10. status[SessionOf(c)] # "dispose"
    BY <1>8, <1>9, <2>3 DEF Slot
  <2>11. Is("sweeping")'
    BY <1>3, <1>5, <2>3, <2>7, Elsewhere
  <2>12. Birth(c)'
    BY <1>1, <1>7, <1>9, <2>3, <2>4, <2>5, <2>7 DEF Birth, Untouched, Active, Quiet, Speaking
  <2>13. Life(c)'
    BY <1>1, <1>9, <2>3, <2>4, <2>7 DEF Life, HasEnd, Active
  <2>14. Slot(c)'
    BY <1>1, <1>9, <2>3, <2>4, <2>5, <2>8, <2>10, <2>11 DEF Slot, Birth
  <2>15. Told(c)'
    <3>1. ~Has("opening", c) /\ place'[c] = "pending"
      BY <1>9, <2>3, <2>4 DEF Birth, Quiet, SubPoints, Speaking
    <3> QED
      BY <2>7, <3>1 DEF Told
  <2> QED
    BY <2>3, <2>5, <2>7, <2>9, <2>12, <2>13, <2>14, <2>15, OneSub DEF Good
<1>12. CASE /\ waiting = {}
            /\ place' = [c \in Subs |-> IF c \in pending THEN "none" ELSE place[c]]
            /\ UNCHANGED <<live, lease, listeners, window, stack>>
  <2>1. \A d \in pending : d \in Subs /\ place[d] = "pending" /\ lease[d] # "held"
    BY <1>12 DEF HeldBy
  <2>2. /\ \A d \in pending : place'[d] = "none"
        /\ \A d \in Subs \ pending : place'[d] = place[d]
        /\ place' \in [Subs -> Places]
    BY <1>3, <1>12 DEF Typed, Places
  <2> HIDE DEF waiting, pending
  <2>3. Typed' /\ Nested(stack)' /\ Heard' /\ Retirement' /\ LiveOwns'
    <3>1. Typed'
      BY <1>1, <1>3, <1>12, <2>2 DEF Typed, Frames, FrameOK, server, history
    <3>2. Nested(stack)' /\ Heard'
      BY <1>3, <1>12 DEF Nested, Under, Due, ForDispose, Heard
    <3>3. Retirement'
      BY <1>1, <1>3, <1>12 
         DEF Retirement, Is, Dispatching, RetireReason, ForDispose, Frames, server
    <3>4. LiveOwns'
      BY <1>5, <1>7 DEF LiveOwns
    <3> QED
      BY <3>1, <3>2, <3>3, <3>4
  <2>4. /\ \A at : Is(at)' <=> Is(at)
        /\ \A at, c : Has(at, c)' <=> Has(at, c)
        /\ \A c : EndDue(c)' <=> EndDue(c)
        /\ \A c : EndSent(c)' <=> EndSent(c)
        /\ \A c : Listens(c)' <=> Listens(c)
        /\ \A r : Overtaken(r)' <=> Overtaken(r)
        /\ \A r : RetireReason(r)' = RetireReason(r)
    BY <1>1, <1>7, <1>12
       DEF Is, Has, HasIn, EndDue, DueIn, EndSent, SentIn, Listens, Overtaken, RetireReason,
           Frames, Due, Ending
  <2>5. ASSUME NEW d \in Subs PROVE Good(d)'
    <3>1. CASE d \notin pending
      <4>1. place'[d] = place[d]
        BY <2>2, <3>1
      <4>2. Same(d)
        BY <1>1, <1>7, <1>12, <2>4, <4>1 DEF Same
      <4>3. Onward(d)
        BY <1>1, <1>12, <2>4 DEF Onward
      <4> QED
        BY <1>3, <4>2, <4>3, SameGood
    <3>2. CASE d \in pending
      <4>1. place[d] = "pending" /\ lease[d] # "held" /\ place'[d] = "none"
        BY <2>1, <2>2, <3>2
      <4>2. /\ ~Listens(d) /\ Overtaken(SessionOf(d)) /\ d \in requested
            /\ ~window[d].opened /\ ~Has("opening", d)
        <5>1. ~Listens(d) /\ status[SessionOf(d)] # "dispose"
          BY <1>9, <4>1 DEF Slot
        <5>2. d \in requested /\ ~window[d].opened /\ ~Has("opening", d)
          BY <1>9, <4>1 DEF Birth, Untouched, Quiet, SubPoints, Speaking
        <5> QED
          BY <1>6, <5>1, <5>2
      <4>3. Birth(d)'
        BY <1>1, <1>7, <1>9, <1>12, <2>4, <4>1, <4>2 DEF Birth, Untouched
      <4>4. Life(d)'
        BY <1>1, <1>9, <1>12, <2>4, <4>1, <4>2 DEF Life, HasEnd
      <4>5. Slot(d)'
        BY <1>12, <2>4, <4>1, <4>2 DEF Slot
      <4>6. Told(d)'
        BY <2>4, <4>2 DEF Told
      <4> QED
        BY <4>3, <4>4, <4>5, <4>6 DEF Good
    <3> QED
      BY <3>1, <3>2
  <2> QED
    BY <2>3, <2>5 DEF Inv
<1>13. CASE /\ \E c \in Subs : Unswept(c)
            /\ pending = {}
            /\ Close(first(rest), window[first(rest)], stack)
            /\ UNCHANGED registry
  <2>1. s \in {SessionOf(c) : c \in {d \in Subs : Unswept(d)}}
    <3> DEFINE owners == {SessionOf(c) : c \in {d \in Subs : Unswept(d)}}
    <3>1. owners \in SUBSET Sessions /\ owners # {}
      BY <1>13, SubParts
    <3> QED
      BY <3>1, LeastIs
  <2>2. PICK c \in rest : c = first(rest)
    <3>1. rest \in SUBSET Subs /\ rest # {}
      BY <2>1
    <3> QED
      BY <3>1, FirstIs
  <2>3. c \in Subs /\ place[c] = "consumer" /\ ~window[c].closed
        /\ Close(c, window[c], stack)
    <3>1. c \in Subs /\ SessionOf(c) = s /\ Unswept(c)
      BY <2>2
    <3>2. place[c] # "pending"
      BY <1>13, <3>1
    <3> QED
      BY <1>13, <2>2, <3>1, <3>2 DEF Unswept
  <2> HIDE DEF s, waiting, pending, rest, first
  <2>4. Hears(c) /\ (Listens(c)' => Listens(c)) /\ UNCHANGED <<place, live, lease>>
    BY <1>13, <2>3, RegistryStill DEF registry, Listens
  <2>5. \/ HasEnd(c) \/ EndDue(c) \/ Has("opening", c) \/ Overtaken(SessionOf(c))
    <3>1. CASE status[SessionOf(c)] # "dispose"
      BY <1>6, <2>3, <3>1
    <3>2. CASE status[SessionOf(c)] = "dispose"
      <4>1. ~window[c].opened \/ window[c].concluded
        BY <1>8, <1>9, <2>3, <3>2 DEF Slot
      <4>2. CASE ~window[c].opened
        BY <1>9, <2>3, <4>2 DEF Birth
      <4>3. CASE window[c].concluded
        BY <1>9, <2>3, <4>3 DEF Life
      <4> QED
        BY <4>1, <4>2, <4>3
    <3> QED
      BY <3>1, <3>2
  <2>6. RetireReason(SessionOf(c)) # "none" \/ Overtaken(SessionOf(c))
    BY <1>6, <1>8, <2>3
  <2>7. left' \in {left, left \cup {c}} /\ requested' = requested
    BY <1>7
  <2> QED
    BY <1>1, <1>9, <2>3, <2>4, <2>5, <2>6, <2>7, CloseKeeps
<1> QED
  BY <1>10, <1>11, <1>12, <1>13 DEF Sweep
-----------------------------------------------------------------------------
(* The theorems *)

LEMMA InitInv == ASSUME Init PROVE Inv
<1>1. Frames = {}
  BY ValuesEmpty DEF Init, Frames
<1>2. /\ \A at, c : ~Has(at, c)
      /\ \A c : ~EndDue(c) /\ ~EndSent(c)
      /\ \A s : ~Dispatching(s)
  BY <1>1 DEF Has, HasIn, EndDue, DueIn, EndSent, SentIn, Dispatching
<1>3. Typed
  <2>1. NewWindow \in WindowSet
    BY DEF NewWindow, WindowSet
  <2>2. \A c \in Subs : window[c] \in WindowSet /\ window = [d \in Subs |-> NewWindow]
    BY <2>1 DEF Init
  <2>3. window \in [Subs -> WindowSet]
    BY <2>1, <2>2 DEF Init
  <2>4. stack \in Seq(FrameSet) /\ \A f \in Frames : FrameOK(f)
    BY <1>1 DEF Init
  <2>5. listeners \in [Sessions -> Seq(Subs)] /\ out \in [Subs -> Seq(Messages)]
    BY DEF Init
  <2>6. watermark \in [Sessions -> 0 .. NumIds]
    BY SessionsAssumption DEF Init
  <2> QED
    BY <2>3, <2>4, <2>5, <2>6 DEF Init, Typed, Places, Leases, Verdicts
<1>4. Nested(stack)
  BY DEF Init, Nested
<1>5. Retirement
  BY <1>1 DEF Init, Retirement, RetireReason
<1>6. Heard /\ \A c \in Subs : ~Listens(c)
  BY ValuesEmpty, SubParts DEF Init, Heard, Listens
<1>7. LiveOwns
  BY DEF Init, LiveOwns
<1>8. ASSUME NEW c \in Subs PROVE Good(c)
  <2>1. /\ place[c] = "none" /\ lease[c] = "none" /\ window[c] = NewWindow
        /\ out[c] = <<>> /\ verdict[c] = "none" /\ c \notin upstream
    BY DEF Init
  <2>2. Birth(c)
    BY <1>2, <1>6, <2>1, NewWindowIs DEF Birth, Untouched
  <2>3. Life(c)
    BY <1>2, <2>1, NewWindowIs, NothingSaid DEF Life, HasEnd
  <2>4. Slot(c) /\ Told(c)
    BY <1>2, <1>6, <2>1, NewWindowIs DEF Slot, Told
  <2> QED
    BY <2>2, <2>3, <2>4 DEF Good
<1> QED
  BY <1>3, <1>4, <1>5, <1>6, <1>7, <1>8 DEF Inv

LEMMA ReturnInv == ASSUME Inv, Return PROVE Inv'
BY EstablishedKeeps, RefuseKeeps, NoticedKeeps, DoneKeeps, VerdictKeeps, OpenedKeeps,
   GreetedKeeps, ConnectedKeeps, FailedKeeps, SentKeeps, ParsedKeeps, DetachedKeeps,
   ClosingKeeps, AbortingKeeps, RetiredKeeps, DispatchKeeps, DisposeSessionsKeeps,
   SweepKeeps DEF Return

LEMMA NextInv == ASSUME Inv, [Next]_vars PROVE Inv'
<1>1. CASE Return
  BY <1>1, ReturnInv
<1>2. ASSUME NEW c \in Subs,
             \/ Subscribe(c)
             \/ \E v \in {"allowed", "denied", "rejected"} : Settle(c, v)
             \/ Decide(c)
             \/ Emit(c)
             \/ \E terminal \in {"complete", "error"} : End(c, terminal)
             \/ Ack(c)
             \/ Unsubscribe(c)
      PROVE  Inv'
  BY <1>2, SubscribeKeeps, SettleKeeps, DecideKeeps, EmitKeeps, EndKeeps, AckKeeps,
     UnsubscribeKeeps
<1>3. CASE \E s \in Sessions, reason \in Reasons \ {"dispose"} : Retire(s, reason)
  BY <1>3, RetireKeeps
<1>4. CASE Dispose
  BY <1>4, DisposeKeeps
<1>5. CASE UNCHANGED vars
  <2>1. /\ UNCHANGED <<hasAuthorize, watermark, registry, verdict, window, upstream,
                       history, lost, out>>
        /\ status' = status /\ disposed' = disposed /\ stack' = stack
    BY <1>5 DEF vars, server
  <2>2. Frames' = Frames /\ \A at : Is(at)' <=> Is(at)
    BY <2>1 DEF Frames, Is
  <2>3. /\ status' \in [Sessions -> {"fresh", "current", "closing"} \cup AllReasons]
        /\ disposed' \in BOOLEAN /\ (disposed => disposed')
        /\ stack' \in Seq(FrameSet) /\ \A f \in Frames' : FrameOK(f)
    BY <2>1, <2>2 DEF Inv, Typed
  <2>4. Nested(stack')
    BY <2>1 DEF Inv
  <2>5. Retirement'
    BY <2>1, <2>2 DEF Inv, Retirement, Dispatching, RetireReason, ForDispose, registry
  <2>6. \A d \in Subs : Onward(d)
    BY <2>1, <2>2 DEF Onward, Overtaken, RetireReason, registry
  <2>7. /\ \A f \in Frames : f.sub \in Subs => f \in Frames'
        /\ \A f \in Frames' : f.sub \in Subs => f \in Frames
    BY <2>2
  <2> QED
    BY <2>1, <2>3, <2>4, <2>5, <2>6, <2>7, OtherCalls
<1> QED
  BY <1>1, <1>2, <1>3, <1>4, <1>5 DEF Next

\* What is at the same time pending, connected, sent or on the stack of calls agrees, at
\* every point of main/subscriptions.ts: the invariant the theorems rest on.
THEOREM InvCorrect == Spec => []Inv
<1>1. Init => Inv
  BY InitInv
<1>2. Inv /\ [Next]_vars => Inv'
  BY NextInv
<1> QED
  BY <1>1, <1>2, PTL DEF Spec

\* The pending and consumer maps, the slot leases and liveStates agree whenever user code
\* can look at them.
THEOREM SlotsAndMapsCorrect == Spec => []SlotsAndMaps
<1>1. ASSUME Inv PROVE SlotsAndMaps
  <2>1. /\ Typed /\ LiveOwns /\ \A c \in Subs : Slot(c)
    BY <1>1 DEF Inv, Good
  <2>2. TypeOK
    <3>1. \A i \in 1 .. Len(stack) : DOMAIN stack[i] = {"at", "sub", "arg"}
      <4>1. \A f \in FrameSet : DOMAIN f = {"at", "sub", "arg"}
        BY DEF FrameSet
      <4>2. stack \in Seq(FrameSet)
        BY <2>1 DEF Typed
      <4> QED
        BY <4>1, <4>2
    <3> QED
      BY <2>1, <3>1 DEF Typed, TypeOK, Places, Leases, Verdicts, WindowSet, Messages
  <2>3. \A c \in Subs :
          /\ lease[c] = "held" => place[c] # "none"
          /\ place[c] # "none" /\ lease[c] # "held" =>
               place[c] = "pending" /\ \E i \in DOMAIN stack : stack[i].at = "sweeping"
    <3>1. Is("sweeping") => \E i \in DOMAIN stack : stack[i].at = "sweeping"
      BY DEF Is, Frames, ToSet
    <3>2. \A c \in Subs : place[c] \in Places
      BY <2>1 DEF Typed
    <3> QED
      BY <2>1, <3>1, <3>2 DEF Slot, Places
  <2>4. Idle /\ ~disposed => live = {s \in Sessions : OpenIn(s) # {}}
    BY <2>1 DEF LiveOwns, OpenIn, Slot, Typed
  <2> QED
    BY <2>2, <2>3, <2>4 DEF SlotsAndMaps, SlotsMatchEntries
<1> QED
  BY <1>1, InvCorrect, PTL

\* A Renderer hears subscribed once and first, and nothing after a terminal.
THEOREM MessageProtocolCorrect == Spec => []MessageProtocol
<1>1. ASSUME Inv PROVE MessageProtocol
  BY <1>1 DEF Inv, Good, Life, Protocol, MessageProtocol
<1> QED
  BY <1>1, InvCorrect, PTL

\* What no call in progress is about is open and connected, or gone.
LEMMA AtRest ==
  ASSUME Inv, Idle, NEW c \in Subs
  PROVE  /\ c \in upstream <=> place[c] = "consumer" /\ Accepting(window[c])
         /\ place[c] = "consumer" =>
              ~window[c].closed /\ ~window[c].concluded /\ Listens(c)
         /\ place[c] = "pending" => Listens(c)
         /\ place[c] \in Places
<1>1. /\ Birth(c) /\ Life(c) /\ Slot(c) /\ place[c] \in Places
  BY InvParts
<1>2. /\ \A at : ~Has(at, c)
      /\ ~EndDue(c) /\ ~EndSent(c) /\ ~Is("sweeping")
  BY NothingUp DEF Idle
<1>3. place[c] = "consumer" =>
        /\ ~window[c].closed /\ ~window[c].concluded /\ window[c].opened
        /\ Listens(c)
  BY <1>1, <1>2 DEF Birth, Life, Slot
<1>4. c \in upstream => place[c] = "consumer" /\ Accepting(window[c])
  BY <1>1, <1>2 DEF Birth, Life, Accepting
<1>5. place[c] = "consumer" /\ Accepting(window[c]) => c \in upstream
  BY <1>1, <1>2, <1>3 DEF Life
<1>6. place[c] = "pending" => Listens(c)
  BY <1>1, <1>2 DEF Slot
<1> QED
  BY <1>1, <1>3, <1>4, <1>5, <1>6

LEMMA RetiredIsEmpty ==
  ASSUME Inv, Idle, NEW c \in Subs, RetireReason(SessionOf(c)) # "none"
  PROVE  place[c] = "none" /\ listeners[SessionOf(c)] = <<>>
<1>1. listeners[SessionOf(c)] = <<>>
  BY SubParts, NothingUp DEF Idle
<1>2. ~Listens(c)
  BY <1>1, ValuesEmpty DEF Listens
<1> QED
  BY <1>1, <1>2, AtRest DEF Places

\* A source is released when its consumer ends, by whichever of its ends comes first, and
\* nothing of a session survives it.
THEOREM SourcesEndCorrect == Spec => []SourcesEnd
<1>1. ASSUME Inv PROVE SourcesEnd
  <2>1. SourcesFollowConsumers
    BY <1>1, AtRest DEF SourcesFollowConsumers
  <2>2. ASSUME Idle, NEW s \in Sessions, RetireReason(s) # "none"
        PROVE  /\ OpenIn(s) = {} /\ HeldBy(s) = {} /\ listeners[s] = <<>>
               /\ \A c \in upstream : SessionOf(c) # s
    <3>1. \A c \in Subs : SessionOf(c) = s => place[c] = "none"
      BY <1>1, <2>2, RetiredIsEmpty
    <3>2. \A c \in Subs : lease[c] = "held" => place[c] # "none"
      BY <1>1 DEF Inv, Good, Slot
    <3>3. upstream \subseteq Subs
      BY <1>1 DEF Inv, Typed
    <3>4. \A c \in upstream : place[c] = "consumer"
      BY <1>1, <2>2, <3>3, AtRest
    <3>5. listeners[s] = <<>>
      BY <1>1, <2>2, NothingUp DEF Idle
    <3> QED
      BY <3>1, <3>2, <3>3, <3>4, <3>5 DEF OpenIn, HeldBy
  <2> QED
    BY <2>1, <2>2 DEF SourcesEnd, NothingLeftBehind
<1> QED
  BY <1>1, InvCorrect, PTL

\* Whoever was accepted and did not give up hears the end when the document outlives its
\* session, whichever calls were in progress when it was retired.
THEOREM EveryoneIsToldCorrect == Spec => []EveryoneIsTold
<1>1. ASSUME Inv PROVE EveryoneIsTold
  <2> SUFFICES ASSUME Idle, NEW c \in Subs,
                      RetireReason(SessionOf(c)) \in {"detach", "dispose"},
                      RetireReason(SessionOf(c)) = "detach" => ~disposed,
                      lease[c] # "none", c \notin left, c \notin lost
               PROVE  HasEnd(c)
    BY DEF EveryoneIsTold, HasEnd, Ended
  <2>1. place[c] = "none"
    BY <1>1, RetiredIsEmpty
  <2>2. ~Overtaken(SessionOf(c))
    BY DEF Overtaken, RetireReason, AllReasons
  <2>3. (\A at : ~Has(at, c)) /\ ~EndDue(c)
    BY <1>1, NothingUp DEF Idle
  <2> QED
    BY <1>1, <2>1, <2>2, <2>3, InvParts DEF Told
<1> QED
  BY <1>1, InvCorrect, PTL

\* Only the step after subscribed(0) connects a source.
LEMMA OnlyGreeted ==
  ASSUME Inv, Next, ~Greeted PROVE upstream' \subseteq upstream
<1>1. \A c, terminal, below : Terminate(c, terminal, below) => upstream' \subseteq upstream
  BY DEF Terminate
<1>2. CASE Return
  <2>1. CASE Established \/ Refuse \/ Noticed \/ Done \/ Authorizing \/ Denying
    BY <2>1 DEF Established, Refuse, Noticed, Done, Authorizing, Denying
  <2>2. CASE Opened \/ Sent \/ Detached \/ Closing
    BY <2>2 DEF Opened, Sent, Detached, Closing
  <2>3. CASE Connected \/ Aborting
    BY <2>3 DEF Connected, Aborting
  <2>4. CASE Failed \/ Parsed
    BY <1>1, <2>4 DEF Failed, Parsed
  <2>5. CASE Retired \/ Dispatch \/ DisposeSessions \/ Sweep
    BY <2>5 DEF Retired, Dispatch, DisposeSessions, Sweep
  <2> QED
    BY <1>2, <2>1, <2>2, <2>3, <2>4, <2>5 DEF Return
<1>3. ASSUME NEW c \in Subs,
             \/ Subscribe(c)
             \/ \E v \in {"allowed", "denied", "rejected"} : Settle(c, v)
             \/ Decide(c)
             \/ Emit(c)
             \/ Ack(c)
             \/ Unsubscribe(c)
      PROVE  upstream' \subseteq upstream
  BY <1>3 DEF Subscribe, Settle, Decide, Emit, Ack, Unsubscribe
<1>4. ASSUME NEW c \in Subs, NEW terminal, End(c, terminal) PROVE upstream' \subseteq upstream
  BY <1>1, <1>4 DEF End
<1>5. CASE Dispose \/ \E s \in Sessions, reason \in Reasons \ {"dispose"} : Retire(s, reason)
  BY <1>5 DEF Dispose, Retire
<1> QED
  BY <1>2, <1>3, <1>4, <1>5 DEF Next

\* No user source is subscribed for a session that was retired, whenever the retirement
\* slips in between authorize, the diagnostics and the sends.
THEOREM NoSourceForRetiredCorrect == Spec => NoSourceForRetired
<1> DEFINE P == \A c \in upstream' \ upstream : RetireReason(SessionOf(c)) = "none"
<1>1. ASSUME Inv, [Next]_vars PROVE [P]_vars
  <2>1. CASE UNCHANGED vars
    BY <2>1
  <2>2. CASE Next /\ Greeted
    BY <1>1, <2>2, GreetedInTime
  <2>3. CASE Next /\ ~Greeted
    BY <1>1, <2>3, OnlyGreeted
  <2> QED
    BY <1>1, <2>1, <2>2, <2>3
<1>2. Inv /\ [Next]_vars => [P]_vars
  BY <1>1
<1> HIDE DEF P
<1>3. Spec => [][P]_vars
  BY <1>2, InvCorrect, PTL DEF Spec
<1> QED
  BY <1>3 DEF P, NoSourceForRetired
=============================================================================
