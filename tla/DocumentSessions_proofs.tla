---------------------- MODULE DocumentSessions_proofs -----------------------
(***************************************************************************)
(* Theorems about DocumentSessions.tla, for every set of webContents, all  *)
(* limits and bounds.  The first two hold whatever the sink and the retire *)
(* listeners call, the third under the hypotheses of CallsAllowed.         *)
(***************************************************************************)
EXTENDS DocumentSessions, SequenceLemmas

Points == {"attaching", "closing", "notifying", "establishing", "opening", "disposing"}
FrameSet == [at : Points, on : Nat, session : Nat,
             arg : Reasons \cup {"none"} \cup Clients]
SessionSet == [attachment : Nat, client : Clients, reason : Reasons \cup {"none"}]
Made == 1 .. Len(homes)

Types ==
  /\ frame \in [Contents -> Documents]
  /\ destroyed \subseteq Contents
  /\ disposed \in BOOLEAN
  /\ homes \in Seq(Contents)
  /\ attached \in [Contents -> Nat]
  /\ current \in Seq(Nat) /\ Len(current) = Len(homes)
  /\ sessions \in Seq(SessionSet)
  /\ retired \in [Contents -> Seq(Clients)]
  /\ stack \in Seq(FrameSet)

\* The maps belong together: attachments with their webContents and their listeners,
\* sessions with their attachment, and the current session of an attachment is open, and
\* of the document that is shown.
Maps ==
  /\ \A w \in Contents : attached[w] # None => attached[w] \in Made /\ homes[attached[w]] = w
  /\ watching = {attached[w] : w \in Contents} \ {None}
  /\ \A s \in 1 .. Len(sessions) : sessions[s].attachment \in Made
  /\ \A a \in Made : current[a] # None =>
       /\ attached[homes[a]] = a
       /\ current[a] \in 1 .. Len(sessions)
       /\ sessions[current[a]].attachment = a /\ sessions[current[a]].reason = "none"
       /\ DocumentOf(sessions[current[a]].client) = frame[homes[a]]
  /\ \A w \in Contents : Len(retired[w]) <= MaxRetired

\* What a call in progress knows.
FrameKnown(f) ==
  /\ f.at = "attaching" => f.on \in Contents
  /\ f.at \in {"closing", "notifying"} =>
       /\ f.on \in Made /\ f.arg \in Reasons
       /\ f.session \in 1 .. Len(sessions) /\ sessions[f.session].attachment = f.on
  /\ f.at = "closing" => sessions[f.session].reason = "none" /\ current[f.on] # f.session
  /\ f.at = "establishing" =>
       /\ f.on \in Made /\ f.arg \in Clients
       /\ DocumentOf(f.arg) = frame[homes[f.on]]

\* No two calls in progress close the same session.
Apart(q) ==
  \A i, j \in 1 .. Len(q) :
    i # j /\ q[i].at = "closing" /\ q[j].at = "closing" => q[i].session # q[j].session

ClosingIn(q, s) == \E f \in ToSet(q) : f.at = "closing" /\ f.session = s

\* An open session is the current one of its attachment or being closed.
Reached ==
  \A s \in 1 .. Len(sessions) : sessions[s].reason = "none" =>
    current[sessions[s].attachment] = s \/ ClosingIn(stack, s)

Core ==
  /\ Types /\ Maps
  /\ \A f \in ToSet(stack) : FrameKnown(f)
  /\ Apart(stack) /\ Reached

-----------------------------------------------------------------------------
(* Frames and the stack *)

LEMMA FrameMade ==
  ASSUME NEW at \in Points, NEW on \in Nat, NEW session \in Nat,
         NEW arg \in Reasons \cup {"none"} \cup Clients,
         NEW f, f = Frame(at, on, session, arg)
  PROVE  /\ f \in FrameSet
         /\ f.at = at /\ f.on = on /\ f.session = session /\ f.arg = arg
BY DEF Frame, FrameSet

\* The session-closed diagnostics of f are over, its listeners come.
LEMMA FrameMoved ==
  ASSUME NEW f \in FrameSet, NEW g, g = [f EXCEPT !.at = "notifying"]
  PROVE  /\ g \in FrameSet
         /\ g.at = "notifying" /\ g.on = f.on /\ g.session = f.session /\ g.arg = f.arg
BY DEF FrameSet, Points

\* One more frame, which closes a session no other one closes.
LEMMA ApartPushed ==
  ASSUME NEW q \in Seq(FrameSet), Apart(q), NEW f \in FrameSet,
         f.at = "closing" => ~ClosingIn(q, f.session),
         NEW r, Pushed(q, r, f)
  PROVE  /\ r \in Seq(FrameSet) /\ ToSet(r) = ToSet(q) \cup {f}
         /\ Apart(r)
<1>1. /\ r \in Seq(FrameSet) /\ Len(r) = Len(q) + 1 /\ Len(q) \in Nat
      /\ \A i \in 1 .. Len(q) : r[i] = q[i]
      /\ r[Len(q) + 1] = f
  BY Appended DEF Pushed
<1>2. \A i \in 1 .. Len(r) : i \in 1 .. Len(q) \/ i = Len(q) + 1
  BY <1>1
<1>3. \A i \in 1 .. Len(q) : q[i] \in ToSet(q)
  BY Values
<1>4. \A i \in 1 .. Len(q) :
        q[i].at = "closing" /\ f.at = "closing" => q[i].session # f.session
  BY <1>3 DEF ClosingIn
<1>5. Apart(r)
  BY <1>1, <1>2, <1>4 DEF Apart
<1> QED
  BY <1>1, <1>5, ValuesAppended

\* The stack without its innermost frame.
LEMMA ApartPopped ==
  ASSUME NEW q \in Seq(FrameSet), Apart(q), NEW r, NEW f, Popped(q, r, f)
  PROVE  /\ r \in Seq(FrameSet) /\ f \in FrameSet /\ ToSet(q) = ToSet(r) \cup {f}
         /\ Apart(r)
         /\ f.at = "closing" => ~ClosingIn(r, f.session)
<1>1. q # <<>> /\ r = SubSeq(q, 1, Len(q) - 1) /\ f = q[Len(q)]
  BY DEF Popped
<1>2. /\ Len(q) \in Nat \ {0} /\ r \in Seq(FrameSet) /\ Len(r) = Len(q) - 1
      /\ f \in FrameSet
      /\ \A i \in 1 .. Len(q) - 1 : r[i] = q[i]
  BY <1>1, StackParts
<1>3. \A i \in 1 .. Len(r) : i \in 1 .. Len(q) /\ i # Len(q) /\ r[i] = q[i]
  BY <1>2
<1>4. Len(q) \in 1 .. Len(q)
  BY <1>2
<1>5. Apart(r)
  BY <1>3 DEF Apart
<1>6. ASSUME f.at = "closing", NEW g \in ToSet(r), g.at = "closing"
      PROVE  g.session # f.session
  <2>1. PICK i \in 1 .. Len(r) : r[i] = g
    BY <1>2, Values
  <2> QED
    BY <1>1, <1>3, <1>4, <1>6, <2>1 DEF Apart
<1> QED
  BY <1>2, <1>5, <1>6, ValuesPopped DEF ClosingIn

LEMMA TopFrames ==
  ASSUME Core, stack # <<>>
  PROVE  /\ Rest \in Seq(FrameSet) /\ Top \in FrameSet /\ FrameKnown(Top)
         /\ ToSet(stack) = ToSet(Rest) \cup {Top} /\ Apart(Rest)
         /\ Top.at = "closing" => ~ClosingIn(Rest, Top.session)
<1>1. Popped(stack, Rest, Top) /\ stack \in Seq(FrameSet) /\ Apart(stack)
  BY DEF Popped, Top, Rest, Core, Types
<1> QED
  BY <1>1, ApartPopped DEF Core

\* One value of a sequence is replaced.
LEMMA Replaced ==
  ASSUME NEW S, NEW q \in Seq(S), NEW k \in 1 .. Len(q), NEW e \in S,
         NEW r, r = [q EXCEPT ![k] = e]
  PROVE  /\ r \in Seq(S) /\ Len(r) = Len(q) /\ r[k] = e
         /\ \A i \in 1 .. Len(q) : i # k => r[i] = q[i]
BY ExceptSeq

-----------------------------------------------------------------------------
(* The steps of the sessions *)

\* Steps that leave the attachments and the sessions alone.
LEMMA QuietCore ==
  ASSUME Core, UNCHANGED <<frame, homes, attached, watching, current, sessions>>,
         destroyed' \subseteq Contents, disposed' \in BOOLEAN,
         retired' \in [Contents -> Seq(Clients)],
         \A w \in Contents : Len(retired'[w]) <= MaxRetired,
         stack' \in Seq(FrameSet), Apart(stack'),
         \A f \in ToSet(stack') : f \in ToSet(stack) \/ FrameKnown(f),
         \A f \in ToSet(stack) : f.at = "closing" => f \in ToSet(stack')
  PROVE  Core'
<1>1. Types'
  BY DEF Core, Types
<1>2. Maps'
  BY DEF Core, Maps, Made
<1>3. \A f \in ToSet(stack') : FrameKnown(f)'
  <2>1. ASSUME NEW f \in ToSet(stack')
        PROVE  FrameKnown(f)'
    <3>1. FrameKnown(f)
      BY DEF Core
    <3> QED
      BY <3>1 DEF FrameKnown, Made
  <2> QED
    BY <2>1
<1>4. Reached'
  BY DEF Core, Reached, ClosingIn
<1> QED
  BY <1>1, <1>2, <1>3, <1>4 DEF Core, Apart

\* #retire leaves the other sessions alone.
LEMMA RetiredSession ==
  ASSUME Core, NEW a \in Made, NEW reason, NEW below, Retire(a, reason, below)
  PROVE  /\ current' \in Seq(Nat) /\ Len(current') = Len(homes)
         /\ \A b \in Made : b # a => current'[b] = current[b]
         /\ current'[a] = None
<1>1. current \in Seq(Nat) /\ Len(current) = Len(homes) /\ a \in 1 .. Len(current)
  BY DEF Core, Types, Made
<1>2. CASE current[a] = None
  BY <1>1, <1>2 DEF Retire
<1>3. CASE current[a] # None
  <2>1. current' = [current EXCEPT ![a] = None] /\ None \in Nat
    BY <1>3 DEF Retire, None
  <2> QED
    BY <1>1, <2>1, Replaced DEF Made
<1> QED
  BY <1>2, <1>3

\* #retire of the attachment of a webContents, or of one that is just detached, with
\* `below' under what it calls.
LEMMA RetireCore ==
  ASSUME Core, NEW a \in Made, attached[homes[a]] = a, NEW reason \in Reasons,
         NEW below \in Seq(FrameSet), Apart(below),
         \A f \in ToSet(below) : f \in ToSet(stack) \/ (f.at # "closing" /\ FrameKnown(f)),
         \A f \in ToSet(stack) : f.at = "closing" => f \in ToSet(below),
         UNCHANGED <<homes, sessions>>,
         frame' \in [Contents -> Documents], destroyed' \subseteq Contents,
         disposed' \in BOOLEAN, attached' \in [Contents -> Nat],
         \A v \in Contents : v # homes[a] => frame'[v] = frame[v] /\ attached'[v] = attached[v],
         attached'[homes[a]] \in {a, None},
         watching' = {attached'[w] : w \in Contents} \ {None},
         frame' = frame \/ \A f \in ToSet(below) : f.at # "establishing",
         Retire(a, reason, below)
  PROVE  Core'
<1>1. /\ homes \in Seq(Contents) /\ homes[a] \in Contents
      /\ current \in Seq(Nat) /\ Len(current) = Len(homes) /\ a \in 1 .. Len(current)
      /\ Made' = Made
  BY DEF Core, Types, Made
<1>2. /\ retired' \in [Contents -> Seq(Clients)]
      /\ \A w \in Contents : Len(retired'[w]) <= MaxRetired
  <2>1. retired' = retired \/ retired' = [retired EXCEPT ![homes[a]] = Settled(@, reason)]
    BY DEF Retire
  <2>2. retired \in [Contents -> Seq(Clients)] /\ \A w \in Contents : Len(retired[w]) <= MaxRetired
    BY DEF Core, Types, Maps
  <2>3. PICK e : e = Settled(retired[homes[a]], reason)
    OBVIOUS
  <2>4. e \in Seq(Clients) /\ Len(e) <= MaxRetired
    <3>1. CASE e = <<>>
      BY <3>1, RetiredAssumption
    <3>2. CASE e = retired[homes[a]]
      BY <1>1, <2>2, <3>2
    <3> QED
      BY <2>3, <3>1, <3>2 DEF Settled
  <2>5. CASE retired' = [retired EXCEPT ![homes[a]] = Settled(@, reason)]
    <3>1. \A w \in Contents : retired'[w] = IF w = homes[a] THEN e ELSE retired[w]
      BY <2>2, <2>3, <2>5
    <3>2. retired' = [w \in Contents |-> IF w = homes[a] THEN e ELSE retired[w]]
      BY <2>2, <2>3, <2>5
    <3> HIDE <2>5
    <3> QED
      BY <2>2, <2>4, <3>1, <3>2
  <2> QED
    BY <2>1, <2>2, <2>5
<1>3. \A b \in Made : b # a /\ current[b] # None => homes[b] # homes[a]
  BY DEF Core, Maps
<1>4. /\ current' \in Seq(Nat) /\ Len(current') = Len(homes)
      /\ \A b \in Made : b # a => current'[b] = current[b]
      /\ current'[a] = None
  BY RetiredSession
<1>5. Maps'
  <2>1. ASSUME NEW w \in Contents, attached'[w] # None
        PROVE  attached'[w] \in Made /\ homes[attached'[w]] = w
    <3>1. CASE w = homes[a]
      BY <2>1, <3>1
    <3>2. CASE w # homes[a]
      BY <2>1, <3>2 DEF Core, Maps
    <3> QED
      BY <3>1, <3>2
  <2>2. \A b \in Made : current'[b] # None =>
          /\ attached'[homes[b]] = b
          /\ current'[b] \in 1 .. Len(sessions)
          /\ sessions[current'[b]].attachment = b /\ sessions[current'[b]].reason = "none"
          /\ DocumentOf(sessions[current'[b]].client) = frame'[homes[b]]
    <3>1. ASSUME NEW b \in Made, current'[b] # None
          PROVE  /\ b # a /\ current'[b] = current[b]
                 /\ homes[b] \in Contents /\ homes[b] # homes[a]
      <4>1. b # a /\ current'[b] = current[b]
        BY <1>4, <3>1
      <4>2. homes[b] \in Contents
        BY ONLY <1>1, b \in Made DEF Made
      <4>3. homes[b] # homes[a]
        BY <1>3, <3>1, <4>1
      <4> QED
        BY <4>1, <4>2, <4>3
    <3> QED
      BY <3>1 DEF Core, Maps
  <2> QED
    BY <1>1, <1>2, <1>4, <2>1, <2>2 DEF Core, Maps
<1>6. ASSUME NEW f, FrameKnown(f), f.at = "establishing" => frame' = frame
      PROVE  FrameKnown(f)'
  <2>1. f.at = "closing" => current'[f.on] # f.session
    <3>1. f.at = "closing" => f.on \in Made /\ f.session # None /\ current[f.on] # f.session
      BY <1>6 DEF FrameKnown, None
    <3> QED
      BY <1>4, <3>1
  <2> QED
    BY <1>1, <1>6, <2>1 DEF FrameKnown
<1>7. ASSUME NEW f \in ToSet(below)
      PROVE  FrameKnown(f)'
  <2>1. FrameKnown(f)
    BY DEF Core
  <2> QED
    BY <1>6, <2>1
<1>8. CASE current[a] = None
  <2>1. stack' = below /\ current' = current
    BY <1>8 DEF Retire
  <2>2. Types'
    BY <1>2, <2>1 DEF Core, Types
  <2>3. Reached'
    BY <2>1 DEF Core, Reached, ClosingIn
  <2> QED
    BY <1>5, <1>7, <2>1, <2>2, <2>3 DEF Core, Apart
<1>9. CASE current[a] # None
  <2>0. PICK f : f = Frame("closing", a, current[a], reason)
    OBVIOUS
  <2>1. /\ current[a] \in 1 .. Len(sessions) /\ current[a] \in Nat
        /\ sessions[current[a]].attachment = a /\ sessions[current[a]].reason = "none"
    BY <1>9 DEF Core, Maps
  <2>2. /\ f \in FrameSet /\ f.at = "closing" /\ f.on = a /\ f.session = current[a]
        /\ f.arg = reason
    <3>1. /\ "closing" \in Points /\ a \in Nat
          /\ reason \in Reasons \cup {"none"} \cup Clients
      BY DEF Points, Made
    <3> QED
      BY <2>0, <2>1, <3>1, FrameMade
  <2>3. Pushed(below, stack', f)
    BY <1>9, <2>0 DEF Retire, Pushed
  <2>4. ~ClosingIn(below, f.session)
    <3>1. ASSUME NEW g \in ToSet(below), g.at = "closing", g.session = f.session
          PROVE  FALSE
      <4>1. FrameKnown(g)
        BY <3>1 DEF Core
      <4>2. g.on = a /\ current[g.on] # g.session
        BY <2>1, <2>2, <3>1, <4>1 DEF FrameKnown
      <4> QED
        BY <2>2, <3>1, <4>2
    <3> QED
      BY <3>1 DEF ClosingIn
  <2>5. /\ stack' \in Seq(FrameSet) /\ ToSet(stack') = ToSet(below) \cup {f}
        /\ Apart(stack')
    BY <2>2, <2>3, <2>4, ApartPushed
  <2>6. FrameKnown(f)'
    <3>1. current'[a] # f.session
      BY <1>4, <2>1, <2>2 DEF None
    <3> QED
      BY <1>1, <2>1, <2>2, <3>1 DEF FrameKnown
  <2>7. Reached'
    <3>1. ASSUME NEW s \in 1 .. Len(sessions), sessions[s].reason = "none"
          PROVE  current'[sessions[s].attachment] = s \/ ClosingIn(stack', s)
      <4>0. sessions[s].attachment \in Made
        BY DEF Core, Maps
      <4>1. CASE ClosingIn(stack, s)
        BY <2>5, <4>1 DEF ClosingIn
      <4>2. CASE current[sessions[s].attachment] = s
        <5>1. CASE sessions[s].attachment = a
          BY <2>2, <2>5, <4>2, <5>1 DEF ClosingIn
        <5>2. CASE sessions[s].attachment # a
          BY <1>4, <4>0, <4>2, <5>2
        <5> QED
          BY <5>1, <5>2
      <4> QED
        BY <3>1, <4>1, <4>2 DEF Core, Reached
    <3> QED
      BY <3>1 DEF Reached, ClosingIn
  <2>8. Types'
    BY <1>2, <1>4, <2>5 DEF Core, Types
  <2> QED
    BY <1>5, <1>7, <2>5, <2>6, <2>7, <2>8 DEF Core, Apart
<1> QED
  BY <1>8, <1>9

\* #detach of an attached webContents.
LEMMA DetachedCore ==
  ASSUME Core, NEW w \in Contents, attached[w] # None, NEW reason \in Reasons,
         NEW below \in Seq(FrameSet), Apart(below),
         \A f \in ToSet(below) : f \in ToSet(stack) \/ (f.at # "closing" /\ FrameKnown(f)),
         \A f \in ToSet(stack) : f.at = "closing" => f \in ToSet(below),
         UNCHANGED <<frame, destroyed, disposed, homes, sessions>>,
         Detached(w, reason, below)
  PROVE  Core'
<1>0. PICK a : a = attached[w]
  OBVIOUS
<1>1. a \in Made /\ homes[a] = w /\ attached[homes[a]] = a
  BY <1>0 DEF Core, Maps
<1>2. /\ attached' = [attached EXCEPT ![w] = None] /\ watching' = watching \ {a}
      /\ Retire(a, reason, below)
  BY <1>0 DEF Detached
<1>3. /\ attached' \in [Contents -> Nat] /\ attached'[w] = None
      /\ \A v \in Contents : v # w => attached'[v] = attached[v]
  BY <1>2 DEF Core, Types, None
<1>4. watching' = {attached'[v] : v \in Contents} \ {None}
  <2>1. \A v \in Contents : v # w /\ attached[v] # None => attached[v] # a
    BY <1>1 DEF Core, Maps
  <2>2. watching = {attached[v] : v \in Contents} \ {None}
    BY DEF Core, Maps
  <2> QED
    BY <1>0, <1>2, <1>3, <2>1, <2>2
<1>5. /\ frame' \in [Contents -> Documents] /\ destroyed' \subseteq Contents
      /\ disposed' \in BOOLEAN
  BY DEF Core, Types
<1> QED
  BY <1>1, <1>2, <1>3, <1>4, <1>5, RetireCore

\* One more call in progress.
LEMMA PushedCore ==
  ASSUME Core, NEW f \in FrameSet, f.at # "closing", NEW q, q = Append(stack, f)
  PROVE  q \in Seq(FrameSet) /\ Apart(q) /\ ToSet(q) = ToSet(stack) \cup {f}
<1>1. Pushed(stack, q, f) /\ stack \in Seq(FrameSet) /\ Apart(stack)
  BY DEF Pushed, Core, Types
<1> QED
  BY <1>1, ApartPushed

LEMMA CoreInit == Init => Core
<1> SUFFICES ASSUME Init PROVE Core
  OBVIOUS
<1>1. ToSet(stack) = {} /\ Apart(stack)
  BY ValuesEmpty DEF Init, Apart
<1>2. Types
  <2>1. 1 \in Documents /\ None \in Nat
    BY DocumentsAssumption DEF Documents, None
  <2>2. homes \in Seq(Contents) /\ current \in Seq(Nat) /\ Len(current) = Len(homes)
    BY DEF Init
  <2>3. sessions \in Seq(SessionSet) /\ stack \in Seq(FrameSet)
    BY DEF Init
  <2>4. retired \in [Contents -> Seq(Clients)]
    BY DEF Init
  <2>5. /\ frame \in [Contents -> Documents] /\ attached \in [Contents -> Nat]
        /\ destroyed \subseteq Contents /\ disposed \in BOOLEAN
    BY <2>1 DEF Init
  <2> QED
    BY <2>2, <2>3, <2>4, <2>5 DEF Types
<1>3. Maps
  <2>1. Made = {} /\ 1 .. Len(sessions) = {}
    BY DEF Init, Made
  <2>2. \A w \in Contents : attached[w] = None
    BY DEF Init
  <2>3. watching = {attached[w] : w \in Contents} \ {None}
    BY <2>2 DEF Init
  <2>4. \A w \in Contents : Len(retired[w]) <= MaxRetired
    BY RetiredAssumption DEF Init
  <2> QED
    BY <2>1, <2>2, <2>3, <2>4 DEF Maps
<1>4. Reached
  BY DEF Init, Reached
<1> QED
  BY <1>1, <1>2, <1>3, <1>4 DEF Core

\* The record of a webContents stays within its limit.
LEMMA RecordedType ==
  ASSUME NEW q \in Seq(Clients), Len(q) <= MaxRetired, NEW c \in Clients
  PROVE  Recorded(q, c) \in Seq(Clients) /\ Len(Recorded(q, c)) <= MaxRetired
<1>1. PICK r : r = With(q, c)
  OBVIOUS
<1>2. r \in Seq(Clients) /\ Len(r) <= Len(q) + 1 /\ Len(r) \in Nat /\ Len(q) \in Nat
  <2>1. CASE r = q
    BY <2>1
  <2>2. CASE r = Append(q, c)
    <3>1. r \in Seq(Clients) /\ Len(r) = Len(q) + 1
      BY <2>2, Appended
    <3> QED
      BY <3>1
  <2> QED
    BY <1>1, <2>1, <2>2 DEF With
<1>3. CASE Len(r) > MaxRetired
  <2>1. r # <<>>
    BY <1>3, RetiredAssumption
  <2>2. Tail(r) \in Seq(Clients) /\ Len(Tail(r)) = Len(r) - 1
    BY <1>2, <2>1, QueueParts
  <2>3. Recorded(q, c) = Tail(r)
    BY <1>1, <1>3 DEF Recorded
  <2> QED
    BY <1>2, <2>2, <2>3, RetiredAssumption
<1>4. CASE ~(Len(r) > MaxRetired)
  <2>1. Recorded(q, c) = r
    BY <1>1, <1>4 DEF Recorded
  <2> QED
    BY <1>2, <1>4, <2>1, RetiredAssumption
<1> QED
  BY <1>3, <1>4

\* The record of one webContents changes.
LEMMA RecordReplaced ==
  ASSUME Core, NEW w \in Contents, NEW e \in Seq(Clients), Len(e) <= MaxRetired,
         retired' = [retired EXCEPT ![w] = e]
  PROVE  /\ retired' \in [Contents -> Seq(Clients)]
         /\ \A v \in Contents : Len(retired'[v]) <= MaxRetired
         /\ retired'[w] = e /\ \A v \in Contents : v # w => retired'[v] = retired[v]
<1>1. retired \in [Contents -> Seq(Clients)] /\ \A v \in Contents : Len(retired[v]) <= MaxRetired
  BY DEF Core, Types, Maps
<1>2. \A v \in Contents : retired'[v] = IF v = w THEN e ELSE retired[v]
  BY <1>1
<1>3. retired' \in [Contents -> Seq(Clients)]
  BY <1>1
<1> QED
  BY <1>1, <1>2, <1>3

\* The session-closed diagnostics return.
LEMMA ClosingCore ==
  ASSUME Core, Closing
  PROVE  Core'
<1>0. PICK f, g, s, e, r :
        /\ f = Top /\ g = [Top EXCEPT !.at = "notifying"] /\ s = Top.session
        /\ e = [sessions[s] EXCEPT !.reason = Top.arg]
        /\ r = Recorded(retired[homes[Top.on]], sessions[s].client)
  OBVIOUS
<1>1. /\ stack # <<>> /\ f.at = "closing"
      /\ retired' = [retired EXCEPT ![homes[f.on]] = r]
      /\ sessions' = [sessions EXCEPT ![s] = e]
      /\ stack' = Append(Rest, g)
      /\ UNCHANGED <<frame, destroyed, disposed, homes, attached, watching, current>>
  BY <1>0 DEF Closing, At, outside
<1>2. /\ Rest \in Seq(FrameSet) /\ f \in FrameSet /\ FrameKnown(f)
      /\ ToSet(stack) = ToSet(Rest) \cup {f} /\ Apart(Rest) /\ ~ClosingIn(Rest, s)
  BY <1>0, <1>1, TopFrames
<1>3. /\ f.on \in Made /\ f.arg \in Reasons /\ s \in 1 .. Len(sessions)
      /\ sessions[s].attachment = f.on /\ current[f.on] # s
  BY <1>0, <1>1, <1>2 DEF FrameKnown
<1>4. /\ sessions \in Seq(SessionSet) /\ homes \in Seq(Contents)
      /\ sessions[s] \in SessionSet /\ homes[f.on] \in Contents
  BY <1>3 DEF Core, Types, Made
<1>5. /\ e \in SessionSet /\ e.reason = f.arg /\ e.reason # "none"
      /\ e.client = sessions[s].client /\ e.attachment = sessions[s].attachment
  BY <1>0, <1>3, <1>4 DEF SessionSet, Reasons, Lifecycle
<1>6. /\ sessions' \in Seq(SessionSet) /\ Len(sessions') = Len(sessions)
      /\ sessions'[s] = e
      /\ \A t \in 1 .. Len(sessions) : t # s => sessions'[t] = sessions[t]
  BY <1>1, <1>3, <1>4, <1>5, Replaced
<1>7. /\ retired' \in [Contents -> Seq(Clients)]
      /\ \A w \in Contents : Len(retired'[w]) <= MaxRetired
  <2>1. retired[homes[f.on]] \in Seq(Clients) /\ Len(retired[homes[f.on]]) <= MaxRetired
    BY <1>4 DEF Core, Types, Maps
  <2>2. r \in Seq(Clients) /\ Len(r) <= MaxRetired
    BY <1>0, <1>4, <2>1, RecordedType DEF SessionSet
  <2> QED
    BY <1>1, <1>4, <2>2, RecordReplaced
<1>8. /\ g \in FrameSet /\ g.at = "notifying" /\ g.on = f.on /\ g.session = s /\ g.arg = f.arg
  BY <1>0, <1>2, FrameMoved
<1>9. stack' \in Seq(FrameSet) /\ Apart(stack') /\ ToSet(stack') = ToSet(Rest) \cup {g}
  BY <1>1, <1>2, <1>8, ApartPushed DEF Pushed
<1>10. Types'
  BY <1>1, <1>6, <1>7, <1>9 DEF Core, Types
<1>11. Maps'
  <2>1. \A a \in Made : current[a] # None => current[a] # s
    BY <1>3 DEF Core, Maps
  <2> QED
    BY <1>1, <1>3, <1>5, <1>6, <1>7, <2>1 DEF Core, Maps, Made
<1>12. ASSUME NEW h \in ToSet(stack')
       PROVE  FrameKnown(h)'
  <2>1. CASE h = g
    BY <1>1, <1>3, <1>5, <1>6, <1>8, <2>1 DEF FrameKnown, Made
  <2>2. CASE h \in ToSet(Rest)
    <3>1. FrameKnown(h) /\ (h.at = "closing" => h.session # s)
      BY <1>2, <2>2 DEF Core, ClosingIn
    <3> QED
      BY <1>1, <1>5, <1>6, <3>1 DEF FrameKnown, Made
  <2> QED
    BY <1>9, <2>1, <2>2
<1>13. Reached'
  <2>1. ASSUME NEW t \in 1 .. Len(sessions), sessions'[t].reason = "none"
        PROVE  current[sessions'[t].attachment] = t \/ ClosingIn(stack', t)
    <3>1. t # s /\ sessions'[t] = sessions[t]
      BY <1>5, <1>6, <2>1
    <3>2. current[sessions[t].attachment] = t \/ ClosingIn(stack, t)
      BY <2>1, <3>1 DEF Core, Reached
    <3>3. ClosingIn(stack, t) => ClosingIn(stack', t)
      BY <1>0, <1>2, <1>9, <3>1 DEF ClosingIn
    <3> QED
      BY <3>1, <3>2, <3>3
  <2> QED
    BY <1>1, <1>6, <2>1 DEF Reached, ClosingIn
<1> QED
  BY <1>9, <1>10, <1>11, <1>12, <1>13 DEF Core, Apart

\* attach() goes on: a new attachment, or none if somebody else made one.
LEMMA AttachingCore ==
  ASSUME Core, Attaching
  PROVE  Core'
<1>0. PICK w, a : w = Top.on /\ a = Len(homes) + 1
  OBVIOUS
<1>1. /\ stack # <<>> /\ Top.at = "attaching" /\ stack' = Rest
      /\ UNCHANGED <<frame, destroyed, disposed, sessions, retired>>
  BY DEF Attaching, At, outside
<1>2. /\ Rest \in Seq(FrameSet) /\ FrameKnown(Top) /\ Apart(Rest)
      /\ ToSet(stack) = ToSet(Rest) \cup {Top}
  BY <1>1, TopFrames
<1>3. w \in Contents
  BY <1>0, <1>1, <1>2 DEF FrameKnown
<1>4. CASE attached[w] # None
  <2>1. UNCHANGED <<homes, attached, watching, current>>
    BY <1>0, <1>4 DEF Attaching
  <2>2. /\ destroyed \subseteq Contents /\ disposed \in BOOLEAN
        /\ retired \in [Contents -> Seq(Clients)]
        /\ \A v \in Contents : Len(retired[v]) <= MaxRetired
    BY DEF Core, Types, Maps
  <2> QED
    BY <1>1, <1>2, <2>1, <2>2, QuietCore
<1>5. CASE attached[w] = None
  <2>1. /\ homes' = Append(homes, w) /\ current' = Append(current, None)
        /\ attached' = [attached EXCEPT ![w] = a] /\ watching' = watching \cup {a}
    BY <1>0, <1>5 DEF Attaching
  <2>2. /\ homes \in Seq(Contents) /\ current \in Seq(Nat) /\ Len(current) = Len(homes)
        /\ None \in Nat /\ Len(homes) \in Nat
    BY DEF Core, Types, None
  <2>3. /\ homes' \in Seq(Contents) /\ Len(homes') = a /\ homes'[a] = w
        /\ \A b \in Made : homes'[b] = homes[b]
    BY <1>0, <1>3, <2>1, <2>2, Appended DEF Made
  <2>4. /\ current' \in Seq(Nat) /\ Len(current') = a /\ current'[a] = None
        /\ \A b \in Made : current'[b] = current[b]
    BY <1>0, <2>1, <2>2, Appended DEF Made
  <2>5. /\ a \in Nat /\ a # None /\ a \notin Made /\ Made' = Made \cup {a}
    BY <1>0, <2>2, <2>3 DEF Made, None
  <2>6. /\ attached' \in [Contents -> Nat] /\ attached'[w] = a
        /\ \A v \in Contents : v # w => attached'[v] = attached[v]
    BY <1>3, <2>1, <2>5 DEF Core, Types
  <2>7. watching' = {attached'[v] : v \in Contents} \ {None}
    <3>1. watching = {attached[v] : v \in Contents} \ {None}
      BY DEF Core, Maps
    <3> QED
      BY <1>3, <1>5, <2>1, <2>5, <2>6, <3>1
  <2>8. Types'
    BY <1>1, <1>2, <2>3, <2>4, <2>6 DEF Core, Types
  <2>9. Maps'
    <3>1. \A v \in Contents : attached'[v] # None =>
            attached'[v] \in Made' /\ homes'[attached'[v]] = v
      BY <1>3, <2>3, <2>5, <2>6 DEF Core, Maps
    <3>2. \A s \in 1 .. Len(sessions) : sessions[s].attachment \in Made'
      BY <2>5 DEF Core, Maps
    <3>3. ASSUME NEW b \in Made', current'[b] # None
          PROVE  /\ attached'[homes'[b]] = b
                 /\ current'[b] \in 1 .. Len(sessions)
                 /\ sessions[current'[b]].attachment = b
                 /\ sessions[current'[b]].reason = "none"
                 /\ DocumentOf(sessions[current'[b]].client) = frame[homes'[b]]
      <4>1. b \in Made /\ homes'[b] = homes[b] /\ current'[b] = current[b]
        BY <2>3, <2>4, <2>5, <3>3
      <4>2. homes[b] \in Contents /\ attached[homes[b]] = b /\ b # None
        BY <2>2, <3>3, <4>1 DEF Core, Maps, Made, None
      <4>3. attached'[homes[b]] = b
        BY <1>5, <2>6, <4>2
      <4> QED
        BY <3>3, <4>1, <4>3 DEF Core, Maps
    <3> QED
      BY <1>1, <2>7, <3>1, <3>2, <3>3 DEF Core, Maps
  <2>10. ASSUME NEW f \in ToSet(stack')
         PROVE  FrameKnown(f)'
    <3>1. FrameKnown(f)
      BY <1>1, <1>2 DEF Core
    <3> QED
      BY <1>1, <2>3, <2>4, <2>5, <3>1 DEF FrameKnown
  <2>11. Reached'
    <3>1. ASSUME NEW s \in 1 .. Len(sessions), sessions[s].reason = "none"
          PROVE  current'[sessions[s].attachment] = s \/ ClosingIn(stack', s)
      <4>1. sessions[s].attachment \in Made
        BY DEF Core, Maps
      <4>2. ClosingIn(stack, s) => ClosingIn(stack', s)
        BY <1>1, <1>2 DEF ClosingIn
      <4> QED
        BY <2>4, <3>1, <4>1, <4>2 DEF Core, Reached
    <3> QED
      BY <1>1, <3>1 DEF Reached, ClosingIn
  <2> QED
    BY <1>1, <1>2, <2>8, <2>9, <2>10, <2>11 DEF Core, Apart
<1> QED
  BY <1>4, <1>5

\* establish() goes on: a new session, unless what happened meanwhile forbids it.
LEMMA EstablishingCore ==
  ASSUME Core, Establishing
  PROVE  Core'
<1>0. PICK a, s, e, f : /\ a = Top.on /\ s = Len(sessions) + 1
                        /\ e = Session(a, Top.arg)
                        /\ f = Frame("opening", a, s, "none")
  OBVIOUS
<1>1. /\ stack # <<>> /\ Top.at = "establishing"
      /\ UNCHANGED <<frame, destroyed, disposed, homes, attached, watching, retired>>
  BY DEF Establishing, At, outside
<1>2. /\ Rest \in Seq(FrameSet) /\ FrameKnown(Top) /\ Apart(Rest)
      /\ ToSet(stack) = ToSet(Rest) \cup {Top}
  BY <1>1, TopFrames
<1>3. /\ a \in Made /\ a \in Nat /\ Top.arg \in Clients
      /\ DocumentOf(Top.arg) = frame[homes[a]]
  BY <1>0, <1>1, <1>2 DEF FrameKnown, Made
<1>4. CASE stack' = Rest /\ UNCHANGED <<current, sessions>>
  <2>1. /\ destroyed \subseteq Contents /\ disposed \in BOOLEAN
        /\ retired \in [Contents -> Seq(Clients)]
        /\ \A v \in Contents : Len(retired[v]) <= MaxRetired
    BY DEF Core, Types, Maps
  <2> QED
    BY <1>1, <1>2, <1>4, <2>1, QuietCore
<1>5. CASE /\ attached[homes[a]] = a /\ current[a] = None
           /\ sessions' = Append(sessions, e)
           /\ current' = [current EXCEPT ![a] = s]
           /\ stack' = Append(Rest, f)
  <2>1. /\ sessions \in Seq(SessionSet) /\ Len(sessions) \in Nat /\ s \in Nat
        /\ current \in Seq(Nat) /\ Len(current) = Len(homes) /\ a \in 1 .. Len(current)
    BY <1>0, <1>3 DEF Core, Types, Made
  <2>2. /\ e \in SessionSet /\ e.attachment = a /\ e.client = Top.arg /\ e.reason = "none"
    BY <1>0, <1>3 DEF Session, SessionSet
  <2>3. /\ sessions' \in Seq(SessionSet) /\ Len(sessions') = s /\ sessions'[s] = e
        /\ \A t \in 1 .. Len(sessions) : sessions'[t] = sessions[t]
    BY <1>0, <1>5, <2>1, <2>2, Appended
  <2>4. /\ current' \in Seq(Nat) /\ Len(current') = Len(homes) /\ current'[a] = s
        /\ \A b \in Made : b # a => current'[b] = current[b]
    BY <1>5, <2>1, Replaced DEF Made
  <2>5. /\ s \notin 1 .. Len(sessions) /\ s \in 1 .. s
        /\ \A t \in 1 .. Len(sessions) : t \in 1 .. s
        /\ \A t \in 1 .. s : t \in 1 .. Len(sessions) \/ t = s
    BY ONLY <1>0, <2>1
  <2>6. f \in FrameSet /\ f.at = "opening"
    <3>1. "opening" \in Points
      BY DEF Points
    <3> QED
      BY <1>0, <1>3, <2>1, <3>1, FrameMade
  <2>7. stack' \in Seq(FrameSet) /\ Apart(stack') /\ ToSet(stack') = ToSet(Rest) \cup {f}
    BY <1>2, <1>5, <2>6, ApartPushed DEF Pushed
  <2>8. Types'
    BY <1>1, <2>3, <2>4, <2>7 DEF Core, Types
  <2>9. Maps'
    <3>1. \A t \in 1 .. s : sessions'[t].attachment \in Made
      BY <1>3, <2>2, <2>3, <2>5 DEF Core, Maps
    <3>2. ASSUME NEW b \in Made, current'[b] # None
          PROVE  /\ attached[homes[b]] = b
                 /\ current'[b] \in 1 .. s
                 /\ sessions'[current'[b]].attachment = b
                 /\ sessions'[current'[b]].reason = "none"
                 /\ DocumentOf(sessions'[current'[b]].client) = frame[homes[b]]
      <4>1. CASE b = a
        BY <1>3, <1>5, <2>2, <2>3, <2>4, <2>5, <4>1
      <4>2. CASE b # a
        <5>1. current'[b] = current[b] /\ current[b] # None
          BY <2>4, <3>2, <4>2
        <5>2. current[b] \in 1 .. Len(sessions)
          BY <5>1 DEF Core, Maps
        <5> QED
          BY <2>3, <2>5, <5>1, <5>2 DEF Core, Maps
      <4> QED
        BY <4>1, <4>2
    <3> QED
      BY <1>1, <2>3, <3>1, <3>2 DEF Core, Maps, Made
  <2>10. ASSUME NEW g \in ToSet(stack')
         PROVE  FrameKnown(g)'
    <3>1. CASE g = f
      BY <2>6, <3>1 DEF FrameKnown
    <3>2. CASE g \in ToSet(Rest)
      <4>1. FrameKnown(g)
        BY <1>2, <3>2 DEF Core
      <4>2. g.at \in {"closing", "notifying"} =>
              g.session \in 1 .. s /\ sessions'[g.session] = sessions[g.session]
        BY <2>3, <2>5, <4>1 DEF FrameKnown
      <4>3. g.at = "closing" => current'[g.on] # g.session
        BY <2>4, <2>5, <4>1 DEF FrameKnown
      <4> QED
        BY <1>1, <2>3, <4>1, <4>2, <4>3 DEF FrameKnown, Made
    <3> QED
      BY <2>7, <3>1, <3>2
  <2>11. Reached'
    <3>1. ASSUME NEW t \in 1 .. s, sessions'[t].reason = "none"
          PROVE  current'[sessions'[t].attachment] = t \/ ClosingIn(stack', t)
      <4>1. CASE t = s
        BY <2>2, <2>3, <2>4, <4>1
      <4>2. CASE t \in 1 .. Len(sessions)
        <5>1. /\ sessions'[t] = sessions[t] /\ sessions[t].reason = "none"
              /\ sessions[t].attachment \in Made
          BY <2>3, <3>1, <4>2 DEF Core, Maps
        <5>2. ClosingIn(stack, t) => ClosingIn(stack', t)
          BY <1>1, <1>2, <2>7 DEF ClosingIn
        <5>3. current[sessions[t].attachment] = t => sessions[t].attachment # a
          BY <1>5, <4>2 DEF None
        <5>4. current[sessions[t].attachment] = t \/ ClosingIn(stack, t)
          BY <4>2, <5>1 DEF Core, Reached
        <5> QED
          BY <2>4, <5>1, <5>2, <5>3, <5>4
      <4> QED
        BY <2>5, <4>1, <4>2
    <3> QED
      BY <2>3, <3>1 DEF Reached, ClosingIn
  <2> QED
    BY <2>7, <2>8, <2>9, <2>10, <2>11 DEF Core, Apart
<1> QED
  BY <1>0, <1>4, <1>5 DEF Establishing

\* The listeners return.
LEMMA NotifiedCore ==
  ASSUME Core, Notified
  PROVE  Core'
<1>0. PICK e : e = Settled(retired[homes[Top.on]], Top.arg)
  OBVIOUS
<1>1. /\ stack # <<>> /\ Top.at = "notifying" /\ stack' = Rest
      /\ retired' = [retired EXCEPT ![homes[Top.on]] = e]
      /\ UNCHANGED <<frame, destroyed, disposed, homes, attached, watching, current, sessions>>
  BY <1>0 DEF Notified, At, outside
<1>2. /\ Rest \in Seq(FrameSet) /\ FrameKnown(Top) /\ Apart(Rest)
      /\ ToSet(stack) = ToSet(Rest) \cup {Top}
  BY <1>1, TopFrames
<1>3. homes[Top.on] \in Contents
  <2>1. Top.on \in Made
    BY <1>1, <1>2 DEF FrameKnown
  <2> QED
    BY <2>1 DEF Core, Types, Made
<1>4. retired[homes[Top.on]] \in Seq(Clients) /\ Len(retired[homes[Top.on]]) <= MaxRetired
  BY <1>3 DEF Core, Types, Maps
<1>5. e \in Seq(Clients) /\ Len(e) <= MaxRetired
  <2>1. CASE e = <<>>
    BY <2>1, RetiredAssumption
  <2>2. CASE e = retired[homes[Top.on]]
    BY <1>4, <2>2
  <2> QED
    BY <1>0, <2>1, <2>2 DEF Settled
<1>6. /\ retired' \in [Contents -> Seq(Clients)]
      /\ \A v \in Contents : Len(retired'[v]) <= MaxRetired
  BY <1>1, <1>3, <1>5, RecordReplaced
<1>7. destroyed \subseteq Contents /\ disposed \in BOOLEAN
  BY DEF Core, Types
<1> QED
  BY <1>1, <1>2, <1>6, <1>7, QuietCore

\* A step that only changes the stack.
LEMMA StackCore ==
  ASSUME Core,
         UNCHANGED <<frame, destroyed, homes, attached, watching, current, sessions, retired>>,
         disposed' \in BOOLEAN, stack' \in Seq(FrameSet), Apart(stack'),
         \A f \in ToSet(stack') : f \in ToSet(stack) \/ FrameKnown(f),
         \A f \in ToSet(stack) : f.at = "closing" => f \in ToSet(stack')
  PROVE  Core'
<1>1. /\ destroyed \subseteq Contents /\ retired \in [Contents -> Seq(Clients)]
      /\ \A v \in Contents : Len(retired[v]) <= MaxRetired
  BY DEF Core, Types, Maps
<1> QED
  BY <1>1, QuietCore

\* The innermost call returns and it closed no session.
LEMMA ReturnedCore ==
  ASSUME Core, stack # <<>>, Top.at # "closing", stack' = Rest,
         UNCHANGED <<frame, destroyed, disposed, homes, attached, watching, current, sessions,
                     retired>>
  PROVE  Core'
<1>1. /\ Rest \in Seq(FrameSet) /\ Apart(Rest)
      /\ ToSet(stack) = ToSet(Rest) \cup {Top}
  BY TopFrames
<1>2. disposed \in BOOLEAN
  BY DEF Core, Types
<1> QED
  BY <1>1, <1>2, StackCore

LEMMA DisposingCore ==
  ASSUME Core, Disposing
  PROVE  Core'
<1>0. PICK left : left = {w \in Contents : attached[w] # None}
  OBVIOUS
<1>1. /\ stack # <<>> /\ Top.at = "disposing"
      /\ UNCHANGED <<frame, destroyed, disposed, homes, sessions>>
  BY DEF Disposing, At, outside
<1>2. CASE left = {}
  <2>1. stack' = Rest /\ UNCHANGED <<attached, watching, current, retired>>
    BY <1>0, <1>2 DEF Disposing
  <2> QED
    BY <1>1, <2>1, ReturnedCore
<1>3. CASE left # {}
  <2>1. PICK w : w = CHOOSE u \in left : \A v \in left : u <= v
    OBVIOUS
  <2>2. left \in SUBSET Nat
    BY <1>0, ContentsAssumption
  <2>3. \E u \in left : \A v \in left : u <= v
    BY <1>3, <2>2, LeastNumber
  <2>4. w \in left
    BY <2>1, <2>3
  <2>5. Detached(w, "dispose", stack)
    BY <1>0, <1>3, <2>1 DEF Disposing
  <2>6. /\ w \in Contents /\ attached[w] # None /\ "dispose" \in Reasons
        /\ stack \in Seq(FrameSet) /\ Apart(stack)
    BY <1>0, <2>4 DEF Core, Types, Reasons
  <2> QED
    BY <1>1, <2>5, <2>6, DetachedCore
<1> QED
  BY <1>2, <1>3

LEMMA AttachCore ==
  ASSUME Core, NEW w \in Contents, Attach(w)
  PROVE  Core'
<1>0. PICK below : below = Append(stack, Frame("attaching", w, None, "none"))
  OBVIOUS
<1>1. UNCHANGED <<frame, destroyed, disposed, homes, sessions>>
  BY DEF Attach, outside
<1>2. PICK f : f = Frame("attaching", w, None, "none")
  OBVIOUS
<1>3. f \in FrameSet /\ f.at = "attaching" /\ f.on = w /\ f.arg = "none"
  <2>1. /\ "attaching" \in Points /\ w \in Nat /\ None \in Nat
        /\ "none" \in Reasons \cup {"none"} \cup Clients
    BY ContentsAssumption DEF Points, None
  <2> QED
    BY <1>2, <2>1, FrameMade
<1>4. below \in Seq(FrameSet) /\ Apart(below) /\ ToSet(below) = ToSet(stack) \cup {f}
  <2>1. below = Append(stack, f) /\ f.at # "closing"
    BY <1>0, <1>2, <1>3
  <2> QED
    BY <1>3, <2>1, PushedCore
<1>5. FrameKnown(f) /\ f.at # "closing"
  BY <1>3 DEF FrameKnown
<1>6. CASE attached[w] # None
  <2>1. Detached(w, "detach", below) /\ "detach" \in Reasons
    BY <1>0, <1>6 DEF Attach, Reasons
  <2> QED
    BY <1>1, <1>3, <1>4, <1>5, <1>6, <2>1, DetachedCore
<1>7. CASE attached[w] = None
  <2>1. stack' = below /\ UNCHANGED <<attached, watching, current, retired>>
    BY <1>0, <1>7 DEF Attach
  <2>2. disposed \in BOOLEAN
    BY DEF Core, Types
  <2> QED
    BY <1>1, <1>3, <1>4, <1>5, <2>1, <2>2, StackCore
<1> QED
  BY <1>6, <1>7

LEMMA DetachCore ==
  ASSUME Core, NEW a \in 1 .. Len(homes), Detach(a)
  PROVE  Core'
<1>0. PICK w : w = homes[a]
  OBVIOUS
<1>1. /\ attached[w] = a /\ Detached(w, "detach", stack)
      /\ UNCHANGED <<frame, destroyed, disposed, homes, sessions>>
  BY <1>0 DEF Detach, outside
<1>2. /\ w \in Contents /\ attached[w] # None /\ "detach" \in Reasons
      /\ stack \in Seq(FrameSet) /\ Apart(stack)
  BY <1>0, <1>1 DEF Core, Types, Reasons, None
<1> QED
  BY <1>1, <1>2, DetachedCore

LEMMA EstablishCore ==
  ASSUME Core, NEW w \in Contents, NEW client \in Clients, Establish(w, client)
  PROVE  Core'
<1>0. PICK a, below : /\ a = attached[w]
                      /\ below = Append(stack, Frame("establishing", a, None, client))
  OBVIOUS
<1>1. /\ a # None /\ DocumentOf(client) = frame[w] /\ Retire(a, "replaced", below)
      /\ UNCHANGED <<frame, destroyed, disposed, homes, attached, watching, sessions>>
  BY <1>0 DEF Establish, Admits, outside
<1>2. a \in Made /\ homes[a] = w /\ attached[homes[a]] = a
  BY <1>0, <1>1 DEF Core, Maps
<1>3. PICK f : f = Frame("establishing", a, None, client)
  OBVIOUS
<1>4. f \in FrameSet /\ f.at = "establishing" /\ f.on = a /\ f.arg = client
  <2>1. /\ "establishing" \in Points /\ a \in Nat /\ None \in Nat
        /\ client \in Reasons \cup {"none"} \cup Clients
    BY <1>2 DEF Points, Made, None
  <2> QED
    BY <1>3, <2>1, FrameMade
<1>5. below \in Seq(FrameSet) /\ Apart(below) /\ ToSet(below) = ToSet(stack) \cup {f}
  <2>1. below = Append(stack, f) /\ f.at # "closing"
    BY <1>0, <1>3, <1>4
  <2> QED
    BY <1>4, <2>1, PushedCore
<1>6. FrameKnown(f) /\ f.at # "closing"
  BY <1>1, <1>2, <1>4 DEF FrameKnown
<1>7. /\ frame' \in [Contents -> Documents] /\ destroyed' \subseteq Contents
      /\ disposed' \in BOOLEAN /\ attached' \in [Contents -> Nat]
      /\ watching' = {attached'[v] : v \in Contents} \ {None}
      /\ "replaced" \in Reasons
  BY <1>1 DEF Core, Types, Maps, Reasons
<1> QED
  BY <1>1, <1>2, <1>4, <1>5, <1>6, <1>7, RetireCore

\* A lifecycle event reaches the attachment of w, whatever it changes outside.
LEMMA HeardCore ==
  ASSUME Core, NEW w \in Contents, NEW reason \in Reasons, Hear(w, reason),
         UNCHANGED <<disposed, homes, attached, watching, sessions>>,
         destroyed' \subseteq Contents,
         \/ frame' = frame
         \/ /\ stack = <<>> /\ frame' \in [Contents -> Documents]
            /\ \A v \in Contents : v # w => frame'[v] = frame[v]
  PROVE  Core'
<1>1. stack \in Seq(FrameSet) /\ Apart(stack) /\ disposed \in BOOLEAN
  BY DEF Core, Types
<1>2. CASE attached[w] # None
  <2>1. PICK a : a = attached[w]
    OBVIOUS
  <2>2. a \in Made /\ homes[a] = w /\ attached[homes[a]] = a
    BY <1>2, <2>1 DEF Core, Maps
  <2>3. a \in watching
    BY <1>2, <2>1 DEF Core, Maps
  <2>4. Retire(a, reason, stack)
    BY <2>1, <2>3 DEF Hear
  <2>5. /\ frame' \in [Contents -> Documents] /\ attached' \in [Contents -> Nat]
        /\ watching' = {attached'[v] : v \in Contents} \ {None}
        /\ \A v \in Contents : v # homes[a] => frame'[v] = frame[v] /\ attached'[v] = attached[v]
    BY <2>2 DEF Core, Types, Maps
  <2>6. frame' = frame \/ \A f \in ToSet(stack) : f.at # "establishing"
    BY ValuesEmpty
  <2> QED
    BY <1>1, <2>2, <2>4, <2>5, <2>6, RetireCore
<1>3. CASE attached[w] = None
  <2>1. UNCHANGED <<current, retired, stack>>
    BY <1>3 DEF Hear, Core, Maps
  <2>2. CASE frame' = frame
    <3>1. /\ retired \in [Contents -> Seq(Clients)]
          /\ \A v \in Contents : Len(retired[v]) <= MaxRetired
      BY DEF Core, Types, Maps
    <3> QED
      BY <1>1, <2>1, <2>2, <3>1, QuietCore
  <2>3. CASE /\ stack = <<>> /\ frame' \in [Contents -> Documents]
             /\ \A v \in Contents : v # w => frame'[v] = frame[v]
    <3>1. ToSet(stack) = {}
      BY <2>3, ValuesEmpty
    <3>2. Types'
      BY <2>1, <2>3 DEF Core, Types
    <3>3. \A b \in Made : current[b] # None => frame'[homes[b]] = frame[homes[b]]
      <4>1. ASSUME NEW b \in Made, current[b] # None
            PROVE  homes[b] \in Contents /\ homes[b] # w
        <5>1. homes[b] \in Contents /\ attached[homes[b]] = b /\ b # None
          BY <4>1 DEF Core, Types, Maps, Made, None
        <5> QED
          BY <1>3, <5>1
      <4> QED
        BY <2>3, <4>1
    <3>4. Maps'
      BY <2>1, <3>3 DEF Core, Maps, Made
    <3>5. Reached'
      BY <2>1 DEF Core, Reached, ClosingIn
    <3> QED
      BY <2>1, <3>1, <3>2, <3>4, <3>5 DEF Core, Apart
  <2> QED
    BY <2>2, <2>3
<1> QED
  BY <1>2, <1>3

LEMMA NavigateCore ==
  ASSUME Core, NEW w \in Contents, Navigate(w)
  PROVE  Core'
<1>1. /\ stack = <<>> /\ frame[w] < NumDocuments
      /\ frame' = [frame EXCEPT ![w] = frame[w] + 1]
      /\ Hear(w, "main-frame-navigation") /\ "main-frame-navigation" \in Reasons
      /\ UNCHANGED <<destroyed, disposed, homes, attached, watching, sessions>>
  BY DEF Navigate, Reasons, Lifecycle
<1>2. frame \in [Contents -> Documents] /\ destroyed \subseteq Contents
  BY DEF Core, Types
<1>3. frame[w] + 1 \in Documents
  BY <1>1, <1>2, DocumentsAssumption DEF Documents
<1>4. /\ frame' \in [Contents -> Documents]
      /\ \A v \in Contents : v # w => frame'[v] = frame[v]
  BY <1>1, <1>2, <1>3
<1> QED
  BY <1>1, <1>2, <1>4, HeardCore

LEMMA CrashCore ==
  ASSUME Core, NEW w \in Contents, Crash(w)
  PROVE  Core'
<1>1. /\ Hear(w, "render-process-gone") /\ "render-process-gone" \in Reasons
      /\ UNCHANGED <<frame, destroyed, disposed, homes, attached, watching, sessions>>
  BY DEF Crash, outside, Reasons, Lifecycle
<1>2. destroyed \subseteq Contents
  BY DEF Core, Types
<1> QED
  BY <1>1, <1>2, HeardCore

LEMMA DestroyCore ==
  ASSUME Core, NEW w \in Contents, Destroy(w)
  PROVE  Core'
<1>1. /\ Hear(w, "destroyed") /\ "destroyed" \in Reasons
      /\ destroyed' = destroyed \cup {w}
      /\ UNCHANGED <<frame, disposed, homes, attached, watching, sessions>>
  BY DEF Destroy, Reasons, Lifecycle
<1>2. destroyed' \subseteq Contents
  BY <1>1 DEF Core, Types
<1> QED
  BY <1>1, <1>2, HeardCore

LEMMA DisposeCore ==
  ASSUME Core, Dispose
  PROVE  Core'
<1>1. /\ disposed' \in BOOLEAN
      /\ stack' = Append(stack, Frame("disposing", None, None, "none"))
      /\ UNCHANGED <<frame, destroyed, homes, attached, watching, current, sessions, retired>>
  BY DEF Dispose, outside
<1>2. PICK f : f = Frame("disposing", None, None, "none")
  OBVIOUS
<1>3. f \in FrameSet /\ f.at = "disposing" /\ f.on = None /\ f.arg = "none"
  <2>1. /\ "disposing" \in Points /\ None \in Nat
        /\ "none" \in Reasons \cup {"none"} \cup Clients
    BY DEF Points, None
  <2> QED
    BY <1>2, <2>1, FrameMade
<1>4. stack' \in Seq(FrameSet) /\ Apart(stack') /\ ToSet(stack') = ToSet(stack) \cup {f}
  <2>1. stack' = Append(stack, f) /\ f.at # "closing"
    BY <1>1, <1>2, <1>3
  <2> QED
    BY <1>3, <2>1, PushedCore
<1>5. FrameKnown(f)
  BY <1>3 DEF FrameKnown
<1> QED
  BY <1>1, <1>4, <1>5, StackCore

LEMMA CoreNext ==
  ASSUME Core, [Next]_vars
  PROVE  Core'
<1>1. CASE Closing
  BY <1>1, ClosingCore
<1>2. CASE Notified
  BY <1>2, NotifiedCore
<1>3. CASE Attaching
  BY <1>3, AttachingCore
<1>4. CASE Establishing
  BY <1>4, EstablishingCore
<1>5. CASE Opened
  <2>1. /\ stack # <<>> /\ Top.at # "closing" /\ stack' = Rest
        /\ UNCHANGED <<frame, destroyed, disposed, homes, attached, watching, current, sessions,
                       retired>>
    BY <1>5 DEF Opened, At, outside
  <2> QED
    BY <2>1, ReturnedCore
<1>6. CASE Disposing
  BY <1>6, DisposingCore
<1>7. ASSUME NEW w \in Contents, Attach(w)
      PROVE  Core'
  BY <1>7, AttachCore
<1>8. ASSUME NEW w \in Contents, Navigate(w)
      PROVE  Core'
  BY <1>8, NavigateCore
<1>9. ASSUME NEW w \in Contents, Crash(w)
      PROVE  Core'
  BY <1>9, CrashCore
<1>10. ASSUME NEW w \in Contents, Destroy(w)
       PROVE  Core'
  BY <1>10, DestroyCore
<1>11. ASSUME NEW w \in Contents, NEW client \in Clients, Establish(w, client)
       PROVE  Core'
  BY <1>11, EstablishCore
<1>12. ASSUME NEW a \in 1 .. Len(homes), Detach(a)
       PROVE  Core'
  BY <1>12, DetachCore
<1>13. CASE Dispose
  BY <1>13, DisposeCore
<1>14. CASE UNCHANGED vars
  <2>1. UNCHANGED <<frame, destroyed, disposed, homes, attached, watching, current, sessions,
                    retired, stack>>
    BY <1>14 DEF vars, outside
  <2>2. disposed \in BOOLEAN /\ stack \in Seq(FrameSet) /\ Apart(stack)
    BY DEF Core, Types
  <2> QED
    BY <2>1, <2>2, StackCore
<1> QED
  BY <1>1, <1>2, <1>3, <1>4, <1>5, <1>6, <1>7, <1>8, <1>9, <1>10, <1>11, <1>12, <1>13, <1>14
  DEF Next, Return

-----------------------------------------------------------------------------
LEMMA CoreInvariance == Spec => []Core
<1>1. Core /\ [Next]_vars => Core'
  BY CoreNext
<1> QED
  BY CoreInit, <1>1, PTL DEF Spec

\* What the runs call TypeOK.
LEMMA CoreTyped == Core => TypeOK
<1> SUFFICES ASSUME Core PROVE TypeOK
  OBVIOUS
<1>1. Len(homes) \in Nat /\ Len(sessions) \in Nat /\ Len(current) = Len(homes)
  BY DEF Core, Types
<1>2. attached \in [Contents -> Attachments] /\ watching \subseteq Attachments
  <2>1. \A w \in Contents : attached[w] \in Attachments
    <3>1. ASSUME NEW w \in Contents
          PROVE  attached[w] \in Attachments
      <4>1. CASE attached[w] = None
        BY <1>1, <4>1 DEF Attachments, None
      <4>2. CASE attached[w] # None
        BY <1>1, <4>2 DEF Core, Maps, Made, Attachments
      <4> QED
        BY <4>1, <4>2
    <3> QED
      BY <3>1
  <2> QED
    BY <2>1 DEF Core, Types, Maps
<1>3. current \in Seq(0 .. Len(sessions))
  <2>1. current \in Seq(Nat) /\ Len(current) = Len(homes)
    BY DEF Core, Types
  <2>2. \A a \in 1 .. Len(current) : current[a] \in 0 .. Len(sessions)
    <3>1. ASSUME NEW a \in 1 .. Len(current)
          PROVE  current[a] \in 0 .. Len(sessions)
      <4>1. CASE current[a] = None
        BY <1>1, <4>1 DEF None
      <4>2. CASE current[a] # None
        <5>1. current[a] \in 1 .. Len(sessions)
          BY <2>1, <4>2 DEF Core, Maps, Made
        <5> QED
          BY <1>1, <5>1
      <4> QED
        BY <4>1, <4>2
    <3> QED
      BY <3>1
  <2> QED
    BY <2>1, <2>2
<1>4. sessions \in Seq([attachment : Attachments, client : Clients,
                        reason : Reasons \cup {"none"}])
  <2>1. sessions \in Seq(SessionSet)
    BY DEF Core, Types
  <2>2. \A s \in 1 .. Len(sessions) :
          sessions[s] \in [attachment : Attachments, client : Clients,
                           reason : Reasons \cup {"none"}]
    <3>1. ASSUME NEW s \in 1 .. Len(sessions)
          PROVE  sessions[s] \in [attachment : Attachments, client : Clients,
                                  reason : Reasons \cup {"none"}]
      <4>1. sessions[s] \in SessionSet /\ sessions[s].attachment \in Attachments
        BY <1>1, <2>1 DEF Core, Maps, Made, Attachments
      <4> QED
        BY <4>1 DEF SessionSet
    <3> QED
      BY <3>1
  <2> QED
    BY <2>1, <2>2, ValuesWithin
<1>5. \A i \in 1 .. Len(stack) : DOMAIN stack[i] = {"at", "on", "session", "arg"}
  <2>1. \A i \in 1 .. Len(stack) : stack[i] \in FrameSet
    BY DEF Core, Types
  <2>2. \A f \in FrameSet : DOMAIN f = {"at", "on", "session", "arg"}
    BY DEF FrameSet
  <2> QED
    BY <2>1, <2>2
<1> QED
  BY <1>2, <1>3, <1>4, <1>5 DEF Core, Types, Maps, TypeOK

\* The sessions of CurrentSessions are those an attachment has.
LEMMA CurrentOnes ==
  ASSUME Core, NEW s
  PROVE  s \in CurrentSessions <=> \E a \in Made : current[a] # None /\ current[a] = s
<1>1. ASSUME s \in CurrentSessions
      PROVE  \E a \in Made : current[a] # None /\ current[a] = s
  <2>1. PICK w \in Contents : attached[w] # None /\ s = current[attached[w]] /\ s # None
    BY <1>1 DEF CurrentSessions
  <2>2. attached[w] \in Made
    BY <2>1 DEF Core, Maps
  <2> QED
    BY <2>1, <2>2
<1>2. ASSUME NEW a \in Made, current[a] # None, current[a] = s
      PROVE  s \in CurrentSessions
  <2>1. PICK w : w = homes[a]
    OBVIOUS
  <2>2. w \in Contents /\ attached[w] = a /\ a # None
    BY <1>2, <2>1 DEF Core, Types, Maps, Made, None
  <2> QED
    BY <1>2, <2>2 DEF CurrentSessions
<1> QED
  BY <1>1, <1>2

LEMMA CoreReached == Core => NoOrphans
<1> SUFFICES ASSUME Core PROVE NoOrphans
  OBVIOUS
<1>0. \A s : s \in InClosing <=> ClosingIn(stack, s)
  <2>1. \A f : f \in ToSet(stack) <=> \E i \in 1 .. Len(stack) : stack[i] = f
    BY Values DEF Core, Types
  <2>2. ASSUME NEW s, s \in InClosing
        PROVE  ClosingIn(stack, s)
    <3>1. PICK i \in 1 .. Len(stack) : stack[i].at = "closing" /\ s = stack[i].session
      BY <2>2 DEF InClosing
    <3> QED
      BY <2>1, <3>1 DEF ClosingIn
  <2>3. ASSUME NEW s, ClosingIn(stack, s)
        PROVE  s \in InClosing
    <3>1. PICK i \in 1 .. Len(stack) : stack[i].at = "closing" /\ stack[i].session = s
      BY <2>1, <2>3 DEF ClosingIn
    <3> QED
      BY <3>1 DEF InClosing
  <2> QED
    BY <2>2, <2>3
<1>1. ASSUME NEW s \in 1 .. Len(sessions), sessions[s].reason = "none"
      PROVE  s \in CurrentSessions \cup InClosing
  <2>1. CASE current[sessions[s].attachment] = s
    <3>1. sessions[s].attachment \in Made /\ s # None
      BY DEF Core, Maps, None
    <3> QED
      BY <2>1, <3>1, CurrentOnes
  <2>2. CASE ClosingIn(stack, s)
    BY <1>0, <2>2
  <2> QED
    BY <1>1, <2>1, <2>2 DEF Core, Reached
<1>2. ASSUME NEW s \in 1 .. Len(sessions), s \in CurrentSessions
      PROVE  sessions[s].reason = "none"
  <2>1. PICK a \in Made : current[a] # None /\ current[a] = s
    BY <1>2, CurrentOnes
  <2> QED
    BY <2>1 DEF Core, Maps
<1>3. ASSUME NEW s \in 1 .. Len(sessions), s \in InClosing
      PROVE  sessions[s].reason = "none"
  <2>1. PICK f \in ToSet(stack) : f.at = "closing" /\ f.session = s
    BY <1>0, <1>3 DEF ClosingIn
  <2> QED
    BY <2>1 DEF Core, FrameKnown
<1> QED
  BY <1>1, <1>2, <1>3 DEF NoOrphans

\* The map of attachments, the sessions and the lifecycle listeners stay consistent:
\* every open session is the current one of an attached webContents or is being retired,
\* and the listeners that are registered are those of the map.  It holds for whatever the
\* diagnostics sink and the retire listeners call, however deep.
THEOREM AttachmentsConsistentCorrect == Spec => []AttachmentsConsistent
<1>1. Core => AttachmentsConsistent
  BY CoreTyped, CoreReached DEF AttachmentsConsistent, ListenersMatch, Core, Maps
<1> QED
  BY <1>1, CoreInvariance, PTL

\* The current session of a webContents belongs to the document in its main frame, also
\* when the requests, the navigations and the calls of listeners interleave.
THEOREM OwnDocumentCorrect == Spec => []OwnDocument
<1>1. Core => OwnDocument
  <2> SUFFICES ASSUME Core, NEW s \in CurrentSessions
               PROVE  DocumentOf(sessions[s].client) = frame[HomeOf(s)]
    BY DEF OwnDocument
  <2>1. PICK a \in Made : current[a] # None /\ current[a] = s
    BY CurrentOnes
  <2> QED
    BY <2>1 DEF Core, Maps, HomeOf
<1> QED
  BY <1>1, CoreInvariance, PTL

-----------------------------------------------------------------------------
(* A clientId opens one session of a webContents: its documents come one after the other, *)
(* those of the last one are all remembered, and the others are gone                      *)

HomeAt(s) == homes[sessions[s].attachment]
DocAt(s) == DocumentOf(sessions[s].client)
Vacant(w) == attached[w] = None \/ current[attached[w]] = None
New(w, client) ==
  \A s \in 1 .. Len(sessions) : HomeAt(s) = w => sessions[s].client # client

\* The record of a webContents follows the order of its documents.
Sorted(q) ==
  \A i, j \in 1 .. Len(q) : i < j => DocumentOf(q[i]) <= DocumentOf(q[j])
Record ==
  \A w \in Contents :
    /\ Once(retired[w]) /\ Sorted(retired[w])
    /\ \A client \in ToSet(retired[w]) : DocumentOf(client) <= frame[w]

\* What a call in progress knows of the webContents.
Alive(f) ==
  /\ f.at = "attaching" => f.on \notin destroyed
  /\ f.at = "establishing" => homes[f.on] \notin destroyed
  /\ f.at \in {"closing", "notifying"} /\ f.arg = "destroyed" => homes[f.on] \in destroyed
  /\ f.at = "closing" =>
       /\ Vacant(homes[f.on])
       /\ \A client \in ToSet(retired[homes[f.on]]) : DocumentOf(client) <= DocAt(f.session)

\* No session is opened while one is being closed, and one webContents closes one at a time.
Beside(f, g) ==
  f.at = "closing" =>
    g.at # "establishing" /\ (g.at = "closing" => homes[f.on] # homes[g.on])
Ordered(q) == \A i, j \in 1 .. Len(q) : i < j => Beside(q[i], q[j])

\* The sessions of the document that is shown are open or in the record.
Remembered ==
  \A s \in 1 .. Len(sessions) :
    /\ DocAt(s) <= frame[HomeAt(s)]
    /\ DocAt(s) = frame[HomeAt(s)] /\ HomeAt(s) \notin destroyed =>
         sessions[s].reason = "none" \/ sessions[s].client \in ToSet(retired[HomeAt(s)])

\* The innermost establish() of an attachment in W has a clientId that never had a
\* session; W is the attachments without one.
Innermost(q, i) ==
  /\ q[i].at = "establishing"
  /\ \A j \in 1 .. Len(q) : i < j /\ q[j].at = "establishing" => q[j].on # q[i].on
Fresh(q, W) ==
  \A i \in 1 .. Len(q) :
    Innermost(q, i) /\ q[i].on \in W => New(homes[q[i].on], q[i].arg)
Waiting == {a \in Made : attached[homes[a]] = a /\ current[a] = None}

\* The retirement of the session of a destroyed webContents is over, or will clear its record.
Clearing(f, w) ==
  f.at \in {"closing", "notifying"} /\ f.arg = "destroyed" /\ homes[f.on] = w
GoneAt(w) ==
  /\ current[attached[w]] = None
  /\ \A f \in ToSet(stack) : f.at = "closing" /\ homes[f.on] = w => f.arg = "destroyed"
  /\ retired[w] = <<>> \/ \E f \in ToSet(stack) : Clearing(f, w)
Gone == \A w \in destroyed : attached[w] # None => GoneAt(w)

History ==
  /\ Core /\ Record /\ Remembered /\ Gone /\ NoRevival
  /\ \A f \in ToSet(stack) : Alive(f)
  /\ Ordered(stack) /\ Fresh(stack, Waiting)

\* Hypotheses: the sink makes no request of a document, nobody destroys a webContents in the
\* middle of a call, and the record holds the clientIds of a document.
CallsAllowed ==
  /\ "establish" \notin SinkCalls
  /\ "destroy" \notin SinkCalls \cup ListenerCalls
  /\ ClientsPerDocument <= MaxRetired

\* As many different clientIds of one document there are at most.
LEMMA OneDocument ==
  ASSUME NEW q \in Seq(Clients), Once(q), NEW d,
         \A i \in 1 .. Len(q) : DocumentOf(q[i]) = d
  PROVE  Len(q) <= ClientsPerDocument
<1> DEFINE n == Len(q)
           h == [i \in 1 .. n |-> q[i][2]]
<1>1. n \in Nat /\ ClientsPerDocument \in Nat
  BY DocumentsAssumption
<1>2. \A i \in 1 .. n : q[i] \in Documents \X (1 .. ClientsPerDocument)
  BY DEF Clients
<1>3. \A i \in 1 .. n : q[i] = <<q[i][1], q[i][2]>> /\ q[i][2] \in 1 .. ClientsPerDocument
  BY <1>2
<1>4. h \in [1 .. n -> 1 .. ClientsPerDocument]
  BY <1>3
<1>5. ASSUME NEW i \in 1 .. n, NEW j \in 1 .. n, h[i] = h[j]
      PROVE  i = j
  <2>1. q[i][1] = q[j][1]
    BY DEF DocumentOf
  <2>2. q[i][2] = q[j][2]
    BY <1>5
  <2>3. q[i] = q[j]
    BY <1>3, <2>1, <2>2
  <2> QED
    BY <2>3 DEF Once
<1> HIDE DEF h, n
<1>6. h \in Injection(1 .. n, 1 .. ClientsPerDocument)
  BY <1>4, <1>5, Fun_IsInj
<1>7. /\ Cardinality(1 .. n) = n /\ Cardinality(1 .. ClientsPerDocument) = ClientsPerDocument
      /\ IsFiniteSet(1 .. ClientsPerDocument)
  <2>1. 1 \in Int /\ n \in Int /\ ClientsPerDocument \in Int
    BY <1>1
  <2>2. /\ Cardinality(1 .. n) = IF 1 > n THEN 0 ELSE n - 1 + 1
        /\ Cardinality(1 .. ClientsPerDocument) =
             IF 1 > ClientsPerDocument THEN 0 ELSE ClientsPerDocument - 1 + 1
        /\ IsFiniteSet(1 .. ClientsPerDocument)
    BY <2>1, FS_Interval
  <2> QED
    BY <1>1, <2>2
<1>8. Cardinality(1 .. n) <= Cardinality(1 .. ClientsPerDocument)
  BY <1>6, <1>7, FS_Injection
<1> QED
  BY <1>7, <1>8 DEF n

\* A record gets one more clientId, of its last document or of a later one: it stays in
\* order, has the clientId, and keeps the others of its document.
LEMMA RecordedFacts ==
  ASSUME ClientsPerDocument <= MaxRetired,
         NEW q \in Seq(Clients), Once(q), Sorted(q), Len(q) <= MaxRetired,
         NEW c \in Clients, \A x \in ToSet(q) : DocumentOf(x) <= DocumentOf(c),
         NEW r, r = Recorded(q, c)
  PROVE  /\ Once(r) /\ Sorted(r) /\ ToSet(r) \subseteq ToSet(q) \cup {c} /\ c \in ToSet(r)
         /\ \A x \in ToSet(q) : DocumentOf(x) = DocumentOf(c) => x \in ToSet(r)
<1>0. PICK p : p = With(q, c)
  OBVIOUS
<1>1. /\ p \in Seq(Clients) /\ Once(p) /\ Sorted(p) /\ ToSet(p) = ToSet(q) \cup {c}
      /\ p = q \/ (p = Append(q, c) /\ Len(p) = Len(q) + 1 /\ p[Len(p)] = c /\ Len(q) \in Nat)
  <2>1. CASE c \in ToSet(q)
    <3>1. Contains(q, c)
      BY <2>1, Values DEF Contains
    <3>2. p = q
      BY <1>0, <3>1 DEF With
    <3> QED
      BY <2>1, <3>2
  <2>2. CASE c \notin ToSet(q)
    <3>1. ~Contains(q, c)
      BY <2>2, Values DEF Contains
    <3>2. p = Append(q, c)
      BY <1>0, <3>1 DEF With
    <3>3. /\ Len(p) = Len(q) + 1 /\ Len(q) \in Nat
          /\ \A i \in 1 .. Len(q) : p[i] = q[i]
          /\ p[Len(q) + 1] = c
      BY <3>2, Appended
    <3>4. Pushed(q, p, c)
      BY <3>2 DEF Pushed
    <3>5. p \in Seq(Clients) /\ ToSet(p) = ToSet(q) \cup {c} /\ Once(p)
      BY <2>2, <3>4, ValuesAppended
    <3>6. Sorted(p)
      <4>1. \A i \in 1 .. Len(q) : q[i] \in ToSet(q)
        BY Values
      <4>2. \A i \in 1 .. Len(q) : DocumentOf(q[i]) <= DocumentOf(c)
        BY <4>1
      <4>3. ASSUME NEW i \in 1 .. Len(p), NEW j \in 1 .. Len(p), i < j
            PROVE  DocumentOf(p[i]) <= DocumentOf(p[j])
        <5>1. i \in 1 .. Len(q) /\ (j \in 1 .. Len(q) \/ j = Len(q) + 1)
          BY <3>3, <4>3
        <5>2. CASE j \in 1 .. Len(q)
          BY <3>3, <4>3, <5>1, <5>2 DEF Sorted
        <5>3. CASE j = Len(q) + 1
          BY <3>3, <4>2, <5>1, <5>3
        <5> QED
          BY <5>1, <5>2, <5>3
      <4> QED
        BY <4>3 DEF Sorted
    <3> QED
      BY <3>2, <3>3, <3>5, <3>6
  <2> QED
    BY <2>1, <2>2
<1>2. CASE ~(Len(p) > MaxRetired)
  <2>1. r = p
    BY <1>0, <1>2 DEF Recorded
  <2> QED
    BY <1>1, <2>1
<1>3. CASE Len(p) > MaxRetired
  <2>1. r = Tail(p)
    BY <1>0, <1>3 DEF Recorded
  <2>2. /\ p # q /\ Len(p) = Len(q) + 1 /\ p[Len(p)] = c /\ Len(p) \in Nat
        /\ Len(q) = MaxRetired
    <3>1. p # q
      BY <1>3, RetiredAssumption
    <3> QED
      BY <1>1, <1>3, <3>1, RetiredAssumption
  <2>3. p # <<>> /\ Len(p) > 1
    BY <2>2, RetiredAssumption
  <2>4. /\ Head(p) = p[1] /\ r \in Seq(Clients) /\ Len(r) = Len(p) - 1
        /\ \A i \in 1 .. Len(r) : r[i] = p[i + 1]
    BY <1>1, <2>1, <2>3, QueueParts
  <2>5. /\ Once(r) /\ ToSet(r) = ToSet(p) \ {Head(p)}
    BY <1>1, <2>1, <2>3, ValuesTail
  <2>6. Sorted(r)
    <3>1. \A i \in 1 .. Len(r) : i + 1 \in 1 .. Len(p)
      BY <2>2, <2>4
    <3>2. ASSUME NEW i \in 1 .. Len(r), NEW j \in 1 .. Len(r), i < j
          PROVE  DocumentOf(r[i]) <= DocumentOf(r[j])
      <4>1. i + 1 < j + 1
        BY <3>2
      <4>2. DocumentOf(p[i + 1]) <= DocumentOf(p[j + 1])
        BY <1>1, <3>1, <4>1 DEF Sorted
      <4> QED
        BY <2>4, <4>2
    <3> QED
      BY <3>2 DEF Sorted
  <2>7. 1 \in 1 .. Len(p) /\ Len(p) \in 1 .. Len(p) /\ 1 # Len(p)
    BY <2>2, <2>3
  <2>8. c # Head(p)
    BY <1>1, <2>2, <2>4, <2>7 DEF Once
  <2>9. DocumentOf(Head(p)) # DocumentOf(c)
    <3>1. SUFFICES ASSUME DocumentOf(Head(p)) = DocumentOf(c) PROVE FALSE
      OBVIOUS
    <3>2. \A x \in Clients : DocumentOf(x) \in Int
      BY DEF Clients, Documents, DocumentOf
    <3>3. ASSUME NEW i \in 1 .. Len(p)
          PROVE  DocumentOf(p[i]) = DocumentOf(c)
      <4>1. DocumentOf(p[1]) <= DocumentOf(p[i])
        <5>1. CASE i = 1
          BY <1>1, <2>7, <3>2, <5>1
        <5>2. CASE i # 1
          <6>1. 1 < i
            BY <5>2
          <6> QED
            BY <1>1, <2>7, <6>1 DEF Sorted
        <5> QED
          BY <5>1, <5>2
      <4>2. DocumentOf(p[i]) <= DocumentOf(c)
        <5>1. p[i] \in ToSet(p)
          BY <1>1, Values
        <5>2. p[i] \in ToSet(q) \/ p[i] = c
          BY <1>1, <5>1
        <5> QED
          BY <3>2, <5>2
      <4>3. p[i] \in Clients
        BY <1>1
      <4> QED
        BY <2>4, <3>1, <3>2, <4>1, <4>2, <4>3
    <3>4. Len(p) <= ClientsPerDocument
      BY <1>1, <3>3, OneDocument
    <3> QED
      BY <1>3, <2>2, <3>4, RetiredAssumption, DocumentsAssumption
  <2> QED
    BY <1>1, <2>5, <2>6, <2>8, <2>9
<1> QED
  BY <1>2, <1>3

-----------------------------------------------------------------------------
(* The stack, and steps that open and record no session *)

LEMMA OrderedPushed ==
  ASSUME NEW q \in Seq(FrameSet), Ordered(q), NEW f \in FrameSet,
         \A g \in ToSet(q) : Beside(g, f), NEW r, Pushed(q, r, f)
  PROVE  Ordered(r)
<1>1. /\ Len(r) = Len(q) + 1 /\ Len(q) \in Nat
      /\ \A i \in 1 .. Len(q) : r[i] = q[i]
      /\ r[Len(q) + 1] = f
  BY Appended DEF Pushed
<1>2. \A i \in 1 .. Len(q) : q[i] \in ToSet(q)
  BY Values
<1>3. ASSUME NEW i \in 1 .. Len(r), NEW j \in 1 .. Len(r), i < j
      PROVE  Beside(r[i], r[j])
  <2>1. i \in 1 .. Len(q) /\ (j \in 1 .. Len(q) \/ j = Len(q) + 1)
    BY <1>1, <1>3
  <2>2. CASE j \in 1 .. Len(q)
    <3>1. r[i] = q[i] /\ r[j] = q[j]
      BY <1>1, <2>1, <2>2
    <3>2. Beside(q[i], q[j])
      BY <1>3, <2>1, <2>2 DEF Ordered
    <3> QED
      BY <3>1, <3>2
  <2>3. CASE j = Len(q) + 1
    <3>1. r[i] = q[i] /\ r[j] = f
      BY <1>1, <2>1, <2>3
    <3> QED
      BY <1>2, <2>1, <3>1
  <2> QED
    BY <2>1, <2>2, <2>3
<1> QED
  BY <1>3 DEF Ordered

LEMMA OrderedPopped ==
  ASSUME NEW q \in Seq(FrameSet), Ordered(q), NEW r, NEW f, Popped(q, r, f)
  PROVE  Ordered(r) /\ \A g \in ToSet(r) : Beside(g, f)
<1>1. q # <<>> /\ r = SubSeq(q, 1, Len(q) - 1) /\ f = q[Len(q)]
  BY DEF Popped
<1>2. /\ Len(q) \in Nat \ {0} /\ r \in Seq(FrameSet) /\ Len(r) = Len(q) - 1
      /\ \A i \in 1 .. Len(q) - 1 : r[i] = q[i]
  BY <1>1, StackParts
<1>3. /\ Len(q) \in 1 .. Len(q)
      /\ \A i \in 1 .. Len(r) : i \in 1 .. Len(q) /\ i < Len(q) /\ r[i] = q[i]
  BY <1>2
<1>4. ASSUME NEW g \in ToSet(r)
      PROVE  Beside(g, f)
  <2>1. PICK i \in 1 .. Len(r) : r[i] = g
    BY <1>2, Values
  <2>2. Beside(q[i], q[Len(q)])
    BY <1>3 DEF Ordered
  <2> QED
    BY <1>1, <1>3, <2>1, <2>2
<1>5. ASSUME NEW i \in 1 .. Len(r), NEW j \in 1 .. Len(r), i < j
      PROVE  Beside(r[i], r[j])
  <2>1. Beside(q[i], q[j])
    BY <1>3, <1>5 DEF Ordered
  <2> QED
    BY <1>3, <2>1
<1> QED
  BY <1>4, <1>5 DEF Ordered

LEMMA FreshPushed ==
  ASSUME NEW q \in Seq(FrameSet), NEW V, Fresh(q, V), NEW f \in FrameSet,
         f.at = "establishing" => New(homes[f.on], f.arg),
         NEW W, W \subseteq V \/ (f.at = "establishing" /\ W \ {f.on} \subseteq V),
         NEW r, Pushed(q, r, f)
  PROVE  Fresh(r, W)
<1>1. /\ Len(r) = Len(q) + 1 /\ Len(q) \in Nat
      /\ \A i \in 1 .. Len(q) : r[i] = q[i]
      /\ r[Len(q) + 1] = f
  BY Appended DEF Pushed
<1>2. ASSUME NEW i \in 1 .. Len(r), Innermost(r, i), r[i].on \in W
      PROVE  New(homes[r[i].on], r[i].arg)
  <2>1. i \in 1 .. Len(q) \/ i = Len(q) + 1
    BY <1>1
  <2>2. CASE i \in 1 .. Len(q)
    <3>1. r[i] = q[i] /\ \A j \in 1 .. Len(q) : j \in 1 .. Len(r) /\ r[j] = q[j]
      BY <1>1, <2>2
    <3>2. Innermost(q, i)
      BY <1>2, <3>1 DEF Innermost
    <3>3. f.at = "establishing" => r[i].on # f.on
      <4>1. Len(q) + 1 \in 1 .. Len(r) /\ i < Len(q) + 1
        BY <1>1, <2>2
      <4> QED
        BY <1>1, <1>2, <4>1 DEF Innermost
    <3>4. q[i].on \in V
      BY <1>2, <3>1, <3>3
    <3> QED
      BY <2>2, <3>1, <3>2, <3>4 DEF Fresh
  <2>3. CASE i = Len(q) + 1
    BY <1>1, <1>2, <2>3 DEF Innermost
  <2> QED
    BY <2>1, <2>2, <2>3
<1> QED
  BY <1>2 DEF Fresh

LEMMA FreshPopped ==
  ASSUME NEW q \in Seq(FrameSet), NEW V, Fresh(q, V), NEW r, NEW f, Popped(q, r, f),
         NEW W, W \subseteq V, f.at = "establishing" => f.on \notin W
  PROVE  Fresh(r, W)
<1>1. q # <<>> /\ r = SubSeq(q, 1, Len(q) - 1) /\ f = q[Len(q)]
  BY DEF Popped
<1>2. /\ Len(q) \in Nat \ {0} /\ Len(r) = Len(q) - 1
      /\ \A i \in 1 .. Len(q) - 1 : r[i] = q[i]
  BY <1>1, StackParts
<1>3. /\ \A i \in 1 .. Len(r) : i \in 1 .. Len(q) /\ r[i] = q[i]
      /\ \A j \in 1 .. Len(q) : j \in 1 .. Len(r) \/ j = Len(q)
  BY <1>2
<1>4. ASSUME NEW i \in 1 .. Len(r), Innermost(r, i), r[i].on \in W
      PROVE  New(homes[r[i].on], r[i].arg)
  <2>1. Innermost(q, i)
    <3>1. q[i].at = "establishing"
      BY <1>3, <1>4 DEF Innermost
    <3>2. ASSUME NEW j \in 1 .. Len(q), i < j, q[j].at = "establishing"
          PROVE  q[j].on # q[i].on
      <4>1. CASE j \in 1 .. Len(r)
        BY <1>3, <1>4, <3>2, <4>1 DEF Innermost
      <4>2. CASE j = Len(q)
        BY <1>1, <1>3, <1>4, <3>2, <4>2
      <4> QED
        BY <1>3, <4>1, <4>2
    <3> QED
      BY <3>1, <3>2 DEF Innermost
  <2> QED
    BY <1>3, <1>4, <2>1 DEF Fresh
<1> QED
  BY <1>4 DEF Fresh

\* A step that opens and records no session.  Outside calls of Main nothing navigates
\* and nothing is destroyed.
Steady ==
  /\ sessions' = sessions
  /\ \A a \in Made : a \in Made' /\ homes'[a] = homes[a]
  /\ \A w \in Contents :
       /\ frame[w] <= frame'[w]
       /\ Vacant(w) => Vacant(w)'
       /\ retired'[w] = retired[w] \/ (retired'[w] = <<>> /\ w \in destroyed')
  /\ destroyed \subseteq destroyed'
  /\ stack = <<>> \/ UNCHANGED <<frame, destroyed>>

\* The webContents of a session stays the same.
LEMMA SteadyHome ==
  ASSUME Core, Steady, NEW s \in 1 .. Len(sessions)
  PROVE  /\ s \in 1 .. Len(sessions') /\ HomeAt(s)' = HomeAt(s) /\ DocAt(s)' = DocAt(s)
         /\ HomeAt(s) \in Contents /\ DocAt(s) \in Int /\ sessions'[s] = sessions[s]
<1>1. sessions[s].attachment \in Made /\ sessions[s] \in SessionSet
  BY DEF Core, Maps, Types
<1>2. HomeAt(s) \in Contents
  BY <1>1 DEF HomeAt, Core, Types, Made
<1>3. DocAt(s) \in Int
  BY <1>1 DEF DocAt, SessionSet, Clients, Documents, DocumentOf
<1> QED
  BY <1>1, <1>2, <1>3 DEF Steady, HomeAt, DocAt

LEMMA SteadyHistory ==
  ASSUME History, Core', Steady
  PROVE  Record' /\ Remembered' /\ NoRevival'
<1>0. Core /\ Record /\ Remembered /\ NoRevival
  BY DEF History
<1>1. /\ frame \in [Contents -> Documents] /\ frame' \in [Contents -> Documents]
      /\ \A w \in Contents : frame[w] \in Int /\ frame'[w] \in Int
  <2>1. frame \in [Contents -> Documents] /\ frame' \in [Contents -> Documents]
    BY <1>0 DEF Core, Types
  <2> QED
    BY <2>1 DEF Documents
<1>2. Record'
  <2>1. ASSUME NEW w \in Contents
        PROVE  /\ Once(retired'[w]) /\ Sorted(retired'[w])
               /\ \A client \in ToSet(retired'[w]) : DocumentOf(client) <= frame'[w]
    <3>1. CASE retired'[w] = <<>>
      BY <3>1, ValuesEmpty DEF Sorted
    <3>2. CASE retired'[w] = retired[w]
      <4>1. /\ Once(retired[w]) /\ Sorted(retired[w])
            /\ \A client \in ToSet(retired[w]) : DocumentOf(client) <= frame[w]
        BY <1>0 DEF Record
      <4>2. \A client \in ToSet(retired[w]) : DocumentOf(client) \in Int
        <5>1. retired[w] \in Seq(Clients)
          BY <1>0 DEF Core, Types
        <5>2. ToSet(retired[w]) \subseteq Clients
          BY <5>1, Values
        <5> QED
          BY <5>2 DEF Clients, Documents, DocumentOf
      <4>3. frame[w] <= frame'[w]
        BY DEF Steady
      <4>4. \A client \in ToSet(retired[w]) : DocumentOf(client) <= frame'[w]
        BY <1>1, <4>1, <4>2, <4>3
      <4> QED
        BY <3>2, <4>1, <4>4
    <3> QED
      BY <3>1, <3>2 DEF Steady
  <2> QED
    BY <2>1 DEF Record, Sorted
<1>3. Remembered'
  <2>1. ASSUME NEW s \in 1 .. Len(sessions)
        PROVE  /\ DocAt(s) <= frame'[HomeAt(s)]
               /\ DocAt(s) = frame'[HomeAt(s)] /\ HomeAt(s) \notin destroyed' =>
                    sessions[s].reason = "none" \/ sessions[s].client \in ToSet(retired'[HomeAt(s)])
    <3>1. /\ HomeAt(s) \in Contents /\ DocAt(s) \in Int
          /\ DocAt(s) <= frame[HomeAt(s)]
          /\ DocAt(s) = frame[HomeAt(s)] /\ HomeAt(s) \notin destroyed =>
               sessions[s].reason = "none" \/ sessions[s].client \in ToSet(retired[HomeAt(s)])
      BY <1>0, SteadyHome DEF Remembered
    <3>2. /\ frame[HomeAt(s)] <= frame'[HomeAt(s)]
          /\ frame[HomeAt(s)] \in Int /\ frame'[HomeAt(s)] \in Int
          /\ HomeAt(s) \notin destroyed' =>
               HomeAt(s) \notin destroyed /\ retired'[HomeAt(s)] = retired[HomeAt(s)]
      BY <1>1, <3>1 DEF Steady
    <3>3. DocAt(s) <= frame'[HomeAt(s)]
      BY <3>1, <3>2
    <3>4. DocAt(s) = frame'[HomeAt(s)] => DocAt(s) = frame[HomeAt(s)]
      BY <3>1, <3>2
    <3> QED
      BY <3>1, <3>2, <3>3, <3>4
  <2>2. \A s \in 1 .. Len(sessions') :
          /\ s \in 1 .. Len(sessions) /\ HomeAt(s)' = HomeAt(s) /\ DocAt(s)' = DocAt(s)
          /\ sessions'[s] = sessions[s]
    BY <1>0, SteadyHome DEF Steady
  <2> QED
    BY <2>1, <2>2 DEF Remembered
<1>4. NoRevival'
  <2>1. \A s \in 1 .. Len(sessions') :
          /\ s \in 1 .. Len(sessions) /\ HomeAt(s)' = HomeAt(s) /\ sessions'[s] = sessions[s]
    BY <1>0, SteadyHome DEF Steady
  <2> QED
    BY <1>0, <2>1 DEF NoRevival, HomeAt, HomeOf
<1> QED
  BY <1>2, <1>3, <1>4

\* A call in progress knows it still.
LEMMA SteadyAlive ==
  ASSUME History, Steady, NEW f \in ToSet(stack)
  PROVE  Alive(f)'
<1>1. stack # <<>>
  BY ValuesEmpty
<1>2. Core /\ Alive(f) /\ FrameKnown(f) /\ UNCHANGED <<frame, destroyed>>
  BY <1>1 DEF History, Core, Steady
<1>3. f.at \in {"establishing", "closing", "notifying"} =>
        f.on \in Made /\ homes'[f.on] = homes[f.on]
  BY <1>2 DEF FrameKnown, Steady
<1>4. ASSUME f.at = "closing"
      PROVE  /\ Vacant(homes[f.on])' /\ DocAt(f.session)' = DocAt(f.session)
             /\ \A client \in ToSet(retired'[homes[f.on]]) : DocumentOf(client) <= DocAt(f.session)
  <2>1. /\ f.on \in Made /\ f.session \in 1 .. Len(sessions)
        /\ Vacant(homes[f.on])
        /\ \A client \in ToSet(retired[homes[f.on]]) : DocumentOf(client) <= DocAt(f.session)
    BY <1>2, <1>4 DEF FrameKnown, Alive
  <2>2. PICK w : w = homes[f.on]
    OBVIOUS
  <2>3. w \in Contents
    BY <1>2, <2>1, <2>2 DEF Core, Types, Made
  <2>4. Vacant(w)' /\ (retired'[w] = retired[w] \/ retired'[w] = <<>>)
    BY <2>1, <2>2, <2>3 DEF Steady
  <2>5. homes'[f.on] = w
    BY <1>3, <1>4, <2>2
  <2>6. Vacant(homes[f.on])'
    BY <2>4, <2>5 DEF Vacant
  <2>7. DocAt(f.session)' = DocAt(f.session)
    BY <1>2, <2>1, SteadyHome
  <2> QED
    BY <2>1, <2>2, <2>4, <2>6, <2>7, ValuesEmpty
<1>5. ASSUME f.at = "closing"
      PROVE  Alive(f)'
  BY <1>2, <1>3, <1>4, <1>5 DEF Alive
<1> QED
  BY <1>2, <1>3, <1>5 DEF Alive

\* Order and freshness of a stack do not change with the variables.
LEMMA SteadyOrdered ==
  ASSUME Core, Steady, NEW q \in Seq(FrameSet), Ordered(q),
         \A f \in ToSet(q) : f.at = "closing" => f.on \in Made
  PROVE  Ordered(q)'
<1>1. \A i \in 1 .. Len(q) : q[i] \in ToSet(q)
  BY Values
<1>2. \A i \in 1 .. Len(q) : q[i].at = "closing" => homes'[q[i].on] = homes[q[i].on]
  BY <1>1 DEF Steady
<1> QED
  BY <1>2 DEF Ordered, Beside

LEMMA SteadyFresh ==
  ASSUME Core, Steady, NEW q \in Seq(FrameSet), NEW W \in SUBSET Made, Fresh(q, W)
  PROVE  Fresh(q, W)'
<1>1. ASSUME NEW i \in 1 .. Len(q), Innermost(q, i), q[i].on \in W
      PROVE  New(homes[q[i].on], q[i].arg)'
  <2>1. q[i].on \in Made /\ New(homes[q[i].on], q[i].arg)
    BY <1>1 DEF Fresh
  <2>2. /\ homes'[q[i].on] = homes[q[i].on]
        /\ \A s \in 1 .. Len(sessions') :
             s \in 1 .. Len(sessions) /\ HomeAt(s)' = HomeAt(s) /\ sessions'[s] = sessions[s]
    BY <2>1, SteadyHome DEF Steady
  <2> QED
    BY <2>1, <2>2 DEF New
<1> QED
  BY <1>1 DEF Fresh, Innermost

LEMMA SteadyGone ==
  ASSUME History, Steady, NEW w \in destroyed, attached[w] # None, attached'[w] = attached[w],
         current'[attached[w]] = None,
         \A f \in ToSet(stack') : f.at = "closing" =>
           f \in ToSet(stack) \/ homes[f.on] \notin destroyed,
         \A f \in ToSet(stack') : f.at = "closing" => f.on \in Made,
         \A f \in ToSet(stack) : Clearing(f, w) => f \in ToSet(stack') \/ retired'[w] = <<>>
  PROVE  GoneAt(w)'
<1>0. Core /\ GoneAt(w) /\ w \in Contents
  BY DEF History, Gone, Core, Types
<1>1. ASSUME NEW f \in ToSet(stack'), f.at = "closing", homes'[f.on] = w
      PROVE  f.arg = "destroyed"
  <2>1. homes[f.on] = w
    BY <1>1 DEF Steady
  <2> QED
    BY <1>0, <1>1, <2>1 DEF GoneAt
<1>2. retired'[w] = <<>> \/ \E f \in ToSet(stack') : Clearing(f, w)'
  <2>1. CASE retired[w] = <<>>
    BY <1>0, <2>1 DEF Steady
  <2>2. ASSUME NEW f \in ToSet(stack), Clearing(f, w)
        PROVE  retired'[w] = <<>> \/ \E g \in ToSet(stack') : Clearing(g, w)'
    <3>1. FrameKnown(f)
      BY <1>0 DEF Core
    <3>2. f.on \in Made /\ homes'[f.on] = homes[f.on]
      BY <2>2, <3>1 DEF Clearing, FrameKnown, Steady
    <3>3. Clearing(f, w)'
      BY <2>2, <3>2 DEF Clearing
    <3> QED
      BY <2>2, <3>3
  <2> QED
    BY <1>0, <2>1, <2>2 DEF GoneAt
<1> QED
  BY <1>1, <1>2 DEF GoneAt

\* A steady step, once its calls in progress are known.
LEMMA SteadyStep ==
  ASSUME History, Core', Steady, Gone', NEW q \in Seq(FrameSet), q = stack', Ordered(q),
         NEW W, W = Waiting' \cap Made, Fresh(q, W),
         \A f \in ToSet(q) : f.at \in {"establishing", "closing"} => f.on \in Made,
         \A f \in ToSet(q) : Alive(f)'
  PROVE  History'
<1>1. Core
  BY DEF History
<1>2. Record' /\ Remembered' /\ NoRevival'
  BY SteadyHistory
<1>3. Ordered(q)' /\ Fresh(q, W)'
  BY <1>1, SteadyOrdered, SteadyFresh
<1>4. Ordered(stack)'
  BY <1>3 DEF Ordered, Beside
<1>5. Fresh(stack, Waiting)'
  <2>1. ASSUME NEW i \in 1 .. Len(q), Innermost(q, i), q[i].on \in Waiting'
        PROVE  New(homes[q[i].on], q[i].arg)'
    <3>1. q[i] \in ToSet(q) /\ q[i].at = "establishing"
      BY <2>1, Values DEF Innermost
    <3>2. q[i].on \in W
      BY <2>1, <3>1
    <3> QED
      BY <1>3, <2>1, <3>2 DEF Fresh, Innermost
  <2> QED
    BY <2>1 DEF Fresh, Innermost
<1> QED
  BY <1>2, <1>4, <1>5 DEF History

\* A call returns.
LEMMA PoppedHistory ==
  ASSUME History, Core', Steady, stack # <<>>, Top.at # "closing", stack' = Rest,
         Waiting' \cap Made \subseteq Waiting,
         Top.at = "establishing" => Top.on \notin Waiting',
         \A a \in Made : current'[a] = current[a],
         \A w \in destroyed : attached'[w] # None => attached'[w] = attached[w],
         \A w \in destroyed : Clearing(Top, w) => retired'[w] = <<>>
  PROVE  History'
<1>0. PICK q, f, W : q = stack' /\ f = Top /\ W = Waiting' \cap Made
  OBVIOUS
<1>1. Core /\ Gone
  BY DEF History
<1>2. /\ q \in Seq(FrameSet) /\ ToSet(stack) = ToSet(q) \cup {f} /\ UNCHANGED destroyed
  BY <1>0, <1>1, TopFrames DEF Steady
<1>3. Popped(stack, q, f) /\ stack \in Seq(FrameSet)
  BY <1>0, <1>1 DEF Popped, Top, Rest, Core, Types
<1>4. Ordered(q)
  BY <1>3, OrderedPopped DEF History
<1>5. Fresh(q, W)
  <2>1. Fresh(stack, Waiting) /\ W \subseteq Waiting
    BY <1>0 DEF History
  <2>2. f.at = "establishing" => f.on \notin W
    BY <1>0
  <2> QED
    BY <1>3, <2>1, <2>2, FreshPopped
<1>6. \A g \in ToSet(q) : g.at \in {"establishing", "closing"} => g.on \in Made
  <2>1. \A g \in ToSet(stack) : FrameKnown(g)
    BY <1>1 DEF Core
  <2> QED
    BY <1>2, <2>1 DEF FrameKnown
<1>7. \A g \in ToSet(q) : Alive(g)'
  BY <1>2, SteadyAlive
<1>8. Gone'
  <2>1. ASSUME NEW w \in destroyed, attached'[w] # None
        PROVE  GoneAt(w)'
    <3>1. attached'[w] = attached[w] /\ attached[w] # None
      BY <2>1
    <3>2. attached[w] \in Made /\ current[attached[w]] = None
      BY <1>1, <3>1 DEF Core, Maps, Types, Gone, GoneAt
    <3>3. current'[attached[w]] = None
      BY <3>2
    <3>4. \A g \in ToSet(stack') : g.at = "closing" => g \in ToSet(stack) /\ g.on \in Made
      BY <1>0, <1>2, <1>6
    <3>5. \A g \in ToSet(stack) : Clearing(g, w) => g \in ToSet(stack') \/ retired'[w] = <<>>
      BY <1>0, <1>2
    <3> QED
      BY <3>1, <3>3, <3>4, <3>5, SteadyGone
  <2> QED
    BY <1>2, <2>1 DEF Gone
<1> QED
  BY <1>0, <1>2, <1>4, <1>5, <1>6, <1>7, <1>8, SteadyStep

\* A call returns and changes nothing else.
LEMMA QuietPop ==
  ASSUME History, Core', stack # <<>>, Top.at # "closing", stack' = Rest,
         Top.at = "establishing" => Top.on \notin Waiting,
         \A w \in destroyed : ~Clearing(Top, w),
         UNCHANGED <<frame, destroyed, homes, attached, current, sessions, retired>>
  PROVE  History'
<1>1. Steady
  <2>1. \A w \in Contents : frame[w] \in Int
    BY DEF History, Core, Types, Documents
  <2>2. (\A w \in Contents : Vacant(w)' <=> Vacant(w)) /\ Made' = Made
    BY DEF Vacant, Made
  <2> QED
    BY <2>1, <2>2 DEF Steady
<1>2. Waiting' = Waiting
  BY DEF Waiting, Made
<1>3. /\ Waiting' \cap Made \subseteq Waiting
      /\ Top.at = "establishing" => Top.on \notin Waiting'
  BY <1>2
<1> QED
  BY <1>1, <1>3, PoppedHistory

\* A call of attach() or dispose() begins and changes nothing yet.
LEMMA BegunHistory ==
  ASSUME History, Core', NEW f \in FrameSet, f.at \in {"attaching", "disposing"},
         stack' = Append(stack, f), f.at = "attaching" => f.on \notin destroyed,
         UNCHANGED <<frame, destroyed, homes, attached, current, sessions, retired>>
  PROVE  History'
<1>0. PICK q, W : q = stack' /\ W = Waiting' \cap Made
  OBVIOUS
<1>1. Core /\ Gone /\ stack \in Seq(FrameSet) /\ Ordered(stack) /\ Fresh(stack, Waiting)
  BY DEF History, Core, Types
<1>2. Pushed(stack, q, f)
  BY <1>0 DEF Pushed
<1>3. q \in Seq(FrameSet) /\ ToSet(q) = ToSet(stack) \cup {f}
  BY <1>1, <1>2, ValuesAppended
<1>4. Steady
  <2>1. \A w \in Contents : frame[w] \in Int
    BY <1>1 DEF Core, Types, Documents
  <2>2. \A w \in Contents : Vacant(w)' <=> Vacant(w)
    BY DEF Vacant
  <2>3. Made' = Made
    BY DEF Made
  <2> QED
    BY <2>1, <2>2, <2>3 DEF Steady
<1>5. Ordered(q)
  <2>1. \A g \in ToSet(stack) : Beside(g, f)
    BY DEF Beside
  <2> QED
    BY <1>1, <1>2, <2>1, OrderedPushed
<1>6. Fresh(q, W)
  <2>1. W \subseteq Waiting
    BY <1>0 DEF Waiting, Made
  <2>2. f.at # "establishing"
    OBVIOUS
  <2> QED
    BY <1>1, <1>2, <2>1, <2>2, FreshPushed
<1>7. \A g \in ToSet(q) : g.at \in {"establishing", "closing"} => g.on \in Made
  <2>1. \A g \in ToSet(stack) : FrameKnown(g)
    BY <1>1 DEF Core
  <2> QED
    BY <1>3, <2>1 DEF FrameKnown
<1>8. \A g \in ToSet(q) : Alive(g)'
  <2>1. Alive(f)'
    BY DEF Alive
  <2> QED
    BY <1>3, <1>4, <2>1, SteadyAlive
<1>9. Gone'
  <2>1. ASSUME NEW w \in destroyed, attached[w] # None
        PROVE  GoneAt(w)'
    <3>1. current'[attached[w]] = None
      BY <1>1, <2>1 DEF Gone, GoneAt
    <3>2. \A g \in ToSet(stack') : g.at = "closing" => g \in ToSet(stack) /\ g.on \in Made
      BY <1>0, <1>3, <1>7
    <3>3. \A g \in ToSet(stack) : g \in ToSet(stack')
      BY <1>0, <1>3
    <3> QED
      BY <1>4, <2>1, <3>1, <3>2, <3>3, SteadyGone
  <2> QED
    BY <2>1 DEF Gone
<1> QED
  BY <1>0, <1>3, <1>4, <1>5, <1>6, <1>7, <1>8, <1>9, SteadyStep

\* #retire of the attachment of a webContents, or of one that is just detached, with
\* `below' under what it calls.
LEMMA RetireHistory ==
  ASSUME History, Core', NEW a \in Made, attached[homes[a]] = a, NEW reason \in Reasons,
         NEW below \in Seq(FrameSet), Ordered(below),
         NEW W, W = Waiting' \cap Made, Fresh(below, W),
         \A f \in ToSet(below) :
           f \in ToSet(stack) \/ (f.at \in {"attaching", "establishing"} /\ FrameKnown(f) /\ Alive(f)'),
         \A f \in ToSet(stack) : f \in ToSet(below),
         UNCHANGED <<homes, sessions>>,
         \A v \in Contents : frame[v] <= frame'[v],
         destroyed \subseteq destroyed',
         stack = <<>> \/ UNCHANGED <<frame, destroyed>>,
         reason = "destroyed" <=> homes[a] \in destroyed' /\ homes[a] \notin destroyed,
         destroyed' = destroyed \/ (reason = "destroyed" /\ destroyed' = destroyed \cup {homes[a]}),
         \A v \in Contents : v # homes[a] => attached'[v] = attached[v],
         attached'[homes[a]] \in {a, None},
         Retire(a, reason, below)
  PROVE  History'
<1>0. PICK w, q, f : w = homes[a] /\ q = stack' /\ f = Frame("closing", a, current[a], reason)
  OBVIOUS
<1>1. /\ Core /\ Gone /\ Record /\ w \in Contents /\ homes \in Seq(Contents)
      /\ current \in Seq(Nat) /\ Len(current) = Len(homes) /\ a \in 1 .. Len(current)
      /\ retired \in [Contents -> Seq(Clients)]
  <2>1. Core /\ Gone /\ Record
    BY DEF History
  <2>2. /\ homes \in Seq(Contents) /\ retired \in [Contents -> Seq(Clients)]
        /\ current \in Seq(Nat) /\ Len(current) = Len(homes)
    BY <2>1 DEF Core, Types
  <2>3. w \in Contents /\ a \in 1 .. Len(current)
    BY ONLY <1>0, <2>2, a \in Made DEF Made
  <2> QED
    BY <2>1, <2>2, <2>3
<1>2. Made' = Made
  BY DEF Made
<1>3. /\ \A b \in Made : b # a => current'[b] = current[b]
      /\ current'[a] = None
  BY <1>1, RetiredSession
<1>4. \A v \in Contents : Vacant(v) => Vacant(v)'
  <2>1. ASSUME NEW v \in Contents, Vacant(v)
        PROVE  attached'[v] = None \/ current'[attached'[v]] = None
    <3>1. CASE v = w
      BY <1>0, <1>3, <3>1
    <3>2. CASE v # w
      <4>1. attached'[v] = attached[v]
        BY <1>0, <3>2
      <4>2. attached[v] # None => attached[v] \in Made /\ attached[v] # a
        BY <1>0, <1>1, <3>2 DEF Core, Maps
      <4> QED
        BY <1>3, <2>1, <4>1, <4>2 DEF Vacant
    <3> QED
      BY <3>1, <3>2
  <2> QED
    BY <2>1 DEF Vacant
<1>5. /\ \A v \in Contents : v # w => retired'[v] = retired[v]
      /\ \/ retired'[w] = retired[w] /\ ~(current[a] = None /\ reason = "destroyed")
         \/ retired'[w] = <<>> /\ w \in destroyed' /\ reason = "destroyed"
  <2>1. CASE current[a] # None
    BY <2>1 DEF Retire
  <2>2. CASE current[a] = None
    <3>0. PICK e : e = Settled(retired[w], reason)
      OBVIOUS
    <3>1. retired' = [retired EXCEPT ![w] = e]
      BY <1>0, <2>2, <3>0 DEF Retire
    <3>2. /\ \A v \in Contents : v # w => retired'[v] = retired[v]
          /\ retired'[w] = e
      BY <1>1, <3>1
    <3> QED
      BY <1>0, <3>0, <3>2 DEF Settled
  <2> QED
    BY <2>1, <2>2
<1>6. Steady
  BY <1>2, <1>4, <1>5 DEF Steady
<1>7. \A g \in ToSet(below) : g.at \in {"establishing", "closing"} => g.on \in Made
  <2>1. \A g \in ToSet(below) : FrameKnown(g)
    BY <1>1 DEF Core
  <2> QED
    BY <2>1 DEF FrameKnown
<1>8. \A g \in ToSet(below) : Alive(g)'
  BY <1>6, SteadyAlive
<1>9. ASSUME NEW v \in destroyed, attached'[v] # None,
             \A g \in ToSet(q) : g.at = "closing" => g \in ToSet(stack) \/ homes[g.on] \notin destroyed,
             \A g \in ToSet(q) : g.at = "closing" => g.on \in Made,
             \A g \in ToSet(stack) : g \in ToSet(q)
      PROVE  GoneAt(v)'
  <2>1. v \in Contents /\ attached'[v] = attached[v] /\ attached[v] # None
    <3>1. v \in Contents
      BY <1>1 DEF Core, Types
    <3> QED
      BY <1>0, <1>9, <3>1 DEF None
  <2>2. attached[v] \in Made /\ current[attached[v]] = None
    BY <1>1, <2>1 DEF Core, Maps, Gone, GoneAt
  <2>3. current'[attached[v]] = None
    BY <1>3, <2>2
  <2> QED
    BY <1>0, <1>6, <1>9, <2>1, <2>3, SteadyGone
<1>10. CASE current[a] = None
  <2>1. q = below
    BY <1>0, <1>10 DEF Retire
  <2>2. Gone'
    <3>1. ASSUME NEW v \in destroyed', v \notin destroyed, attached'[v] # None
          PROVE  GoneAt(v)'
      <4>1. v = w /\ reason = "destroyed" /\ attached'[w] = a /\ stack = <<>>
        BY <1>0, <3>1
      <4>2. retired'[w] = <<>>
        BY <1>5, <1>10, <4>1
      <4>3. \A g \in ToSet(stack') : g.at # "closing"
        <5>1. ToSet(stack) = {}
          BY <4>1, ValuesEmpty
        <5> QED
          BY <1>0, <2>1, <5>1
      <4> QED
        BY <1>3, <4>1, <4>2, <4>3 DEF GoneAt
    <3>2. /\ \A g \in ToSet(q) : g.at = "closing" => g \in ToSet(stack)
          /\ \A g \in ToSet(stack) : g \in ToSet(q)
      BY <2>1
    <3>3. \A v \in destroyed : attached'[v] # None => GoneAt(v)'
      BY <1>7, <1>9, <2>1, <3>2
    <3> QED
      BY <3>1, <3>3 DEF Gone
  <2> QED
    BY <1>0, <1>6, <1>7, <1>8, <2>1, <2>2, SteadyStep
<1>11. CASE current[a] # None
  <2>1. /\ current[a] \in 1 .. Len(sessions) /\ current[a] \in Nat
        /\ sessions[current[a]].attachment = a /\ DocAt(current[a]) = frame[w]
    BY <1>0, <1>11, <1>1 DEF Core, Maps, DocAt
  <2>2. /\ f \in FrameSet /\ f.at = "closing" /\ f.on = a /\ f.session = current[a]
        /\ f.arg = reason
    <3>1. /\ "closing" \in Points /\ a \in Nat
          /\ reason \in Reasons \cup {"none"} \cup Clients
      BY DEF Points, Made
    <3> QED
      BY <1>0, <2>1, <3>1, FrameMade
  <2>3. Pushed(below, q, f) /\ retired' = retired
    BY <1>0, <1>11 DEF Retire, Pushed
  <2>4. q \in Seq(FrameSet) /\ ToSet(q) = ToSet(below) \cup {f}
    BY <2>2, <2>3, ValuesAppended
  <2>5. w \notin destroyed
    BY <1>0, <1>1, <1>11 DEF Gone, GoneAt, Core, Maps, None, Made
  <2>6. Ordered(q)
    <3>1. ASSUME NEW g \in ToSet(below), g.at = "closing"
          PROVE  homes[g.on] # w
      <4>1. Alive(g)
        BY <3>1 DEF History
      <4>2. Vacant(homes[g.on])
        BY <3>1, <4>1 DEF Alive
      <4>3. ~Vacant(w)
        BY <1>0, <1>11 DEF Vacant, None, Made
      <4> QED
        BY <4>2, <4>3
    <3>2. \A g \in ToSet(below) : Beside(g, f)
      BY <1>0, <2>2, <3>1 DEF Beside
    <3> QED
      BY <2>2, <2>3, <3>2, OrderedPushed
  <2>7. Fresh(q, W)
    <3>1. W \subseteq W /\ f.at # "establishing"
      BY <2>2
    <3> QED
      BY <2>2, <2>3, <3>1, FreshPushed
  <2>8. Alive(f)'
    <3>1. Vacant(w)'
      BY <1>0, <1>3 DEF Vacant
    <3>2. \A client \in ToSet(retired[w]) : DocumentOf(client) <= DocAt(f.session)
      BY <1>1, <2>1, <2>2 DEF Record
    <3>3. DocAt(f.session)' = DocAt(f.session)
      BY DEF DocAt
    <3>4. Vacant(homes[f.on])'
      BY <1>0, <2>2, <3>1 DEF Vacant
    <3> QED
      BY <1>0, <2>2, <2>3, <3>2, <3>3, <3>4 DEF Alive
  <2>9. \A g \in ToSet(q) : g.at \in {"establishing", "closing"} => g.on \in Made
    BY <1>7, <2>2, <2>4
  <2>10. \A g \in ToSet(q) : Alive(g)'
    BY <1>8, <2>4, <2>8
  <2>11. Gone'
    <3>1. ASSUME NEW v \in destroyed', v \notin destroyed, attached'[v] # None
          PROVE  GoneAt(v)'
      <4>1. v = w /\ reason = "destroyed" /\ attached'[w] = a /\ stack = <<>>
        BY <1>0, <3>1
      <4>2. \A g \in ToSet(stack') : g.at = "closing" => g = f
        <5>1. ToSet(stack) = {}
          BY <4>1, ValuesEmpty
        <5>2. \A g \in ToSet(below) : g.at # "closing"
          BY <5>1
        <5> QED
          BY <1>0, <2>4, <5>2
      <4>3. f \in ToSet(stack') /\ Clearing(f, w)'
        BY <1>0, <2>2, <2>4, <4>1 DEF Clearing
      <4> QED
        BY <1>3, <2>2, <4>1, <4>2, <4>3 DEF GoneAt
    <3>2. /\ \A g \in ToSet(q) : g.at = "closing" => g \in ToSet(stack) \/ homes[g.on] \notin destroyed
          /\ \A g \in ToSet(stack) : g \in ToSet(q)
      BY <1>0, <2>2, <2>4, <2>5
    <3>3. \A v \in destroyed : attached'[v] # None => GoneAt(v)'
      BY <1>9, <2>9, <3>2
    <3> QED
      BY <3>1, <3>3 DEF Gone
  <2> QED
    BY <1>0, <1>6, <2>4, <2>6, <2>7, <2>9, <2>10, <2>11, SteadyStep
<1> QED
  BY <1>10, <1>11

-----------------------------------------------------------------------------
(* The steps of the history *)

\* #detach of an attached webContents.
LEMMA DetachedHistory ==
  ASSUME History, Core', NEW w \in Contents, attached[w] # None,
         NEW reason \in {"detach", "dispose"},
         NEW below \in Seq(FrameSet), Ordered(below), Fresh(below, Waiting),
         \A f \in ToSet(below) :
           f \in ToSet(stack) \/ (f.at = "attaching" /\ f.on \notin destroyed /\ FrameKnown(f)),
         \A f \in ToSet(stack) : f \in ToSet(below),
         UNCHANGED <<frame, destroyed, homes, sessions>>,
         Detached(w, reason, below)
  PROVE  History'
<1>0. PICK a, W : a = attached[w] /\ W = Waiting' \cap Made
  OBVIOUS
<1>1. Core
  BY DEF History
<1>2. a \in Made /\ homes[a] = w /\ attached[homes[a]] = a /\ a # None
  BY <1>0, <1>1 DEF Core, Maps
<1>3. /\ attached' = [attached EXCEPT ![w] = None] /\ Retire(a, reason, below)
      /\ reason \in Reasons /\ reason # "destroyed"
  BY <1>0 DEF Detached, Reasons
<1>4. attached'[w] = None /\ \A v \in Contents : v # w => attached'[v] = attached[v]
  BY <1>1, <1>3 DEF Core, Types
<1>5. \A b \in Made : b # a => current'[b] = current[b]
  BY <1>1, <1>2, <1>3, RetiredSession
<1>6. W \subseteq Waiting
  <2>1. ASSUME NEW b \in W
        PROVE  b \in Waiting
    <3>1. b \in Made /\ attached'[homes[b]] = b /\ current'[b] = None
      BY <1>0, <2>1 DEF Waiting
    <3>2. homes[b] \in Contents /\ b # None
      BY <1>1, <3>1 DEF Core, Types, Made, None
    <3>3. homes[b] # w /\ b # a
      BY <1>2, <1>4, <3>1, <3>2
    <3> QED
      BY <1>4, <1>5, <3>1, <3>2, <3>3 DEF Waiting
  <2> QED
    BY <2>1
<1>7. Fresh(below, W)
  BY <1>6 DEF Fresh
<1>8. \A f \in ToSet(below) :
        \/ f \in ToSet(stack)
        \/ f.at \in {"attaching", "establishing"} /\ FrameKnown(f) /\ Alive(f)'
  BY DEF Alive
<1>9. \A v \in Contents : frame[v] <= frame'[v]
  BY <1>1 DEF Core, Types, Documents
<1>10. /\ destroyed' = destroyed /\ destroyed \subseteq destroyed'
       /\ stack = <<>> \/ UNCHANGED <<frame, destroyed>>
       /\ reason = "destroyed" <=> homes[a] \in destroyed' /\ homes[a] \notin destroyed
       /\ UNCHANGED <<homes, sessions>>
  BY <1>3
<1> QED
  BY <1>0, <1>2, <1>3, <1>4, <1>7, <1>8, <1>9, <1>10, RetireHistory

LEMMA DisposingHistory ==
  ASSUME History, Core', Disposing
  PROVE  History'
<1>0. PICK left : left = {w \in Contents : attached[w] # None}
  OBVIOUS
<1>1. /\ stack # <<>> /\ Top.at = "disposing" /\ Core
      /\ UNCHANGED <<frame, destroyed, homes, sessions>>
  BY DEF Disposing, At, outside, History
<1>2. CASE left = {}
  <2>1. stack' = Rest /\ UNCHANGED <<attached, current, retired>>
    BY <1>0, <1>2 DEF Disposing
  <2> QED
    BY <1>1, <2>1, QuietPop DEF Clearing
<1>3. CASE left # {}
  <2>1. PICK w : w = CHOOSE u \in left : \A v \in left : u <= v
    OBVIOUS
  <2>2. left \in SUBSET Nat
    BY <1>0, ContentsAssumption
  <2>3. \E u \in left : \A v \in left : u <= v
    BY <1>3, <2>2, LeastNumber
  <2>4. w \in left
    BY <2>1, <2>3
  <2>5. Detached(w, "dispose", stack)
    BY <1>0, <1>3, <2>1 DEF Disposing
  <2>6. /\ w \in Contents /\ attached[w] # None /\ "dispose" \in {"detach", "dispose"}
        /\ stack \in Seq(FrameSet) /\ Ordered(stack) /\ Fresh(stack, Waiting)
    BY <1>0, <1>1, <2>4 DEF Core, Types, History
  <2> QED
    BY <1>1, <2>5, <2>6, DetachedHistory
<1> QED
  BY <1>2, <1>3

LEMMA DetachHistory ==
  ASSUME History, Core', NEW a \in 1 .. Len(homes), Detach(a)
  PROVE  History'
<1>0. PICK w : w = homes[a]
  OBVIOUS
<1>1. /\ attached[w] = a /\ Detached(w, "detach", stack) /\ Core
      /\ UNCHANGED <<frame, destroyed, homes, sessions>>
  BY <1>0 DEF Detach, outside, History
<1>2. /\ w \in Contents /\ attached[w] # None /\ "detach" \in {"detach", "dispose"}
      /\ stack \in Seq(FrameSet) /\ Ordered(stack) /\ Fresh(stack, Waiting)
  BY <1>0, <1>1 DEF Core, Types, None, History
<1> QED
  BY <1>1, <1>2, DetachedHistory

LEMMA AttachHistory ==
  ASSUME History, Core', NEW w \in Contents, Attach(w)
  PROVE  History'
<1>0. PICK f, below : f = Frame("attaching", w, None, "none") /\ below = Append(stack, f)
  OBVIOUS
<1>1. /\ w \notin destroyed /\ UNCHANGED <<frame, destroyed, homes, sessions>>
      /\ stack \in Seq(FrameSet) /\ Ordered(stack) /\ Fresh(stack, Waiting)
  BY DEF Attach, outside, History, Core, Types
<1>2. f \in FrameSet /\ f.at = "attaching" /\ f.on = w
  <2>1. /\ "attaching" \in Points /\ w \in Nat /\ None \in Nat
        /\ "none" \in Reasons \cup {"none"} \cup Clients
    BY ContentsAssumption DEF Points, None
  <2> QED
    BY <1>0, <2>1, FrameMade
<1>3. CASE attached[w] # None
  <2>1. Pushed(stack, below, f)
    BY <1>0 DEF Pushed
  <2>2. below \in Seq(FrameSet) /\ ToSet(below) = ToSet(stack) \cup {f}
    BY <1>1, <1>2, <2>1, ValuesAppended
  <2>3. Ordered(below)
    <3>1. \A g \in ToSet(stack) : Beside(g, f)
      BY <1>2 DEF Beside
    <3> QED
      BY <1>1, <1>2, <2>1, <3>1, OrderedPushed
  <2>4. Fresh(below, Waiting)
    <3>1. f.at # "establishing" /\ Waiting \subseteq Waiting
      BY <1>2
    <3> QED
      BY <1>1, <1>2, <2>1, <3>1, FreshPushed
  <2>5. Detached(w, "detach", below) /\ "detach" \in {"detach", "dispose"} /\ FrameKnown(f)
    BY <1>0, <1>2, <1>3 DEF Attach, FrameKnown
  <2> QED
    BY <1>1, <1>2, <1>3, <2>2, <2>3, <2>4, <2>5, DetachedHistory
<1>4. CASE attached[w] = None
  <2>1. stack' = Append(stack, f) /\ UNCHANGED <<attached, current, retired>>
    BY <1>0, <1>4 DEF Attach
  <2> QED
    BY <1>1, <1>2, <2>1, BegunHistory
<1> QED
  BY <1>3, <1>4

LEMMA DisposeHistory ==
  ASSUME History, Core', Dispose
  PROVE  History'
<1>0. PICK f : f = Frame("disposing", None, None, "none")
  OBVIOUS
<1>1. /\ stack' = Append(stack, f)
      /\ UNCHANGED <<frame, destroyed, homes, attached, current, sessions, retired>>
  BY <1>0 DEF Dispose, outside
<1>2. f \in FrameSet /\ f.at = "disposing"
  <2>1. /\ "disposing" \in Points /\ None \in Nat
        /\ "none" \in Reasons \cup {"none"} \cup Clients
    BY DEF Points, None
  <2> QED
    BY <1>0, <2>1, FrameMade
<1> QED
  BY <1>1, <1>2, BegunHistory

\* establish(): the clientId has had no session of this webContents.
LEMMA EstablishHistory ==
  ASSUME History, Core', CallsAllowed, NEW w \in Contents, NEW client \in Clients,
         Establish(w, client)
  PROVE  History'
<1>0. PICK a, f, below, W :
        /\ a = attached[w] /\ f = Frame("establishing", a, None, client)
        /\ below = Append(stack, f) /\ W = Waiting' \cap Made
  OBVIOUS
<1>1. /\ a # None /\ w \notin destroyed /\ DocumentOf(client) = frame[w]
      /\ current[a] # None => sessions[current[a]].client # client
      /\ ~Contains(retired[w], client)
      /\ Retire(a, "replaced", below)
      /\ UNCHANGED <<frame, destroyed, homes, attached, sessions>>
  BY <1>0 DEF Establish, Admits, WasRetired, outside
<1>2. /\ Core /\ stack \in Seq(FrameSet) /\ Ordered(stack) /\ Fresh(stack, Waiting)
      /\ Remembered
  BY DEF History, Core, Types
<1>3. a \in Made /\ homes[a] = w /\ attached[homes[a]] = a
  BY <1>0, <1>1, <1>2 DEF Core, Maps
<1>4. /\ f \in FrameSet /\ f.at = "establishing" /\ f.on = a /\ f.arg = client
  <2>1. /\ "establishing" \in Points /\ a \in Nat /\ None \in Nat
        /\ client \in Reasons \cup {"none"} \cup Clients
    BY <1>3 DEF Points, Made, None
  <2> QED
    BY <1>0, <2>1, FrameMade
<1>5. \A g \in ToSet(stack) : g.at # "closing"
  <2>1. \A i \in 1 .. Len(stack) : stack[i].at # "closing"
    <3>1. CASE stack = <<>>
      BY <3>1
    <3>2. CASE stack # <<>>
      BY <3>2 DEF Establish, MayCall, CallsAllowed
    <3> QED
      BY <3>1, <3>2
  <2> QED
    BY <1>2, <2>1, Values
<1>6. Pushed(stack, below, f)
  BY <1>0 DEF Pushed
<1>7. below \in Seq(FrameSet) /\ ToSet(below) = ToSet(stack) \cup {f}
  BY <1>2, <1>4, <1>6, ValuesAppended
<1>8. Ordered(below)
  <2>1. \A g \in ToSet(stack) : Beside(g, f)
    BY <1>5 DEF Beside
  <2> QED
    BY <1>2, <1>4, <1>6, <2>1, OrderedPushed
<1>9. New(w, client)
  <2>1. ASSUME NEW s \in 1 .. Len(sessions), HomeAt(s) = w, sessions[s].client = client
        PROVE  FALSE
    <3>1. DocAt(s) = frame[w]
      BY <1>1, <2>1 DEF DocAt
    <3>2. sessions[s].reason = "none" \/ client \in ToSet(retired[w])
      BY <1>1, <1>2, <2>1, <3>1 DEF Remembered
    <3>3. client \notin ToSet(retired[w])
      <4>1. retired[w] \in Seq(Clients)
        BY <1>2 DEF Core, Types
      <4> QED
        BY <1>1, <4>1, Values DEF Contains
    <3>4. sessions[s].attachment \in Made /\ s # None
      BY <1>2 DEF Core, Maps, None
    <3>5. current[sessions[s].attachment] = s
      BY <1>2, <1>5, <3>2, <3>3 DEF Core, Reached, ClosingIn
    <3>6. attached[homes[sessions[s].attachment]] = sessions[s].attachment
      BY <1>2, <3>4, <3>5 DEF Core, Maps
    <3>7. sessions[s].attachment = a
      BY <1>0, <2>1, <3>6 DEF HomeAt
    <3> QED
      BY <1>1, <2>1, <3>4, <3>5, <3>7
  <2> QED
    BY <2>1 DEF New
<1>10. \A b \in Made : b # a => current'[b] = current[b]
  BY <1>1, <1>2, <1>3, RetiredSession
<1>11. W \ {a} \subseteq Waiting
  BY <1>0, <1>1, <1>10 DEF Waiting
<1>12. Fresh(below, W)
  <2>1. New(homes[f.on], f.arg)
    BY <1>3, <1>4, <1>9
  <2>2. f.at = "establishing" /\ W \ {f.on} \subseteq Waiting
    BY <1>4, <1>11
  <2> QED
    BY <1>2, <1>4, <1>6, <2>1, <2>2, FreshPushed
<1>13. FrameKnown(f) /\ Alive(f)'
  BY <1>1, <1>3, <1>4 DEF FrameKnown, Alive
<1>14. /\ destroyed' = destroyed /\ destroyed \subseteq destroyed'
       /\ \A v \in Contents : frame[v] <= frame'[v]
       /\ "replaced" \in Reasons /\ "replaced" # "destroyed"
  BY <1>1, <1>2 DEF Core, Types, Documents, Reasons
<1>15. /\ \A v \in Contents : v # homes[a] => attached'[v] = attached[v]
       /\ attached'[homes[a]] \in {a, None}
       /\ stack = <<>> \/ UNCHANGED <<frame, destroyed>>
       /\ "replaced" = "destroyed" <=> homes[a] \in destroyed' /\ homes[a] \notin destroyed
       /\ UNCHANGED <<homes, sessions>>
  BY <1>1, <1>3, <1>14
<1>16. /\ \A g \in ToSet(below) :
            \/ g \in ToSet(stack)
            \/ g.at \in {"attaching", "establishing"} /\ FrameKnown(g) /\ Alive(g)'
       /\ \A g \in ToSet(stack) : g \in ToSet(below)
  BY <1>4, <1>7, <1>13
<1> QED
  BY <1>0, <1>1, <1>3, <1>7, <1>8, <1>12, <1>14, <1>15, <1>16, RetireHistory

\* A lifecycle event of a webContents that is not destroyed yet.
LEMMA HeardHistory ==
  ASSUME History, Core', NEW w \in Contents, w \notin destroyed, stack = <<>>,
         NEW reason \in Lifecycle, Hear(w, reason),
         UNCHANGED <<homes, attached, sessions>>,
         \A v \in Contents : frame[v] <= frame'[v],
         destroyed' = IF reason = "destroyed" THEN destroyed \cup {w} ELSE destroyed
  PROVE  History'
<1>0. PICK q, W : q = stack /\ W = Waiting' \cap Made
  OBVIOUS
<1>1. /\ Core /\ q \in Seq(FrameSet) /\ Ordered(q) /\ ToSet(stack) = {} /\ q = <<>>
      /\ destroyed \subseteq destroyed'
      /\ reason = "destroyed" <=> w \in destroyed' /\ w \notin destroyed
  BY <1>0, ValuesEmpty DEF History, Core, Types, Ordered
<1>2. Fresh(q, W)
  BY <1>1 DEF Fresh
<1>3. CASE attached[w] # None
  <2>1. PICK a : a = attached[w]
    OBVIOUS
  <2>2. a \in Made /\ homes[a] = w /\ attached[homes[a]] = a
    BY <1>1, <1>3, <2>1 DEF Core, Maps
  <2>3. Retire(a, reason, q) /\ reason \in Reasons
    BY <1>0, <1>1, <1>3, <2>1 DEF Hear, Core, Maps, Reasons
  <2>4. /\ \A v \in Contents : v # homes[a] => attached'[v] = attached[v]
        /\ attached'[homes[a]] \in {a, None}
        /\ destroyed' = destroyed \/ (reason = "destroyed" /\ destroyed' = destroyed \cup {homes[a]})
        /\ reason = "destroyed" <=> homes[a] \in destroyed' /\ homes[a] \notin destroyed
    BY <1>1, <2>2
  <2>5. (\A f \in ToSet(q) : f \in ToSet(stack)) /\ (\A f \in ToSet(stack) : f \in ToSet(q))
    BY <1>0
  <2> QED
    BY <1>0, <1>1, <1>2, <2>2, <2>3, <2>4, <2>5, RetireHistory
<1>4. CASE attached[w] = None
  <2>1. UNCHANGED <<current, retired, stack>>
    BY <1>1, <1>4 DEF Hear, Core, Maps
  <2>2. Steady
    <3>1. (\A v \in Contents : Vacant(v)' <=> Vacant(v)) /\ Made' = Made
      BY <2>1 DEF Vacant, Made
    <3> QED
      BY <1>1, <2>1, <3>1 DEF Steady
  <2>3. Gone'
    <3>1. ASSUME NEW v \in destroyed', attached'[v] # None
          PROVE  GoneAt(v)'
      <4>1. v \in destroyed /\ attached'[v] = attached[v] /\ attached[v] # None
        BY <1>4, <3>1
      <4>2. current'[attached[v]] = None
        BY <2>1, <4>1 DEF History, Gone, GoneAt
      <4>3. ToSet(stack') = {}
        BY <1>1, <2>1
      <4> QED
        BY <1>1, <2>2, <4>1, <4>2, <4>3, SteadyGone
    <3> QED
      BY <3>1 DEF Gone
  <2>4. q = stack' /\ ToSet(q) = {}
    BY <1>0, <1>1, <2>1
  <2> QED
    BY <1>0, <1>1, <1>2, <2>2, <2>3, <2>4, SteadyStep
<1> QED
  BY <1>3, <1>4

LEMMA NavigateHistory ==
  ASSUME History, Core', NEW w \in Contents, Navigate(w)
  PROVE  History'
<1>1. /\ stack = <<>> /\ w \notin destroyed /\ frame' = [frame EXCEPT ![w] = frame[w] + 1]
      /\ Hear(w, "main-frame-navigation") /\ "main-frame-navigation" \in Lifecycle
      /\ "main-frame-navigation" # "destroyed"
      /\ UNCHANGED <<destroyed, homes, attached, sessions>>
  BY DEF Navigate, Lifecycle
<1>2. \A v \in Contents : frame[v] <= frame'[v]
  <2>1. frame \in [Contents -> Documents]
    BY DEF History, Core, Types
  <2>2. \A v \in Contents : frame[v] \in Int /\ frame'[v] = IF v = w THEN frame[v] + 1 ELSE frame[v]
    BY <1>1, <2>1 DEF Documents
  <2> QED
    BY <2>2
<1> QED
  BY <1>1, <1>2, HeardHistory

LEMMA CrashHistory ==
  ASSUME History, Core', NEW w \in Contents, Crash(w)
  PROVE  History'
<1>1. /\ stack = <<>> /\ w \notin destroyed
      /\ Hear(w, "render-process-gone") /\ "render-process-gone" \in Lifecycle
      /\ "render-process-gone" # "destroyed"
      /\ UNCHANGED <<frame, destroyed, homes, attached, sessions>>
  BY DEF Crash, Lifecycle, outside
<1>2. \A v \in Contents : frame[v] <= frame'[v]
  BY <1>1 DEF History, Core, Types, Documents
<1> QED
  BY <1>1, <1>2, HeardHistory

LEMMA DestroyHistory ==
  ASSUME History, Core', CallsAllowed, NEW w \in Contents, Destroy(w)
  PROVE  History'
<1>1. /\ w \notin destroyed /\ destroyed' = destroyed \cup {w}
      /\ Hear(w, "destroyed") /\ "destroyed" \in Lifecycle
      /\ UNCHANGED <<frame, homes, attached, sessions>>
  BY DEF Destroy, Lifecycle
<1>2. stack = <<>>
  <2>1. SUFFICES ASSUME stack # <<>> PROVE FALSE
    OBVIOUS
  <2>2. Len(stack) \in 1 .. Len(stack)
    BY <2>1, StackParts DEF History, Core, Types
  <2>3. /\ stack[Len(stack)].at \in {"closing", "opening", "notifying"}
        /\ stack[Len(stack)].at \in {"closing", "opening"} => "destroy" \in SinkCalls
        /\ stack[Len(stack)].at = "notifying" => "destroy" \in ListenerCalls
    BY <2>1, <2>2 DEF Destroy, MayCall, Top
  <2> QED
    BY <2>3 DEF CallsAllowed
<1>3. \A v \in Contents : frame[v] <= frame'[v]
  BY <1>1 DEF History, Core, Types, Documents
<1> QED
  BY <1>1, <1>2, <1>3, HeardHistory

\* attach() goes on.
LEMMA AttachingHistory ==
  ASSUME History, Core', Attaching
  PROVE  History'
<1>0. PICK w, a : w = Top.on /\ a = Len(homes) + 1
  OBVIOUS
<1>1. /\ stack # <<>> /\ Top.at = "attaching" /\ stack' = Rest /\ Core
      /\ UNCHANGED <<frame, destroyed, sessions, retired>>
  BY DEF Attaching, At, outside, History
<1>2. Top \in ToSet(stack) /\ FrameKnown(Top)
  BY <1>1, TopFrames
<1>3. w \in Contents /\ w \notin destroyed
  BY <1>0, <1>1, <1>2 DEF FrameKnown, History, Alive
<1>4. \A v \in destroyed : ~Clearing(Top, v)
  BY <1>1 DEF Clearing
<1>5. CASE attached[w] # None
  <2>1. UNCHANGED <<homes, attached, current>>
    BY <1>0, <1>5 DEF Attaching
  <2> QED
    BY <1>1, <1>4, <2>1, QuietPop
<1>6. CASE attached[w] = None
  <2>1. /\ homes' = Append(homes, w) /\ current' = Append(current, None)
        /\ attached' = [attached EXCEPT ![w] = a]
    BY <1>0, <1>6 DEF Attaching
  <2>2. /\ homes \in Seq(Contents) /\ current \in Seq(Nat) /\ Len(current) = Len(homes)
        /\ None \in Nat /\ Len(homes) \in Nat
    BY <1>1 DEF Core, Types, None
  <2>3. Len(homes') = a /\ \A b \in Made : homes'[b] = homes[b]
    BY <1>0, <1>3, <2>1, <2>2, Appended DEF Made
  <2>4. current'[a] = None /\ \A b \in Made : current'[b] = current[b]
    BY <1>0, <2>1, <2>2, Appended DEF Made
  <2>5. a \notin Made /\ Made' = Made \cup {a}
    BY <1>0, <2>2, <2>3 DEF Made
  <2>6. attached'[w] = a /\ \A v \in Contents : v # w => attached'[v] = attached[v]
    BY <1>1, <1>3, <2>1 DEF Core, Types
  <2>7. \A v \in Contents : Vacant(v) => Vacant(v)'
    <3>1. \A v \in Contents : attached[v] # None => attached[v] \in Made
      BY <1>1 DEF Core, Maps
    <3> QED
      BY <2>4, <2>6, <3>1 DEF Vacant
  <2>8. Steady
    <3>1. \A v \in Contents : frame[v] \in Int
      BY <1>1 DEF Core, Types, Documents
    <3> QED
      BY <1>1, <2>3, <2>5, <2>7, <3>1 DEF Steady
  <2>9. Waiting' \cap Made \subseteq Waiting
    <3>1. ASSUME NEW b \in Made, attached'[homes'[b]] = b, current'[b] = None
          PROVE  attached[homes[b]] = b /\ current[b] = None
      <4>0. homes'[b] = homes[b] /\ current[b] = None
        BY <2>3, <2>4, <3>1
      <4>1. homes'[b] = homes[b] /\ homes[b] \in Contents /\ current[b] = None
        BY <2>2, <4>0 DEF Made
      <4>2. homes[b] # w
        BY <2>5, <2>6, <3>1, <4>1
      <4> QED
        BY <2>6, <3>1, <4>1, <4>2
    <3> QED
      BY <3>1 DEF Waiting
  <2>10. \A v \in destroyed : attached'[v] = attached[v]
    BY <1>1, <1>3, <2>6 DEF Core, Types
  <2> QED
    BY <1>1, <1>4, <2>4, <2>8, <2>9, <2>10, PoppedHistory
<1> QED
  BY <1>5, <1>6

\* The listeners return.
LEMMA NotifiedHistory ==
  ASSUME History, Core', Notified
  PROVE  History'
<1>0. PICK w, e : w = homes[Top.on] /\ e = Settled(retired[w], Top.arg)
  OBVIOUS
<1>1. /\ stack # <<>> /\ Top.at = "notifying" /\ stack' = Rest /\ Core
      /\ retired' = [retired EXCEPT ![w] = e]
      /\ UNCHANGED <<frame, destroyed, homes, attached, current, sessions>>
  BY <1>0 DEF Notified, At, outside, History
<1>2. Top \in ToSet(stack) /\ FrameKnown(Top)
  BY <1>1, TopFrames
<1>3. Alive(Top)
  BY <1>2 DEF History
<1>4. w \in Contents /\ retired \in [Contents -> Seq(Clients)]
  <2>1. Top.on \in Made
    BY <1>1, <1>2 DEF FrameKnown
  <2> QED
    BY <1>0, <1>1, <2>1 DEF Core, Types, Made
<1>5. retired'[w] = e /\ \A v \in Contents : v # w => retired'[v] = retired[v]
  BY <1>1, <1>4
<1>6. IF Top.arg = "destroyed" THEN e = <<>> /\ w \in destroyed ELSE e = retired[w]
  BY <1>0, <1>1, <1>3 DEF Settled, Alive
<1>7. Steady
  <2>1. \A v \in Contents : frame[v] \in Int
    BY <1>1 DEF Core, Types, Documents
  <2>2. (\A v \in Contents : Vacant(v)' <=> Vacant(v)) /\ Made' = Made
    BY <1>1 DEF Vacant, Made
  <2> QED
    BY <1>1, <1>5, <1>6, <2>1, <2>2 DEF Steady
<1>8. Waiting' = Waiting
  BY <1>1 DEF Waiting, Made
<1>9. \A v \in destroyed : Clearing(Top, v) => retired'[v] = <<>>
  BY <1>0, <1>5, <1>6 DEF Clearing
<1> QED
  BY <1>1, <1>7, <1>8, <1>9, PoppedHistory

LEMMA StutterHistory ==
  ASSUME History, Core', UNCHANGED vars
  PROVE  History'
<1>0. PICK q, W : q = stack /\ W = Waiting' \cap Made
  OBVIOUS
<1>1. /\ UNCHANGED <<frame, destroyed, homes, attached, current, sessions, retired, stack>>
      /\ Core /\ q \in Seq(FrameSet) /\ q = stack' /\ Ordered(q)
  BY <1>0 DEF vars, outside, History, Core, Types
<1>2. /\ Steady /\ W \subseteq Waiting
  <2>1. \A v \in Contents : frame[v] \in Int
    BY <1>1 DEF Core, Types, Documents
  <2>2. (\A v \in Contents : Vacant(v)' <=> Vacant(v)) /\ Made' = Made
    BY <1>1 DEF Vacant, Made
  <2>3. Waiting' = Waiting
    BY <1>1 DEF Waiting, Made
  <2> QED
    BY <1>0, <1>1, <2>1, <2>2, <2>3 DEF Steady
<1>3. Fresh(q, W)
  BY <1>0, <1>2 DEF History, Fresh
<1>4. \A f \in ToSet(q) : f.at \in {"establishing", "closing"} => f.on \in Made
  <2>1. \A f \in ToSet(q) : FrameKnown(f)
    BY <1>0, <1>1 DEF Core
  <2> QED
    BY <2>1 DEF FrameKnown
<1>5. \A f \in ToSet(q) : Alive(f)'
  BY <1>0, <1>2, SteadyAlive
<1>6. Gone'
  <2>1. ASSUME NEW v \in destroyed, attached[v] # None
        PROVE  GoneAt(v)'
    <3>1. GoneAt(v)
      BY <2>1 DEF History, Gone
    <3> QED
      BY <1>1, <3>1 DEF GoneAt, Clearing
  <2> QED
    BY <1>1, <2>1 DEF Gone
<1> QED
  BY <1>0, <1>1, <1>2, <1>3, <1>4, <1>5, <1>6, SteadyStep

\* A session is opened: nobody had its clientId, and no session is being closed.
LEMMA OpeningHistory ==
  ASSUME History, Core', Establishing
  PROVE  History'
<1>0. PICK a, s, e, f, w :
        /\ a = Top.on /\ s = Len(sessions) + 1
        /\ e = Session(a, Top.arg)
        /\ f = Frame("opening", a, s, "none")
        /\ w = homes[a]
  OBVIOUS
<1>1. /\ stack # <<>> /\ Top.at = "establishing" /\ Core
      /\ UNCHANGED <<frame, destroyed, homes, attached, retired>>
  BY DEF Establishing, At, outside, History
<1>2. /\ Rest \in Seq(FrameSet) /\ Top \in FrameSet /\ FrameKnown(Top)
      /\ ToSet(stack) = ToSet(Rest) \cup {Top}
  BY <1>1, TopFrames
<1>3. /\ a \in Made /\ a \in Nat /\ w \in Contents /\ Top.arg \in Clients
      /\ DocumentOf(Top.arg) = frame[w]
  <2>1. a \in Made /\ Top.arg \in Clients /\ DocumentOf(Top.arg) = frame[w]
    BY <1>0, <1>1, <1>2 DEF FrameKnown
  <2> QED
    BY <1>0, <1>1, <2>1 DEF Core, Types, Made
<1>4. w \notin destroyed
  <2>1. Alive(Top)
    BY <1>2 DEF History
  <2> QED
    BY <1>0, <1>1, <2>1 DEF Alive
<1>5. Popped(stack, Rest, Top) /\ stack \in Seq(FrameSet)
  BY <1>1 DEF Popped, Top, Rest, Core, Types
<1>6. CASE stack' = Rest /\ UNCHANGED <<current, sessions>> /\ a \notin Waiting
  <2>1. \A v \in destroyed : ~Clearing(Top, v)
    BY <1>1 DEF Clearing
  <2> QED
    BY <1>0, <1>1, <1>6, <2>1, QuietPop
<1>7. CASE /\ attached[w] = a /\ current[a] = None
           /\ sessions' = Append(sessions, e)
           /\ current' = [current EXCEPT ![a] = s]
           /\ stack' = Append(Rest, f)
  <2>1. /\ sessions \in Seq(SessionSet) /\ Len(sessions) \in Nat /\ s \in Nat /\ s # None
        /\ current \in Seq(Nat) /\ Len(current) = Len(homes) /\ a \in 1 .. Len(current)
    <3>1. sessions \in Seq(SessionSet) /\ current \in Seq(Nat) /\ Len(current) = Len(homes)
      BY <1>1 DEF Core, Types
    <3> QED
      BY ONLY <1>0, <1>3, <3>1 DEF Made, None
  <2>2. /\ e \in SessionSet /\ e.attachment = a /\ e.client = Top.arg /\ e.reason = "none"
    BY <1>0, <1>3 DEF Session, SessionSet
  <2>3. /\ Len(sessions') = s /\ sessions'[s] = e
        /\ \A t \in 1 .. Len(sessions) : sessions'[t] = sessions[t]
    BY <1>0, <1>7, <2>1, <2>2, Appended
  <2>4. /\ current'[a] = s
        /\ \A b \in Made : b # a => current'[b] = current[b]
    BY <1>7, <2>1, Replaced DEF Made
  <2>5. /\ s \notin 1 .. Len(sessions) /\ s \in 1 .. s
        /\ \A t \in 1 .. s : t \in 1 .. Len(sessions) \/ t = s
    BY ONLY <1>0, <2>1
  <2>6. /\ \A t \in 1 .. Len(sessions) : HomeAt(t)' = HomeAt(t) /\ DocAt(t)' = DocAt(t)
        /\ HomeAt(s)' = w /\ DocAt(s)' = frame[w]
    <3>1. homes' = homes /\ w = homes[a] /\ DocumentOf(Top.arg) = frame[w]
      BY <1>0, <1>1, <1>3
    <3>2. \A t \in 1 .. Len(sessions) : HomeAt(t)' = HomeAt(t) /\ DocAt(t)' = DocAt(t)
      BY <2>3, <3>1 DEF HomeAt, DocAt
    <3>3. HomeAt(s)' = w /\ DocAt(s)' = frame[w]
      BY ONLY <2>2, <2>3, <3>1 DEF HomeAt, DocAt
    <3> QED
      BY <3>2, <3>3
  <2>7. f \in FrameSet /\ f.at = "opening"
    <3>1. "opening" \in Points
      BY DEF Points
    <3> QED
      BY <1>0, <1>3, <2>1, <3>1, FrameMade
  <2>8. PICK q, W : q = stack' /\ W = Waiting'
    OBVIOUS
  <2>9. Pushed(Rest, q, f)
    BY <1>7, <2>8 DEF Pushed
  <2>10. q \in Seq(FrameSet) /\ ToSet(q) = ToSet(Rest) \cup {f}
    BY <1>2, <2>7, <2>9, ValuesAppended
  <2>11. \A g \in ToSet(Rest) : g.at # "closing" /\ Alive(g) /\ FrameKnown(g)
    <3>1. \A g \in ToSet(Rest) : Beside(g, Top) /\ Alive(g) /\ FrameKnown(g)
      BY <1>1, <1>2, <1>5, OrderedPopped DEF History, Core
    <3> QED
      BY <1>1, <3>1 DEF Beside
  <2>12. \A g \in ToSet(q) : g.at # "closing"
    BY <2>7, <2>10, <2>11
  <2>13. Ordered(stack)'
    <3>1. \A i \in 1 .. Len(q) : q[i].at # "closing"
      BY <2>10, <2>12, Values
    <3> QED
      BY <2>8, <3>1 DEF Ordered, Beside
  <2>14. \A g \in ToSet(stack') : Alive(g)'
    <3>1. ASSUME NEW g \in ToSet(q)
          PROVE  Alive(g)'
      <4>1. CASE g = f
        BY <2>7, <4>1 DEF Alive
      <4>2. CASE g \in ToSet(Rest)
        BY <1>1, <2>11, <4>2 DEF Alive
      <4> QED
        BY <2>10, <4>1, <4>2
    <3> QED
      BY <2>8, <3>1
  <2>15. New(w, Top.arg)
    <3>1. a \in Waiting
      BY <1>0, <1>3, <1>7 DEF Waiting
    <3>2. Len(stack) \in 1 .. Len(stack) /\ Top = stack[Len(stack)]
      BY <1>1, <1>5, StackParts DEF Top
    <3>3. Innermost(stack, Len(stack))
      BY <1>1, <3>2 DEF Innermost
    <3>4. Fresh(stack, Waiting)
      BY DEF History
    <3> QED
      BY <1>0, <3>1, <3>2, <3>3, <3>4 DEF Fresh
  <2>16. Fresh(stack, Waiting)'
    <3>1. W \subseteq Waiting /\ a \notin W
      <4>1. homes' = homes /\ attached' = attached /\ Made' = Made
        BY <1>1 DEF Made
      <4> QED
        BY <2>1, <2>4, <2>8, <4>1 DEF Waiting
    <3>2. Fresh(Rest, W)
      BY <1>0, <1>1, <1>5, <3>1, FreshPopped DEF History
    <3>3. Fresh(q, W)
      <4>1. f.at # "establishing" /\ W \subseteq W
        BY <2>7
      <4> QED
        BY <1>2, <2>7, <2>9, <3>2, <4>1, FreshPushed
    <3>4. ASSUME NEW i \in 1 .. Len(q), Innermost(q, i), q[i].on \in W
          PROVE  New(homes[q[i].on], q[i].arg)'
      <4>1. /\ q[i].on \in Made /\ attached[homes[q[i].on]] = q[i].on /\ q[i].on # a
            /\ New(homes[q[i].on], q[i].arg)
        BY <3>1, <3>3, <3>4 DEF Waiting, Fresh
      <4>2. homes[q[i].on] # w
        BY <1>7, <4>1
      <4>3. ASSUME NEW t \in 1 .. Len(sessions'), HomeAt(t)' = homes[q[i].on]
            PROVE  sessions'[t].client # q[i].arg
        <5>1. t \in 1 .. Len(sessions)
          BY <2>3, <2>5, <2>6, <4>2, <4>3
        <5>2. HomeAt(t) = homes[q[i].on] /\ sessions'[t] = sessions[t]
          BY <2>3, <2>6, <4>3, <5>1
        <5> QED
          BY <4>1, <5>1, <5>2 DEF New
      <4>4. homes' = homes
        BY <1>1
      <4> QED
        BY <4>3, <4>4 DEF New
    <3> QED
      BY <2>8, <3>4 DEF Fresh, Innermost
  <2>17. Record'
    BY <1>1 DEF History, Record, Sorted
  <2>18. Remembered'
    <3>1. ASSUME NEW t \in 1 .. s
          PROVE  /\ DocAt(t)' <= frame[HomeAt(t)']
                 /\ DocAt(t)' = frame[HomeAt(t)'] /\ HomeAt(t)' \notin destroyed =>
                      \/ sessions'[t].reason = "none"
                      \/ sessions'[t].client \in ToSet(retired[HomeAt(t)'])
      <4>1. CASE t = s
        <5>1. frame[w] \in Int
          BY <1>1, <1>3 DEF Core, Types, Documents
        <5> QED
          BY <2>2, <2>3, <2>6, <4>1, <5>1
      <4>2. CASE t \in 1 .. Len(sessions)
        BY <2>3, <2>6, <4>2 DEF History, Remembered
      <4> QED
        BY <2>5, <4>1, <4>2
    <3> QED
      BY <1>1, <2>3, <3>1 DEF Remembered
  <2>19. Gone'
    <3>1. ASSUME NEW v \in destroyed, attached[v] # None
          PROVE  GoneAt(v)'
      <4>1. GoneAt(v) /\ v \in Contents /\ v # w
        BY <1>1, <1>4, <3>1 DEF History, Gone, Core, Types
      <4>2. attached[v] \in Made /\ attached[v] # a
        BY <1>0, <1>1, <3>1, <4>1 DEF Core, Maps
      <4>3. current'[attached[v]] = None
        BY <2>4, <4>1, <4>2 DEF GoneAt
      <4>4. retired[v] = <<>> \/ \E g \in ToSet(q) : Clearing(g, v)'
        <5>1. CASE retired[v] = <<>>
          BY <5>1
        <5>2. ASSUME NEW g \in ToSet(stack), Clearing(g, v)
              PROVE  g \in ToSet(q) /\ Clearing(g, v)'
          <6>1. g # Top
            BY <1>1, <5>2 DEF Clearing
          <6> QED
            BY <1>1, <1>2, <2>10, <5>2, <6>1 DEF Clearing
        <5> QED
          BY <4>1, <5>1, <5>2 DEF GoneAt
      <4> QED
        BY <1>1, <2>8, <2>12, <4>3, <4>4 DEF GoneAt
    <3> QED
      BY <1>1, <3>1 DEF Gone
  <2>20. NoRevival'
    <3>1. ASSUME NEW t \in 1 .. s, NEW u \in 1 .. s, t # u, HomeAt(t)' = HomeAt(u)'
          PROVE  sessions'[t].client # sessions'[u].client
      <4>1. CASE t = s
        <5>1. u \in 1 .. Len(sessions) /\ HomeAt(u) = w
          BY <2>5, <2>6, <3>1, <4>1
        <5> QED
          BY <2>2, <2>3, <2>15, <4>1, <5>1 DEF New
      <4>2. CASE u = s
        <5>1. t \in 1 .. Len(sessions) /\ HomeAt(t) = w
          BY <2>5, <2>6, <3>1, <4>2
        <5> QED
          BY <2>2, <2>3, <2>15, <4>2, <5>1 DEF New
      <4>3. CASE t \in 1 .. Len(sessions) /\ u \in 1 .. Len(sessions)
        <5>1. HomeAt(t) = HomeAt(u) /\ sessions'[t] = sessions[t] /\ sessions'[u] = sessions[u]
          BY <2>3, <2>6, <3>1, <4>3
        <5> QED
          BY <3>1, <4>3, <5>1 DEF History, NoRevival, HomeAt, HomeOf
      <4> QED
        BY <2>5, <4>1, <4>2, <4>3
    <3> QED
      BY <2>3, <3>1 DEF NoRevival, HomeAt, HomeOf
  <2> QED
    BY <2>13, <2>14, <2>16, <2>17, <2>18, <2>19, <2>20 DEF History
<1> QED
  <2>1. CASE attached[w] # a \/ current[a] # None
    <3>1. stack' = Rest /\ UNCHANGED <<current, sessions>>
      BY <1>0, <2>1 DEF Establishing
    <3>2. a \notin Waiting
      BY <1>0, <2>1 DEF Waiting
    <3> QED
      BY <1>6, <3>1, <3>2
  <2>2. CASE ~(attached[w] # a \/ current[a] # None)
    BY <1>0, <1>7, <2>2 DEF Establishing
  <2> QED
    BY <2>1, <2>2

\* A session is closed: its clientId enters the record.
LEMMA ClosingHistory ==
  ASSUME History, Core', CallsAllowed, Closing
  PROVE  History'
<1>0. PICK f, g, s, e, c, r, w :
        /\ f = Top /\ g = [Top EXCEPT !.at = "notifying"] /\ s = Top.session
        /\ e = [sessions[s] EXCEPT !.reason = Top.arg]
        /\ c = sessions[s].client /\ w = homes[Top.on]
        /\ r = Recorded(retired[w], c)
  OBVIOUS
<1>1. /\ stack # <<>> /\ f.at = "closing"
      /\ retired' = [retired EXCEPT ![w] = r]
      /\ sessions' = [sessions EXCEPT ![s] = e]
      /\ stack' = Append(Rest, g)
      /\ UNCHANGED <<frame, destroyed, homes, attached, current>>
  BY <1>0 DEF Closing, At, outside
<1>2. Core /\ Record /\ Remembered /\ Gone /\ NoRevival
  BY DEF History
<1>3. /\ Rest \in Seq(FrameSet) /\ f \in FrameSet /\ FrameKnown(f)
      /\ ToSet(stack) = ToSet(Rest) \cup {f}
  BY <1>0, <1>1, <1>2, TopFrames
<1>4. /\ f.on \in Made /\ s \in 1 .. Len(sessions)
      /\ sessions[s].attachment = f.on /\ sessions[s].reason = "none"
  BY <1>0, <1>1, <1>3 DEF FrameKnown
<1>5. /\ sessions \in Seq(SessionSet) /\ sessions[s] \in SessionSet /\ c \in Clients
      /\ w \in Contents /\ retired \in [Contents -> Seq(Clients)]
      /\ retired[w] \in Seq(Clients) /\ Len(retired[w]) <= MaxRetired
  <2>1. /\ sessions \in Seq(SessionSet) /\ homes \in Seq(Contents)
        /\ retired \in [Contents -> Seq(Clients)]
        /\ \A v \in Contents : Len(retired[v]) <= MaxRetired
    BY <1>2 DEF Core, Types, Maps
  <2>2. sessions[s] \in SessionSet /\ w \in Contents
    BY <1>0, <1>4, <2>1 DEF Made
  <2>3. c \in Clients
    BY <1>0, <2>2 DEF SessionSet
  <2> QED
    BY <2>1, <2>2, <2>3
<1>6. /\ e \in SessionSet /\ e.reason # "none" /\ e.client = c /\ e.attachment = f.on
  <2>1. f.arg \in Reasons
    BY <1>1, <1>3 DEF FrameKnown
  <2> QED
    BY <1>0, <1>4, <1>5, <2>1 DEF SessionSet, Reasons, Lifecycle
<1>7. /\ Len(sessions') = Len(sessions) /\ sessions'[s] = e
      /\ \A t \in 1 .. Len(sessions) : t # s => sessions'[t] = sessions[t]
  BY <1>1, <1>4, <1>5, <1>6, Replaced
<1>8. \A t \in 1 .. Len(sessions) :
        /\ sessions'[t].client = sessions[t].client
        /\ HomeAt(t)' = HomeAt(t) /\ DocAt(t)' = DocAt(t)
  <2>1. \A t \in 1 .. Len(sessions) :
          /\ sessions'[t].client = sessions[t].client
          /\ sessions'[t].attachment = sessions[t].attachment
    BY <1>0, <1>4, <1>6, <1>7
  <2> QED
    BY <1>1, <2>1 DEF HomeAt, DocAt
<1>9. HomeAt(s) = w /\ DocAt(s) = DocumentOf(c)
  BY <1>0, <1>4 DEF HomeAt, DocAt
<1>10. /\ Alive(f) /\ Vacant(w)
       /\ \A x \in ToSet(retired[w]) : DocumentOf(x) <= DocumentOf(c)
  <2>1. Alive(f)
    BY <1>3 DEF History
  <2> QED
    BY <1>0, <1>1, <1>9, <2>1 DEF Alive
<1>11. /\ Once(r) /\ Sorted(r) /\ ToSet(r) \subseteq ToSet(retired[w]) \cup {c} /\ c \in ToSet(r)
       /\ \A x \in ToSet(retired[w]) : DocumentOf(x) = DocumentOf(c) => x \in ToSet(r)
  <2>1. Once(retired[w]) /\ Sorted(retired[w]) /\ ClientsPerDocument <= MaxRetired
    BY <1>2, <1>5 DEF Record, CallsAllowed
  <2> QED
    BY <1>0, <1>5, <1>10, <2>1, RecordedFacts
<1>12. retired'[w] = r /\ \A v \in Contents : v # w => retired'[v] = retired[v]
  BY <1>1, <1>5
<1>13. /\ frame[w] \in Int /\ DocumentOf(c) \in Int /\ DocumentOf(c) <= frame[w]
       /\ \A x \in ToSet(retired[w]) : DocumentOf(x) \in Int
  <2>1. frame[w] \in Int
    BY <1>2, <1>5 DEF Core, Types, Documents
  <2>2. \A x \in Clients : DocumentOf(x) \in Int
    BY DEF Clients, Documents, DocumentOf
  <2>3. DocumentOf(c) <= frame[w]
    BY <1>2, <1>4, <1>9 DEF Remembered
  <2>4. ToSet(retired[w]) \subseteq Clients
    BY <1>5, Values
  <2> QED
    BY <1>5, <2>1, <2>2, <2>3, <2>4
<1>14. /\ g \in FrameSet /\ g.at = "notifying" /\ g.on = f.on /\ g.session = s /\ g.arg = f.arg
  BY <1>0, <1>3, FrameMoved
<1>15. PICK q, W : q = stack' /\ W = Waiting
  OBVIOUS
<1>16. Pushed(Rest, q, g) /\ Popped(stack, Rest, f) /\ stack \in Seq(FrameSet)
  BY <1>0, <1>1, <1>2, <1>15 DEF Pushed, Popped, Top, Rest, Core, Types
<1>17. q \in Seq(FrameSet) /\ ToSet(q) = ToSet(Rest) \cup {g}
  BY <1>3, <1>14, <1>16, ValuesAppended
<1>18. Ordered(Rest) /\ \A h \in ToSet(Rest) : Beside(h, f)
  BY <1>16, OrderedPopped DEF History
<1>19. Ordered(stack)'
  <2>1. \A h \in ToSet(Rest) : Beside(h, g)
    BY <1>14 DEF Beside
  <2>2. Ordered(q)
    BY <1>3, <1>14, <1>16, <1>18, <2>1, OrderedPushed
  <2>3. homes' = homes
    BY <1>1
  <2> QED
    BY <1>15, <2>2, <2>3 DEF Ordered, Beside
<1>20. Fresh(stack, Waiting)'
  <2>1. Waiting' = W
    BY <1>1, <1>15 DEF Waiting, Made
  <2>2. Fresh(stack, W) /\ W \subseteq W /\ f.at # "establishing" /\ g.at # "establishing"
    BY <1>1, <1>14, <1>15 DEF History
  <2>3. Fresh(Rest, W)
    BY <1>16, <2>2, FreshPopped
  <2>4. Fresh(q, W)
    BY <1>3, <1>14, <1>16, <2>2, <2>3, FreshPushed
  <2>5. ASSUME NEW i \in 1 .. Len(q), Innermost(q, i), q[i].on \in W
        PROVE  New(homes[q[i].on], q[i].arg)'
    <3>1. New(homes[q[i].on], q[i].arg)
      BY <2>4, <2>5 DEF Fresh
    <3>2. homes' = homes
      BY <1>1
    <3> QED
      BY <1>7, <1>8, <3>1, <3>2 DEF New
  <2> QED
    BY <1>15, <2>1, <2>5 DEF Fresh, Innermost
<1>21. \A h \in ToSet(stack') : Alive(h)'
  <2>1. ASSUME NEW h \in ToSet(q)
        PROVE  Alive(h)'
    <3>1. CASE h = g
      BY <1>0, <1>1, <1>10, <1>14, <3>1 DEF Alive
    <3>2. CASE h \in ToSet(Rest)
      <4>1. Alive(h) /\ FrameKnown(h) /\ Beside(h, f)
        BY <1>2, <1>3, <1>18, <3>2 DEF History, Core
      <4>2. CASE h.at # "closing"
        BY <1>1, <4>1, <4>2 DEF Alive
      <4>3. CASE h.at = "closing"
        <5>1. homes[h.on] # w /\ h.on \in Made /\ h.session \in 1 .. Len(sessions)
          BY <1>0, <1>1, <4>1, <4>3 DEF Beside, FrameKnown
        <5>2. homes[h.on] \in Contents
          BY <1>2, <5>1 DEF Core, Types, Made
        <5>3. retired'[homes[h.on]] = retired[homes[h.on]] /\ DocAt(h.session)' = DocAt(h.session)
          BY <1>8, <1>12, <5>1, <5>2
        <5>4. Vacant(homes[h.on])' <=> Vacant(homes[h.on])
          BY <1>1 DEF Vacant
        <5> QED
          BY <1>1, <4>1, <4>3, <5>3, <5>4 DEF Alive
      <4> QED
        BY <4>2, <4>3
    <3> QED
      BY <1>17, <2>1, <3>1, <3>2
  <2> QED
    BY <1>15, <2>1
<1>22. Record'
  <2>1. ASSUME NEW v \in Contents
        PROVE  /\ Once(retired'[v]) /\ Sorted(retired'[v])
               /\ \A x \in ToSet(retired'[v]) : DocumentOf(x) <= frame[v]
    <3>1. CASE v = w
      <4>1. \A x \in ToSet(r) : DocumentOf(x) <= frame[w]
        BY <1>10, <1>11, <1>13
      <4> QED
        BY <1>11, <1>12, <3>1, <4>1
    <3>2. CASE v # w
      BY <1>2, <1>12, <3>2 DEF Record
    <3> QED
      BY <3>1, <3>2
  <2> QED
    BY <1>1, <2>1 DEF Record, Sorted
<1>23. Remembered'
  <2>1. ASSUME NEW t \in 1 .. Len(sessions), DocAt(t) = frame[HomeAt(t)], HomeAt(t) \notin destroyed
        PROVE  sessions'[t].reason = "none" \/ sessions'[t].client \in ToSet(retired'[HomeAt(t)])
    <3>1. CASE t = s
      BY <1>6, <1>7, <1>9, <1>11, <1>12, <3>1
    <3>2. CASE t # s
      <4>1. /\ sessions'[t] = sessions[t]
            /\ sessions[t].reason = "none" \/ sessions[t].client \in ToSet(retired[HomeAt(t)])
        BY <1>2, <1>7, <2>1, <3>2 DEF Remembered
      <4>2. CASE HomeAt(t) # w
        <5>1. sessions[t].attachment \in Made
          BY <1>2 DEF Core, Maps
        <5>2. HomeAt(t) \in Contents
          BY <1>2, <5>1 DEF HomeAt, Core, Types, Made
        <5> QED
          BY <1>12, <4>1, <4>2, <5>2
      <4>3. CASE HomeAt(t) = w /\ sessions[t].client \in ToSet(retired[w])
        <5>1. DocumentOf(sessions[t].client) = frame[w]
          BY <2>1, <4>3 DEF DocAt
        <5>2. DocumentOf(sessions[t].client) = DocumentOf(c)
          BY <1>10, <1>13, <4>3, <5>1
        <5> QED
          BY <1>11, <1>12, <4>1, <4>3, <5>2
      <4> QED
        BY <4>1, <4>2, <4>3
    <3> QED
      BY <3>1, <3>2
  <2>2. \A t \in 1 .. Len(sessions) : DocAt(t) <= frame[HomeAt(t)]
    BY <1>2 DEF Remembered
  <2> QED
    BY <1>1, <1>7, <1>8, <2>1, <2>2 DEF Remembered
<1>24. Gone'
  <2>1. ASSUME NEW v \in destroyed, attached[v] # None
        PROVE  GoneAt(v)'
    <3>1. GoneAt(v) /\ v \in Contents
      BY <1>2, <2>1 DEF Gone, Core, Types
    <3>2. \A h \in ToSet(q) : h.at = "closing" /\ homes[h.on] = v => h.arg = "destroyed"
      BY <1>3, <1>14, <1>17, <3>1 DEF GoneAt
    <3>3. retired'[v] = <<>> \/ \E h \in ToSet(q) : Clearing(h, v)'
      <4>1. CASE v = w
        <5>1. f.arg = "destroyed"
          BY <1>0, <1>1, <1>3, <3>1, <4>1 DEF GoneAt
        <5>2. Clearing(g, v)'
          BY <1>0, <1>1, <1>14, <4>1, <5>1 DEF Clearing
        <5> QED
          BY <1>17, <5>2
      <4>2. ASSUME v # w, NEW h \in ToSet(stack), Clearing(h, v)
            PROVE  \E k \in ToSet(q) : Clearing(k, v)'
        <5>1. h # f
          BY <1>0, <4>2 DEF Clearing
        <5>2. h \in ToSet(q) /\ Clearing(h, v)'
          BY <1>1, <1>3, <1>17, <4>2, <5>1 DEF Clearing
        <5> QED
          BY <5>2
      <4>3. CASE v # w /\ retired[v] = <<>>
        BY <1>12, <3>1, <4>3
      <4> QED
        BY <3>1, <4>1, <4>2, <4>3 DEF GoneAt
    <3> QED
      BY <1>1, <1>15, <3>1, <3>2, <3>3 DEF GoneAt
  <2> QED
    BY <1>1, <2>1 DEF Gone
<1>25. NoRevival'
  <2>1. \A t \in 1 .. Len(sessions) : HomeAt(t)' = HomeAt(t)
    BY <1>8
  <2> QED
    BY <1>2, <1>7, <1>8, <2>1 DEF NoRevival, HomeAt, HomeOf
<1> QED
  BY <1>19, <1>20, <1>21, <1>22, <1>23, <1>24, <1>25 DEF History

LEMMA HistoryInit == Init => History
<1> SUFFICES ASSUME Init PROVE History
  OBVIOUS
<1>1. Core /\ ToSet(stack) = {} /\ stack = <<>> /\ sessions = <<>> /\ destroyed = {}
  BY CoreInit, ValuesEmpty DEF Init
<1>2. Record
  BY ValuesEmpty DEF Init, Record, Sorted
<1>3. Remembered /\ NoRevival
  BY <1>1 DEF Remembered, NoRevival
<1>4. Gone /\ Ordered(stack) /\ Fresh(stack, Waiting)
  BY <1>1 DEF Gone, Ordered, Fresh
<1> QED
  BY <1>1, <1>2, <1>3, <1>4 DEF History

LEMMA HistoryNext ==
  ASSUME History, CallsAllowed, [Next]_vars
  PROVE  History'
<1>0. Core'
  BY CoreNext DEF History
<1>1. CASE Closing
  BY <1>0, <1>1, ClosingHistory
<1>2. CASE Notified
  BY <1>0, <1>2, NotifiedHistory
<1>3. CASE Attaching
  BY <1>0, <1>3, AttachingHistory
<1>4. CASE Establishing
  BY <1>0, <1>4, OpeningHistory
<1>5. CASE Opened
  <2>1. /\ stack # <<>> /\ Top.at = "opening" /\ stack' = Rest
        /\ UNCHANGED <<frame, destroyed, homes, attached, current, sessions, retired>>
    BY <1>5 DEF Opened, At, outside
  <2>2. \A w \in destroyed : ~Clearing(Top, w)
    BY <2>1 DEF Clearing
  <2> QED
    BY <1>0, <2>1, <2>2, QuietPop
<1>6. CASE Disposing
  BY <1>0, <1>6, DisposingHistory
<1>7. ASSUME NEW w \in Contents, Attach(w)
      PROVE  History'
  BY <1>0, <1>7, AttachHistory
<1>8. ASSUME NEW w \in Contents, Navigate(w)
      PROVE  History'
  BY <1>0, <1>8, NavigateHistory
<1>9. ASSUME NEW w \in Contents, Crash(w)
      PROVE  History'
  BY <1>0, <1>9, CrashHistory
<1>10. ASSUME NEW w \in Contents, Destroy(w)
       PROVE  History'
  BY <1>0, <1>10, DestroyHistory
<1>11. ASSUME NEW w \in Contents, NEW client \in Clients, Establish(w, client)
       PROVE  History'
  BY <1>0, <1>11, EstablishHistory
<1>12. ASSUME NEW a \in 1 .. Len(homes), Detach(a)
       PROVE  History'
  BY <1>0, <1>12, DetachHistory
<1>13. CASE Dispose
  BY <1>0, <1>13, DisposeHistory
<1>14. CASE UNCHANGED vars
  BY <1>0, <1>14, StutterHistory
<1> QED
  BY <1>1, <1>2, <1>3, <1>4, <1>5, <1>6, <1>7, <1>8, <1>9, <1>10, <1>11, <1>12, <1>13, <1>14
  DEF Next, Return

\* A clientId that was retired opens no second session of its webContents, whether the
\* record remembers it or its document is gone, and a webContents destroyed while it is
\* attached leaves neither a session nor a record.  The sink makes no request itself,
\* nothing is destroyed in the middle of a call, and the record holds the clientIds of a
\* document.  It is false without any of the three: a handshake made while the session
\* is being closed reopens it, a new session can be opened behind the back of destroyed,
\* and a record with less room forgets a clientId that its document still uses.
THEOREM RetiredStaysRetiredCorrect ==
  ASSUME CallsAllowed
  PROVE  Spec => []RetiredStaysRetired
<1>1. History /\ [Next]_vars => History'
  BY HistoryNext
<1>2. History => RetiredStaysRetired
  <2> SUFFICES ASSUME History PROVE RetiredStaysRetired
    OBVIOUS
  <2>1. NoRevival /\ Gone
    BY DEF History
  <2>2. ASSUME stack = <<>>, NEW w \in destroyed, attached[w] # None
        PROVE  current[attached[w]] = None /\ retired[w] = <<>>
    <3>1. GoneAt(w) /\ ToSet(stack) = {}
      BY <2>1, <2>2, ValuesEmpty DEF Gone
    <3> QED
      BY <3>1 DEF GoneAt
  <2> QED
    BY <2>1, <2>2 DEF RetiredStaysRetired, DestroyedIsForgotten, Idle
<1> QED
  BY HistoryInit, <1>1, <1>2, PTL DEF Spec
=============================================================================
