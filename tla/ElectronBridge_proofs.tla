------------------------ MODULE ElectronBridge_proofs ------------------------
(***************************************************************************)
(* Theorems about ElectronBridge.tla, for every number of namespaces,      *)
(* windows, documents, servers and requests, every depth and every set of  *)
(* calls made by those who hear of a retirement.                           *)
(***************************************************************************)
EXTENDS ElectronBridge, SequenceLemmas

Points == {"attaching", "entering", "disposing", "releasing", "closing", "retiring"}
LeavingPoints == {"disposing", "releasing"}
Busy == {"working", "open"}

BindingSet == [namespace : Namespaces, server : Servers, disposed : BOOLEAN,
               attached : [Contents -> Int], overwritten : SUBSET Int]
AttachmentSet == [binding : Nat, contents : Contents, session : Documents \cup {NoSession}]
RequestSet == [from : Documents, namespace : Namespaces, kind : Kinds,
               at : {"sent", "done"} \cup Busy, by : Nat, answers : Nat]
FrameSet == [at : Points, of : Nat, w : Contents \cup {None}]

Typed ==
  /\ shown \in [Contents -> 0 .. NumDocuments]
  /\ bindings \in Seq(BindingSet)
  /\ attachments \in Seq(AttachmentSet)
  /\ receivers \in [Namespaces -> [Channels -> SUBSET (1 .. Len(bindings))]]
  /\ takeovers \in [Namespaces -> 0 .. Len(bindings)]
  /\ \A b \in 1 .. Len(bindings) :
       bindings[b].attached \in [Contents -> Nothing .. Len(attachments)]
  /\ ended \subseteq Servers
  /\ \A a \in 1 .. Len(attachments) :
       /\ attachments[a].binding \in 1 .. Len(bindings)
       /\ HasSession(a) => attachments[a].session[1] = attachments[a].contents
  /\ entries \in [Servers -> [Contents -> 0 .. Len(attachments)]]
  /\ retired \in [Servers -> SUBSET Documents]
  /\ requests \in Seq(RequestSet)
  /\ \A i \in 1 .. Len(requests) : requests[i].by \in 0 .. Len(bindings)

-----------------------------------------------------------------------------
(* The invariant.  What it says of the calls in progress has the stack as a parameter. *)

\* The binding is being disposed, and has not given its namespace away yet.
Leaves(q, b) == \E f \in ToSet(q) : f.at \in LeavingPoints /\ f.of = b
\* Its attachments are being detached.
Disposes(q, b) == \E f \in ToSet(q) : f.at = "disposing" /\ f.of = b
\* The entries of the server are being detached.
Closes(q, s) == \E f \in ToSet(q) : f.at = "closing" /\ f.of = s

\* No binding is disposed twice at a time.
Apart(q) ==
  \A i, j \in 1 .. Len(q) :
    i # j /\ q[i].at \in LeavingPoints /\ q[j].at \in LeavingPoints => q[i].of # q[j].of
Alone(q, f) == f.at \in LeavingPoints => ~Leaves(q, f.of)

FrameTyped(f) ==
  /\ f.at \in LeavingPoints \cup {"attaching", "entering"} => f.of \in 1 .. Len(bindings)
  /\ f.at \in {"attaching", "entering"} => f.w \in Contents
  /\ f.at \in {"closing", "retiring"} => f.of \in Servers

Framed(q) == q \in Seq(FrameSet) /\ Apart(q) /\ \A f \in ToSet(q) : FrameTyped(f)

\* No younger binding has the namespace.
IsNewest(b) ==
  \A other \in 1 .. Len(bindings) : bindings[other].namespace = bindings[b].namespace => other <= b

\* The newest binding of a namespace has its channels.  When it is disposed it may be
\* taken over, or its disposal is in progress; all others were taken over.
Owners(q) ==
  /\ \A n \in Namespaces :
       /\ \A c \in Channels : receivers[n][c] = Newest(BoundTo(n))
       /\ BoundTo(n) # {} => Newest(BoundTo(n)) # {}
       /\ takeovers[n] # None =>
            /\ bindings[takeovers[n]].namespace = n /\ IsNewest(takeovers[n])
            /\ bindings[takeovers[n]].disposed /\ ~Leaves(q, takeovers[n])
  /\ \A b \in 1 .. Len(bindings) :
       /\ Leaves(q, b) => IsNewest(b) /\ bindings[b].disposed
       /\ ~bindings[b].disposed => IsNewest(b)
       /\ bindings[b].disposed /\ IsNewest(b) =>
            takeovers[bindings[b].namespace] = b \/ Leaves(q, b)

\* The binding can still detach what it attaches, or its server is disposed.
Watched(q, b) ==
  bindings[b].server \in ended \/ ~bindings[b].disposed \/ Disposes(q, b)

\* The map of its binding holds the detach function of an attachment, or lost it to an
\* attach() that was overtaken.
Kept(a) ==
  \/ bindings[attachments[a].binding].attached[attachments[a].contents] = a
  \/ a \in bindings[attachments[a].binding].overwritten

\* A session is that of an entry, of a server that is not disposed or is being closed; an
\* entry is kept by its binding, which can still detach it.
Entered(q) ==
  /\ \A s \in Servers, w \in Contents :
       entries[s][w] # None =>
         ServerOf(entries[s][w]) = s /\ attachments[entries[s][w]].contents = w
  /\ \A a \in 1 .. Len(attachments) :
       /\ HasSession(a) => IsEntry(a)
       /\ HasSession(a) /\ ServerOf(a) \in ended => Closes(q, ServerOf(a))
       /\ IsEntry(a) =>
            /\ \/ ServerOf(a) \in ended
               \/ Kept(a)
            /\ Watched(q, attachments[a].binding)
  /\ \A f \in ToSet(q) : f.at \in {"attaching", "entering"} => Watched(q, f.of)

\* What a session works on belongs to it.
Held ==
  \A i \in 1 .. Len(requests) :
    requests[i].at \in Busy =>
      /\ requests[i].by # None
      /\ \E a \in 1 .. Len(attachments) :
           /\ attachments[a].session = requests[i].from
           /\ ServerOf(a) = bindings[requests[i].by].server

\* A document calls and subscribes in a namespace that has a receiver.
Asked ==
  \A i \in 1 .. Len(requests) :
    /\ requests[i].kind # "handshake" => BoundTo(requests[i].namespace) # {}
    /\ requests[i].by # None => requests[i].by \in BoundTo(requests[i].namespace)

Base == Typed /\ Held /\ Asked /\ AnsweredOnce
Shaped(q) == Framed(q) /\ Owners(q) /\ Entered(q)
Inv == Base /\ Shaped(stack)

-----------------------------------------------------------------------------
(* Stacks *)

LEMMA FrameMade ==
  ASSUME NEW at \in Points, NEW of \in Nat, NEW w \in Contents \cup {None}
  PROVE  /\ Frame(at, of, w) \in FrameSet
         /\ Frame(at, of, w).at = at /\ Frame(at, of, w).of = of /\ Frame(at, of, w).w = w
BY DEF Frame, FrameSet

\* What a new frame makes of a stack.
LEMMA FramePushed ==
  ASSUME NEW q \in Seq(FrameSet), NEW f \in FrameSet, NEW r, Pushed(q, r, f)
  PROVE  /\ r \in Seq(FrameSet) /\ ToSet(r) = ToSet(q) \cup {f}
         /\ Apart(q) /\ Alone(q, f) => Apart(r)
         /\ \A b : /\ Leaves(r, b) <=> Leaves(q, b) \/ (f.at \in LeavingPoints /\ f.of = b)
                   /\ Disposes(r, b) <=> Disposes(q, b) \/ (f.at = "disposing" /\ f.of = b)
                   /\ Closes(r, b) <=> Closes(q, b) \/ (f.at = "closing" /\ f.of = b)
<1>1. r = Append(q, f)
  BY DEF Pushed
<1>2. r \in Seq(FrameSet) /\ ToSet(r) = ToSet(q) \cup {f}
  BY ValuesAppended
<1>3. ASSUME Apart(q), Alone(q, f)
      PROVE  Apart(r)
  <2>1. /\ Len(r) = Len(q) + 1 /\ Len(q) \in Nat
        /\ \A i \in 1 .. Len(q) : r[i] = q[i]
        /\ r[Len(q) + 1] = f
    BY <1>1, Appended
  <2>2. \A i \in 1 .. Len(r) : i \in 1 .. Len(q) \/ i = Len(q) + 1
    BY <2>1
  <2>3. \A i \in 1 .. Len(q) : q[i] \in ToSet(q)
    BY Values
  <2>4. f.at \in LeavingPoints =>
          \A i \in 1 .. Len(q) : q[i].at \in LeavingPoints => q[i].of # f.of
    BY <1>3, <2>3 DEF Alone, Leaves
  <2> QED
    BY <1>3, <2>1, <2>2, <2>4 DEF Apart
<1>4. \A b : Leaves(r, b) <=> Leaves(q, b) \/ (f.at \in LeavingPoints /\ f.of = b)
  BY <1>2 DEF Leaves
<1>5. \A b : Disposes(r, b) <=> Disposes(q, b) \/ (f.at = "disposing" /\ f.of = b)
  BY <1>2 DEF Disposes
<1>6. \A b : Closes(r, b) <=> Closes(q, b) \/ (f.at = "closing" /\ f.of = b)
  BY <1>2 DEF Closes
<1> QED
  BY <1>2, <1>3, <1>4, <1>5, <1>6

\* What is under the innermost call.
LEMMA FramePopped ==
  ASSUME NEW q \in Seq(FrameSet), NEW r, NEW f, Popped(q, r, f)
  PROVE  /\ f \in FrameSet /\ f \in ToSet(q)
         /\ r \in Seq(FrameSet) /\ ToSet(q) = ToSet(r) \cup {f}
         /\ Apart(q) => Apart(r) /\ Alone(r, f)
         /\ \A b : /\ Leaves(q, b) <=> Leaves(r, b) \/ (f.at \in LeavingPoints /\ f.of = b)
                   /\ Disposes(q, b) <=> Disposes(r, b) \/ (f.at = "disposing" /\ f.of = b)
                   /\ Closes(q, b) <=> Closes(r, b) \/ (f.at = "closing" /\ f.of = b)
<1>1. q # <<>> /\ r = SubSeq(q, 1, Len(q) - 1) /\ f = q[Len(q)]
  BY DEF Popped
<1>2. r \in Seq(FrameSet) /\ ToSet(q) = ToSet(r) \cup {f} /\ f \in ToSet(q)
  BY ValuesPopped
<1>3. f \in FrameSet
  BY <1>1, StackParts
<1>4. /\ Len(q) \in Nat \ {0} /\ Len(r) = Len(q) - 1
      /\ \A i \in 1 .. Len(r) : r[i] = q[i]
  BY <1>1, StackParts
<1>5. (\A i \in 1 .. Len(r) : i \in 1 .. Len(q) /\ i # Len(q)) /\ Len(q) \in 1 .. Len(q)
  BY <1>4
<1>6. ASSUME Apart(q)
      PROVE  Apart(r) /\ Alone(r, f)
  <2>1. Apart(r)
    BY <1>4, <1>5, <1>6 DEF Apart
  <2>2. \A g \in ToSet(r) : \E i \in 1 .. Len(r) : r[i] = g
    BY <1>2, Values
  <2>3. \A i \in 1 .. Len(r) :
          f.at \in LeavingPoints /\ r[i].at \in LeavingPoints => r[i].of # f.of
    BY <1>1, <1>4, <1>5, <1>6 DEF Apart
  <2>4. Alone(r, f)
    BY <2>2, <2>3 DEF Alone, Leaves
  <2> QED
    BY <2>1, <2>4
<1>7. \A b : Leaves(q, b) <=> Leaves(r, b) \/ (f.at \in LeavingPoints /\ f.of = b)
  BY <1>2 DEF Leaves
<1>8. \A b : Disposes(q, b) <=> Disposes(r, b) \/ (f.at = "disposing" /\ f.of = b)
  BY <1>2 DEF Disposes
<1>9. \A b : Closes(q, b) <=> Closes(r, b) \/ (f.at = "closing" /\ f.of = b)
  BY <1>2 DEF Closes
<1> QED
  BY <1>2, <1>3, <1>6, <1>7, <1>8, <1>9

\* A call begins that is not the disposal of a binding.
LEMMA ShapedPushed ==
  ASSUME NEW q, Shaped(q), NEW f \in FrameSet, FrameTyped(f), f.at \notin LeavingPoints,
         f.at \in {"attaching", "entering"} => Watched(q, f.of),
         NEW r, Pushed(q, r, f)
  PROVE  Shaped(r)
<1>0. q \in Seq(FrameSet) /\ Apart(q) /\ \A g \in ToSet(q) : FrameTyped(g)
  BY DEF Shaped, Framed
<1>1. /\ r \in Seq(FrameSet) /\ ToSet(r) = ToSet(q) \cup {f}
      /\ Apart(q) /\ Alone(q, f) => Apart(r)
      /\ \A b : /\ Leaves(r, b) <=> Leaves(q, b) \/ (f.at \in LeavingPoints /\ f.of = b)
                /\ Disposes(r, b) <=> Disposes(q, b) \/ (f.at = "disposing" /\ f.of = b)
                /\ Closes(r, b) <=> Closes(q, b) \/ (f.at = "closing" /\ f.of = b)
  BY <1>0, FramePushed
<1>2. f.at # "disposing"
  BY DEF LeavingPoints
<1>3. Framed(r)
  BY <1>0, <1>1 DEF Framed, Alone
<1>4. /\ \A b : Leaves(r, b) <=> Leaves(q, b)
      /\ \A b : Disposes(r, b) <=> Disposes(q, b)
      /\ \A s : Closes(q, s) => Closes(r, s)
  BY <1>1, <1>2
<1>5. Owners(r)
  BY <1>4 DEF Shaped, Owners
<1>6. Entered(r)
  <2>1. \A b : Watched(q, b) => Watched(r, b)
    BY <1>4 DEF Watched
  <2> QED
    BY <1>1, <1>4, <2>1 DEF Shaped, Entered
<1> QED
  BY <1>3, <1>5, <1>6 DEF Shaped

\* A call ends that is neither the disposal of a binding nor of a server.
LEMMA ShapedPopped ==
  ASSUME NEW q, Shaped(q), NEW r, NEW f, Popped(q, r, f),
         f.at \in {"attaching", "entering", "retiring"}
  PROVE  /\ Shaped(r) /\ f \in FrameSet /\ FrameTyped(f)
         /\ f.at # "retiring" => Watched(r, f.of)
<1>0. q \in Seq(FrameSet) /\ Apart(q) /\ \A g \in ToSet(q) : FrameTyped(g)
  BY DEF Shaped, Framed
<1>1. /\ f \in FrameSet /\ f \in ToSet(q)
      /\ r \in Seq(FrameSet) /\ ToSet(q) = ToSet(r) \cup {f}
      /\ Apart(q) => Apart(r) /\ Alone(r, f)
      /\ \A b : /\ Leaves(q, b) <=> Leaves(r, b) \/ (f.at \in LeavingPoints /\ f.of = b)
                /\ Disposes(q, b) <=> Disposes(r, b) \/ (f.at = "disposing" /\ f.of = b)
                /\ Closes(q, b) <=> Closes(r, b) \/ (f.at = "closing" /\ f.of = b)
  BY <1>0, FramePopped
<1>2. f.at \notin LeavingPoints /\ f.at # "disposing" /\ f.at # "closing"
  BY DEF LeavingPoints
<1>3. Framed(r)
  BY <1>0, <1>1 DEF Framed
<1>4. /\ \A b : Leaves(r, b) <=> Leaves(q, b)
      /\ \A b : Disposes(r, b) <=> Disposes(q, b)
      /\ \A s : Closes(q, s) <=> Closes(r, s)
  BY <1>1, <1>2
<1>5. Owners(r)
  BY <1>4 DEF Shaped, Owners
<1>6. \A b : Watched(q, b) => Watched(r, b)
  BY <1>4 DEF Watched
<1>7. Entered(r)
  BY <1>1, <1>4, <1>6 DEF Shaped, Entered
<1>8. f.at # "retiring" => Watched(r, f.of)
  BY <1>1, <1>6 DEF Shaped, Entered
<1> QED
  BY <1>0, <1>1, <1>3, <1>5, <1>7, <1>8 DEF Shaped

-----------------------------------------------------------------------------
(* What the steps keep *)

SameBindings ==
  /\ bindings' \in Seq(BindingSet) /\ Len(bindings') = Len(bindings)
  /\ \A b \in 1 .. Len(bindings) :
       /\ bindings'[b].namespace = bindings[b].namespace
       /\ bindings'[b].server = bindings[b].server
       /\ bindings'[b].disposed = bindings[b].disposed

SameAttachments ==
  /\ attachments' \in Seq(AttachmentSet) /\ Len(attachments') = Len(attachments)
  /\ \A a \in 1 .. Len(attachments) :
       /\ attachments'[a].binding = attachments[a].binding
       /\ attachments'[a].contents = attachments[a].contents

\* Requests are only ended.
SameRequest(r, next) ==
  /\ next.from = r.from /\ next.namespace = r.namespace /\ next.kind = r.kind
  /\ next.by = r.by
  /\ \/ next.at = r.at /\ next.answers = r.answers
     \/ r.at \in Busy /\ next.at = "done" /\ next.answers = r.answers + AnswersOnEnd(r)
SameRequests ==
  /\ requests' \in Seq(RequestSet) /\ Len(requests') = Len(requests)
  /\ \A i \in 1 .. Len(requests) : SameRequest(requests[i], requests'[i])

\* Sequences are functions on an interval.
LEMMA Domains ==
  ASSUME Typed
  PROVE  /\ DOMAIN bindings = 1 .. Len(bindings) /\ Len(bindings) \in Nat
         /\ DOMAIN attachments = 1 .. Len(attachments) /\ Len(attachments) \in Nat
         /\ DOMAIN requests = 1 .. Len(requests) /\ Len(requests) \in Nat
         /\ \A b \in 1 .. Len(bindings) : bindings[b] \in BindingSet
         /\ \A a \in 1 .. Len(attachments) : attachments[a] \in AttachmentSet
         /\ \A i \in 1 .. Len(requests) : requests[i] \in RequestSet
<1>1. /\ bindings \in Seq(BindingSet) /\ attachments \in Seq(AttachmentSet)
      /\ requests \in Seq(RequestSet)
  BY DEF Typed
<1>2. \A S : \A q \in Seq(S) :
        DOMAIN q = 1 .. Len(q) /\ Len(q) \in Nat /\ \A i \in 1 .. Len(q) : q[i] \in S
  OBVIOUS
<1> QED
  BY <1>1, <1>2

\* The invariant of the stack does not change with it.
LEMMA ShapedNext ==
  ASSUME NEW q, q = stack', Shaped(q)'
  PROVE  Shaped(stack)'
BY DEF Shaped, Framed, Apart, Owners, Entered, Leaves, Watched, Disposes, Closes

LEMMA FramedKept ==
  ASSUME NEW q, Framed(q), Len(bindings') = Len(bindings)
  PROVE  Framed(q)'
BY DEF Framed, Apart, FrameTyped

LEMMA BoundKept ==
  ASSUME Typed, SameBindings
  PROVE  /\ \A n : BoundTo(n)' = BoundTo(n)
         /\ \A b \in 1 .. Len(bindings) : IsNewest(b)' <=> IsNewest(b)
<1>1. DOMAIN bindings' = 1 .. Len(bindings) /\ DOMAIN bindings = 1 .. Len(bindings)
  BY Domains DEF SameBindings
<1> QED
  BY <1>1 DEF SameBindings, BoundTo, IsNewest

LEMMA OwnersKept ==
  ASSUME NEW q, Typed, Owners(q), SameBindings, UNCHANGED <<receivers, takeovers>>
  PROVE  Owners(q)'
<1>1. /\ \A n : BoundTo(n)' = BoundTo(n)
      /\ \A b \in 1 .. Len(bindings) : IsNewest(b)' <=> IsNewest(b)
  BY BoundKept
<1>2. \A n \in Namespaces : takeovers[n] # None => takeovers[n] \in 1 .. Len(bindings)
  BY Domains DEF Typed, None
<1>3. ASSUME NEW n \in Namespaces
      PROVE  /\ \A c \in Channels : receivers'[n][c] = Newest(BoundTo(n)')
             /\ BoundTo(n)' # {} => Newest(BoundTo(n)') # {}
             /\ takeovers'[n] # None =>
                  /\ bindings'[takeovers'[n]].namespace = n /\ IsNewest(takeovers[n])'
                  /\ bindings'[takeovers'[n]].disposed /\ ~Leaves(q, takeovers'[n])
  BY <1>1, <1>2 DEF Owners, SameBindings
<1>4. ASSUME NEW b \in 1 .. Len(bindings)
      PROVE  /\ Leaves(q, b) => IsNewest(b)' /\ bindings'[b].disposed
             /\ ~bindings'[b].disposed => IsNewest(b)'
             /\ bindings'[b].disposed /\ IsNewest(b)' =>
                  takeovers'[bindings'[b].namespace] = b \/ Leaves(q, b)
  BY <1>1, <1>4 DEF Owners, SameBindings
<1>5. Len(bindings') = Len(bindings)
  BY DEF SameBindings
<1> QED
  BY <1>3, <1>4, <1>5 DEF Owners, Newest, Leaves

\* Sessions end, entries go, and what remains is kept by its binding.
LEMMA EnteredLess ==
  ASSUME NEW q, Typed, Framed(q), Entered(q), SameBindings, SameAttachments,
         UNCHANGED ended,
         \A s \in Servers, w \in Contents : entries'[s][w] \in {entries[s][w], None},
         \A a \in 1 .. Len(attachments) :
           attachments'[a].session # NoSession => HasSession(a) /\ (IsEntry(a) => IsEntry(a)'),
         \A a \in 1 .. Len(attachments) :
           IsEntry(a)' =>
             \/ ServerOf(a) \in ended
             \/ (Kept(a) => Kept(a)')
  PROVE  Entered(q)'
<1>1. /\ DOMAIN attachments = 1 .. Len(attachments) /\ DOMAIN attachments' = 1 .. Len(attachments)
      /\ \A a \in 1 .. Len(attachments) :
           /\ attachments[a].contents \in Contents
           /\ attachments[a].binding \in 1 .. Len(bindings)
           /\ ServerOf(a) \in Servers
  <2>1. DOMAIN attachments' = 1 .. Len(attachments)
    BY DEF SameAttachments
  <2>2. \A a \in 1 .. Len(attachments) :
          attachments[a].contents \in Contents /\ attachments[a].binding \in 1 .. Len(bindings)
    BY Domains DEF Typed, AttachmentSet
  <2> QED
    BY <2>1, <2>2, Domains DEF ServerOf, BindingSet
<1>2. \A a \in 1 .. Len(attachments) : ServerOf(a)' = ServerOf(a)
  BY <1>1 DEF SameAttachments, SameBindings, ServerOf
<1>3. \A a \in 1 .. Len(attachments) : IsEntry(a)' => IsEntry(a)
  <2> SUFFICES ASSUME NEW a \in 1 .. Len(attachments), IsEntry(a)'
               PROVE  IsEntry(a)
    OBVIOUS
  <2>1. entries'[ServerOf(a)][attachments[a].contents] = a
    BY <1>2 DEF IsEntry, SameAttachments
  <2>2. a # None
    BY Domains DEF None
  <2> QED
    BY <1>1, <2>1, <2>2 DEF IsEntry
<1>4. \A b \in 1 .. Len(bindings) : Watched(q, b)' <=> Watched(q, b)
  BY DEF Watched, SameBindings, Disposes
<1>5. ASSUME NEW s \in Servers, NEW w \in Contents, entries'[s][w] # None
      PROVE  /\ bindings'[attachments'[entries'[s][w]].binding].server = s
             /\ attachments'[entries'[s][w]].contents = w
  <2>1. entries'[s][w] = entries[s][w] /\ entries[s][w] # None
    BY <1>5
  <2>2. entries[s][w] \in 1 .. Len(attachments)
    <3>1. entries[s][w] \in 0 .. Len(attachments)
      BY DEF Typed
    <3> QED
      BY <2>1, <3>1 DEF None
  <2>3. ServerOf(entries[s][w]) = s /\ attachments[entries[s][w]].contents = w
    BY <2>1 DEF Entered
  <2>4. PICK a \in 1 .. Len(attachments) : a = entries[s][w] /\ a = entries'[s][w]
    BY <2>1, <2>2
  <2>5. ServerOf(a)' = s /\ attachments'[a].contents = w
    BY <1>2, <2>3, <2>4 DEF SameAttachments
  <2> QED
    BY <2>4, <2>5 DEF ServerOf
<1>6. ASSUME NEW a \in 1 .. Len(attachments)
      PROVE  /\ HasSession(a)' => IsEntry(a)'
             /\ HasSession(a)' /\ ServerOf(a)' \in ended => Closes(q, ServerOf(a)')
             /\ IsEntry(a)' =>
                  /\ \/ ServerOf(a)' \in ended
                     \/ Kept(a)'
                  /\ Watched(q, attachments[a].binding)'
  <2>1. HasSession(a)' => HasSession(a) /\ IsEntry(a)'
    BY DEF Entered, HasSession
  <2>2. attachments'[a].binding = attachments[a].binding
          /\ attachments'[a].contents = attachments[a].contents
    BY DEF SameAttachments
  <2>3. HasSession(a)' /\ ServerOf(a)' \in ended => Closes(q, ServerOf(a)')
    BY <1>2, <2>1 DEF Entered
  <2>4. IsEntry(a)' => ServerOf(a)' \in ended \/ Kept(a)'
    BY <1>2, <1>3 DEF Entered
  <2>5. PICK b \in 1 .. Len(bindings) : b = attachments[a].binding /\ b = attachments'[a].binding
    BY <1>1, <2>2
  <2>6. IsEntry(a) => Watched(q, b)
    BY <2>5 DEF Entered
  <2>7. IsEntry(a)' => Watched(q, b)'
    BY <1>3, <1>4, <2>6
  <2>8. IsEntry(a)' => Watched(q, attachments[a].binding)'
    BY <2>5, <2>7 DEF Watched, Disposes
  <2> QED
    BY <2>1, <2>2, <2>3, <2>4, <2>8
<1>7. ASSUME NEW f \in ToSet(q), f.at \in {"attaching", "entering"}
      PROVE  Watched(q, f.of)'
  BY <1>4, <1>7 DEF Entered, Framed, FrameTyped
<1>8. Len(attachments') = Len(attachments) /\ ended' = ended
  BY DEF SameAttachments
<1> QED
  BY <1>5, <1>6, <1>7, <1>8 DEF Entered, Closes, ServerOf

\* Bindings may be added, disposed and emptied, servers closed.
LEMMA EnteredMoved ==
  ASSUME NEW p, NEW q, Typed, Framed(p), Entered(p),
         UNCHANGED <<attachments, entries>>,
         \A b \in 1 .. Len(bindings) : bindings'[b].server = bindings[b].server,
         \A b \in 1 .. Len(bindings) : Watched(p, b) => Watched(q, b)',
         \A f \in ToSet(q) : f.at \in {"attaching", "entering"} => f \in ToSet(p),
         \A s \in ended' : s \in ended /\ Closes(p, s) => Closes(q, s),
         \A s \in ended' : s \in ended \/ Closes(q, s),
         \A a \in 1 .. Len(attachments) :
           \/ ServerOf(a) \in ended'
           \/ /\ ServerOf(a) \notin ended
              /\ (Kept(a) => Kept(a)')
  PROVE  Entered(q)'
<1>1. /\ \A a \in 1 .. Len(attachments) :
           /\ attachments[a].binding \in 1 .. Len(bindings)
           /\ ServerOf(a)' = ServerOf(a) /\ (HasSession(a)' <=> HasSession(a))
           /\ IsEntry(a)' <=> IsEntry(a)
      /\ attachments' = attachments /\ entries' = entries
  BY Domains DEF ServerOf, HasSession, IsEntry, Typed
<1>2. ASSUME NEW a \in 1 .. Len(attachments)
      PROVE  /\ HasSession(a)' => IsEntry(a)'
             /\ HasSession(a)' /\ ServerOf(a)' \in ended' => Closes(q, ServerOf(a)')
             /\ IsEntry(a)' =>
                  /\ \/ ServerOf(a)' \in ended'
                     \/ Kept(a)'
                  /\ Watched(q, attachments[a].binding)'
  <2>1. HasSession(a) /\ ServerOf(a) \in ended' => Closes(q, ServerOf(a))
    BY DEF Entered
  <2>2. PICK b \in 1 .. Len(bindings) : b = attachments[a].binding /\ b = attachments'[a].binding
    BY <1>1
  <2>3. IsEntry(a) => Watched(q, b)'
    BY <2>2 DEF Entered
  <2>4. IsEntry(a) => Watched(q, attachments[a].binding)'
    BY <2>2, <2>3 DEF Watched, Disposes
  <2>5. IsEntry(a) =>
          \/ ServerOf(a) \in ended'
          \/ Kept(a)'
    BY DEF Entered
  <2> QED
    BY <1>1, <2>1, <2>4, <2>5 DEF Entered
<1>3. \A f \in ToSet(q) : f.at \in {"attaching", "entering"} => Watched(q, f.of)'
  <2> SUFFICES ASSUME NEW f \in ToSet(q), f.at \in {"attaching", "entering"}
               PROVE  Watched(q, f.of)'
    OBVIOUS
  <2>1. f \in ToSet(p)
    OBVIOUS
  <2>2. f.of \in 1 .. Len(bindings) /\ Watched(p, f.of)
    BY <2>1 DEF Framed, FrameTyped, Entered
  <2> QED
    BY <2>2
<1>4. \A s \in Servers, w \in Contents :
        entries'[s][w] # None =>
          /\ bindings'[attachments'[entries'[s][w]].binding].server = s
          /\ attachments'[entries'[s][w]].contents = w
  <2> SUFFICES ASSUME NEW s \in Servers, NEW w \in Contents, entries[s][w] # None
               PROVE  /\ bindings'[attachments[entries[s][w]].binding].server = s
                      /\ attachments[entries[s][w]].contents = w
    BY <1>1
  <2>1. PICK a \in 1 .. Len(attachments) : a = entries[s][w]
    BY Domains DEF Typed, None
  <2>2. ServerOf(a) = s /\ attachments[a].contents = w
    BY <2>1 DEF Entered
  <2> QED
    BY <1>1, <2>1, <2>2 DEF ServerOf
<1> QED
  BY <1>1, <1>2, <1>3, <1>4 DEF Entered, ServerOf, Closes

\* Work goes on as long as its session does.
LEMMA HeldKept ==
  ASSUME Typed, Held, UNCHANGED <<attachments, requests>>,
         \A b \in 1 .. Len(bindings) : bindings'[b].server = bindings[b].server
  PROVE  Held'
<1>1. ASSUME NEW i \in 1 .. Len(requests), requests[i].at \in Busy
      PROVE  /\ requests[i].by # None
             /\ \E a \in 1 .. Len(attachments) :
                  /\ attachments[a].session = requests[i].from
                  /\ ServerOf(a)' = bindings'[requests[i].by].server
  <2>1. requests[i].by # None /\ requests[i].by \in 1 .. Len(bindings)
    BY <1>1, Domains DEF Held, Typed, None
  <2>2. PICK a \in 1 .. Len(attachments) :
          /\ attachments[a].session = requests[i].from
          /\ ServerOf(a) = bindings[requests[i].by].server
    BY <1>1 DEF Held
  <2>3. attachments[a].binding \in 1 .. Len(bindings)
    BY DEF Typed
  <2> QED
    BY <2>1, <2>2, <2>3 DEF ServerOf
<1> QED
  BY <1>1 DEF Held

\* Requests that are only ended are answered once.
LEMMA RequestsKept ==
  ASSUME Typed, Asked, AnsweredOnce, SameBindings, SameRequests
  PROVE  /\ Asked' /\ AnsweredOnce'
         /\ \A i \in 1 .. Len(requests') : requests'[i].by \in 0 .. Len(bindings')
<1>1. /\ DOMAIN requests = 1 .. Len(requests) /\ DOMAIN requests' = 1 .. Len(requests)
      /\ Len(requests') = Len(requests)
  BY Domains DEF SameRequests
<1>2. \A n : BoundTo(n)' = BoundTo(n)
  BY BoundKept
<1>3. Asked'
  BY <1>1, <1>2 DEF Asked, SameRequests, SameRequest
<1>4. ASSUME NEW i \in 1 .. Len(requests)
      PROVE  requests'[i].answers = IF requests'[i].at \in {"sent", "working"} THEN 0 ELSE 1
  <2>1. requests[i].answers = IF requests[i].at \in {"sent", "working"} THEN 0 ELSE 1
    BY <1>1 DEF AnsweredOnce
  <2>2. \/ requests'[i].at = requests[i].at /\ requests'[i].answers = requests[i].answers
        \/ /\ requests[i].at \in Busy /\ requests'[i].at = "done"
           /\ requests'[i].answers = requests[i].answers + AnswersOnEnd(requests[i])
    BY DEF SameRequests, SameRequest
  <2> QED
    BY <2>1, <2>2 DEF AnswersOnEnd, Busy
<1>5. AnsweredOnce'
  BY <1>1, <1>4 DEF AnsweredOnce
<1>6. \A i \in 1 .. Len(requests) : requests'[i].by \in 0 .. Len(bindings')
  BY DEF SameRequests, SameRequest, SameBindings, Typed
<1> QED
  BY <1>1, <1>3, <1>5, <1>6

\* A request that ends.
LEMMA EndedRequest ==
  ASSUME NEW r \in RequestSet, r.at \in Busy, NEW next, next = Ended(r)
  PROVE  next \in RequestSet /\ SameRequest(r, next) /\ next.at \notin Busy
<1>1. AnswersOnEnd(r) \in Nat /\ r.answers \in Nat
  BY DEF AnswersOnEnd, RequestSet
<1>2. PICK n \in Nat : n = r.answers + AnswersOnEnd(r)
  BY <1>1
<1>3. next = [r EXCEPT !.at = "done", !.answers = n]
  BY <1>2 DEF Ended
<1>4. /\ next \in RequestSet /\ next.at = "done" /\ next.answers = n
      /\ next.from = r.from /\ next.namespace = r.namespace /\ next.kind = r.kind
      /\ next.by = r.by
  BY <1>3 DEF RequestSet
<1> QED
  BY <1>2, <1>4 DEF SameRequest, Busy

\* The calls of a session that is retired are answered, its streams end.
LEMMA CancelledRequests ==
  ASSUME Typed, NEW s, NEW document, requests' = Cancelled(s, document)
  PROVE  /\ SameRequests
         /\ \A i \in 1 .. Len(requests) :
              requests'[i].at \in Busy =>
                /\ requests[i].at \in Busy
                /\ ~(requests[i].from = document /\ bindings[requests[i].by].server = s)
<1>1. /\ DOMAIN requests = 1 .. Len(requests) /\ Len(requests) \in Nat
      /\ \A i \in 1 .. Len(requests) : requests[i] \in RequestSet
  BY Domains
<1> DEFINE Busy1(i) == /\ requests[i].at \in {"working", "open"}
                       /\ requests[i].from = document /\ bindings[requests[i].by].server = s
<1>2. requests' = [i \in 1 .. Len(requests) |->
                     IF Busy1(i) THEN Ended(requests[i]) ELSE requests[i]]
  BY <1>1 DEF Cancelled
<1>3. \A i \in 1 .. Len(requests) :
        requests'[i] = IF Busy1(i) THEN Ended(requests[i]) ELSE requests[i]
  BY <1>2
<1>4. ASSUME NEW i \in 1 .. Len(requests)
      PROVE  /\ requests'[i] \in RequestSet /\ SameRequest(requests[i], requests'[i])
             /\ requests'[i].at \in Busy => requests[i].at \in Busy /\ ~Busy1(i)
  <2>1. CASE Busy1(i)
    <3>1. requests[i].at \in Busy
      BY <2>1 DEF Busy
    <3>2. requests'[i] = Ended(requests[i])
      BY <1>3, <2>1
    <3> HIDE DEF Busy1
    <3> QED
      BY <1>1, <3>1, <3>2, EndedRequest
  <2>2. CASE ~Busy1(i)
    <3>1. requests'[i] = requests[i]
      BY <1>3, <2>2
    <3> QED
      BY <1>1, <2>2, <3>1 DEF SameRequest
  <2> QED
    BY <2>1, <2>2
<1>5. requests' \in Seq(RequestSet) /\ Len(requests') = Len(requests)
  BY <1>1, <1>2, <1>4
<1> QED
  BY <1>4, <1>5 DEF SameRequests, Busy

-----------------------------------------------------------------------------
(* Leaving *)

Told(below) ==
  \/ stack' = below
  \/ \E f \in FrameSet : f.at = "retiring" /\ FrameTyped(f) /\ Pushed(below, stack', f)

\* A session that is retired takes its work with it.
LEMMA RetireParts ==
  ASSUME Typed, NEW a \in 1 .. Len(attachments), NEW below \in Seq(FrameSet),
         Retire(a, below)
  PROVE  /\ SameAttachments /\ SameRequests /\ Told(below)
         /\ \A c \in 1 .. Len(attachments) :
              attachments'[c].session = IF c = a THEN NoSession ELSE attachments[c].session
         /\ retired' \in [Servers -> SUBSET Documents]
         /\ \A i \in 1 .. Len(requests) :
              requests'[i].at \in Busy =>
                /\ requests[i].at \in Busy
                /\ HasSession(a) => ~(/\ requests[i].from = attachments[a].session
                                      /\ bindings[requests[i].by].server = ServerOf(a))
<1>1. /\ \A c \in 1 .. Len(attachments) : attachments[c] \in AttachmentSet
      /\ \A i \in 1 .. Len(requests) : requests[i] \in RequestSet
      /\ \A b \in 1 .. Len(bindings) : bindings[b] \in BindingSet
      /\ DOMAIN attachments = 1 .. Len(attachments) /\ Len(attachments) \in Nat
  BY Domains
<1>2. /\ attachments[a].binding \in 1 .. Len(bindings) /\ attachments[a].contents \in Contents
      /\ retired \in [Servers -> SUBSET Documents]
      /\ attachments \in Seq(AttachmentSet) /\ requests \in Seq(RequestSet)
  BY <1>1 DEF Typed, AttachmentSet
<1>3. PICK s \in Servers : s = ServerOf(a)
  BY <1>1, <1>2 DEF ServerOf, BindingSet
<1>4. CASE ~HasSession(a)
  <2>1. attachments[a].session = NoSession
    BY <1>4 DEF HasSession
  <2>2. stack' = below /\ attachments' = attachments /\ retired' = retired /\ requests' = requests
    BY <2>1 DEF Retire
  <2>3. SameAttachments /\ SameRequests
    BY <1>2, <2>2 DEF SameAttachments, SameRequests, SameRequest
  <2> QED
    BY <1>2, <1>4, <2>1, <2>2, <2>3 DEF Told
<1>5. CASE HasSession(a)
  <2>1. PICK document : document = attachments[a].session
    OBVIOUS
  <2>2. document # NoSession /\ document \in Documents
    BY <1>1, <1>5, <2>1 DEF HasSession, AttachmentSet
  <2>3. /\ attachments' = [attachments EXCEPT ![a].session = NoSession]
        /\ retired' = [retired EXCEPT ![s] = @ \cup {document}]
        /\ requests' = Cancelled(s, document)
        /\ stack' = Append(below, Frame("retiring", s, attachments[a].contents))
    BY <1>3, <2>1, <2>2 DEF Retire
  <2>4. PICK next : next = [attachments[a] EXCEPT !.session = NoSession]
    OBVIOUS
  <2>5. /\ next \in AttachmentSet /\ next.session = NoSession
        /\ next.binding = attachments[a].binding /\ next.contents = attachments[a].contents
    BY <1>1, <2>4 DEF AttachmentSet
  <2>6. attachments' = [attachments EXCEPT ![a] = next]
    BY <2>3, <2>4
  <2>7. /\ attachments' \in Seq(AttachmentSet) /\ Len(attachments') = Len(attachments)
        /\ \A c \in 1 .. Len(attachments) :
             attachments'[c] = IF c = a THEN next ELSE attachments[c]
    BY <1>1, <1>2, <2>5, <2>6
  <2>8. SameAttachments
    BY <2>5, <2>7 DEF SameAttachments
  <2>9. /\ SameRequests
        /\ \A i \in 1 .. Len(requests) :
              requests'[i].at \in Busy =>
                /\ requests[i].at \in Busy
                /\ ~(requests[i].from = document /\ bindings[requests[i].by].server = s)
    BY <2>3, CancelledRequests
  <2>10. PICK f : f = Frame("retiring", s, attachments[a].contents)
    OBVIOUS
  <2>11. f \in FrameSet /\ f.at = "retiring" /\ f.of = s
    BY <1>2, <1>3, <2>10, FrameMade DEF Points, Servers
  <2>12. FrameTyped(f)
    BY <2>11 DEF FrameTyped, LeavingPoints
  <2>13. Told(below)
    BY <2>3, <2>10, <2>11, <2>12 DEF Told, Pushed
  <2>14. retired' \in [Servers -> SUBSET Documents]
    BY <1>2, <2>2, <2>3
  <2> QED
    BY <1>3, <2>1, <2>5, <2>7, <2>8, <2>9, <2>13, <2>14
<1> QED
  BY <1>4, <1>5

\* Whoever leaves, an attachment stays that of its binding and its webContents, and is
\* kept as long as the bindings stay as they are.
LEMMA LeaveSame ==
  ASSUME Typed, NEW a \in Nothing .. Len(attachments), NEW below \in Seq(FrameSet),
         Leave(a, below)
  PROVE  /\ SameAttachments
         /\ bindings' = bindings => \A c \in 1 .. Len(attachments) : Kept(c)' <=> Kept(c)
<1>1. SameAttachments
  <2>1. CASE ~IsEntry(a)
    BY <2>1 DEF Leave, SameAttachments, Typed
  <2>2. CASE IsEntry(a)
    <3>1. a \in 1 .. Len(attachments)
      BY <2>2, Domains DEF IsEntry
    <3>2. PICK t : t = entries[ServerOf(a)][attachments[a].contents]
      OBVIOUS
    <3>3. t = a /\ Retire(t, below)
      BY <2>2, <3>2 DEF IsEntry, Leave, Detached
    <3> QED
      BY <3>1, <3>3, RetireParts
  <2> QED
    BY <2>1, <2>2
<1> QED
  BY <1>1 DEF SameAttachments, Kept

\* A step in which sessions end, attachments leave, and those who hear of it are called.
LEMMA LessInv ==
  ASSUME Base, NEW below, Shaped(below), Told(below), Held',
         SameBindings, SameAttachments, SameRequests,
         UNCHANGED <<receivers, takeovers, ended>>,
         shown' \in [Contents -> 0 .. NumDocuments],
         retired' \in [Servers -> SUBSET Documents],
         entries' \in [Servers -> [Contents -> 0 .. Len(attachments)]],
         \A b \in 1 .. Len(bindings) :
           bindings'[b].attached \in [Contents -> Nothing .. Len(attachments)],
         \A s \in Servers, w \in Contents : entries'[s][w] \in {entries[s][w], None},
         \A a \in 1 .. Len(attachments) :
           /\ attachments'[a].session \in {attachments[a].session, NoSession}
           /\ attachments'[a].session # NoSession => (IsEntry(a) => IsEntry(a)'),
         \A a \in 1 .. Len(attachments) :
           IsEntry(a)' =>
             \/ ServerOf(a) \in ended
             \/ (Kept(a) => Kept(a)')
  PROVE  Inv'
<1>1. PICK q : q = stack'
  OBVIOUS
<1>2. Shaped(q)
  <2>1. CASE stack' = below
    BY <1>1, <2>1
  <2>2. CASE \E f \in FrameSet : f.at = "retiring" /\ FrameTyped(f) /\ Pushed(below, stack', f)
    <3>1. PICK f \in FrameSet : f.at = "retiring" /\ FrameTyped(f) /\ Pushed(below, q, f)
      BY <1>1, <2>2
    <3>2. f.at \notin LeavingPoints /\ f.at \notin {"attaching", "entering"}
      BY <3>1 DEF LeavingPoints
    <3> QED
      BY <3>1, <3>2, ShapedPushed
  <2> QED
    BY <2>1, <2>2 DEF Told
<1>3. Typed /\ Framed(q) /\ Owners(q) /\ Entered(q)
  BY <1>2 DEF Base, Shaped
<1>4. UNCHANGED ended /\ UNCHANGED <<receivers, takeovers>> /\ Len(bindings') = Len(bindings)
  BY DEF SameBindings
<1>5. Framed(q)'
  BY <1>3, <1>4, FramedKept
<1>6. Owners(q)'
  BY <1>3, <1>4, OwnersKept
<1>7. \A a \in 1 .. Len(attachments) :
        attachments'[a].session # NoSession => HasSession(a) /\ (IsEntry(a) => IsEntry(a)')
  BY DEF HasSession
<1>8. Entered(q)'
  BY <1>3, <1>4, <1>7, EnteredLess
<1>9. Shaped(stack)'
  <2>1. Shaped(q)'
    BY <1>5, <1>6, <1>8 DEF Shaped
  <2> QED
    BY <1>1, <2>1, ShapedNext
<1>10. /\ Asked' /\ AnsweredOnce'
       /\ \A i \in 1 .. Len(requests') : requests'[i].by \in 0 .. Len(bindings')
  BY RequestsKept DEF Base
<1>11. Typed'
  <2>1. /\ receivers' \in [Namespaces -> [Channels -> SUBSET (1 .. Len(bindings'))]]
        /\ takeovers' \in [Namespaces -> 0 .. Len(bindings')] /\ ended' \subseteq Servers
    BY <1>3, <1>4 DEF Typed
  <2>2. Len(attachments') = Len(attachments)
    BY DEF SameAttachments
  <2>3. \A a \in 1 .. Len(attachments) :
          /\ attachments'[a].binding \in 1 .. Len(bindings')
          /\ attachments'[a].session # NoSession =>
               attachments'[a].session[1] = attachments'[a].contents
    BY <1>3, <1>4, <1>7 DEF Typed, SameAttachments
  <2>4. /\ bindings' \in Seq(BindingSet) /\ attachments' \in Seq(AttachmentSet)
        /\ requests' \in Seq(RequestSet)
    BY DEF SameBindings, SameAttachments, SameRequests
  <2> QED
    BY <1>4, <1>10, <2>1, <2>2, <2>3, <2>4 DEF Typed, HasSession
<1> QED
  BY <1>9, <1>10, <1>11 DEF Inv, Base

\* The work of the other sessions goes on.
LEMMA RetireHeld ==
  ASSUME Typed, Held, NEW a \in 1 .. Len(attachments), NEW below \in Seq(FrameSet),
         Retire(a, below), SameBindings
  PROVE  Held'
<1>1. /\ SameAttachments /\ SameRequests
      /\ \A c \in 1 .. Len(attachments) :
           attachments'[c].session = IF c = a THEN NoSession ELSE attachments[c].session
      /\ \A i \in 1 .. Len(requests) :
              requests'[i].at \in Busy =>
                /\ requests[i].at \in Busy
                /\ HasSession(a) => ~(/\ requests[i].from = attachments[a].session
                                      /\ bindings[requests[i].by].server = ServerOf(a))
  BY RetireParts
<1>2. /\ Len(requests') = Len(requests) /\ Len(attachments') = Len(attachments)
      /\ \A c \in 1 .. Len(attachments) : attachments[c].binding \in 1 .. Len(bindings)
  BY <1>1 DEF SameRequests, SameAttachments, Typed
<1>3. \A c \in 1 .. Len(attachments) : ServerOf(c)' = ServerOf(c)
  BY <1>1, <1>2 DEF ServerOf, SameBindings, SameAttachments
<1>4. ASSUME NEW i \in 1 .. Len(requests), requests'[i].at \in Busy
      PROVE  /\ requests'[i].by # None
             /\ \E c \in 1 .. Len(attachments) :
                  /\ attachments'[c].session = requests'[i].from
                  /\ ServerOf(c)' = bindings'[requests'[i].by].server
  <2>1. /\ requests'[i].by = requests[i].by /\ requests'[i].from = requests[i].from
        /\ requests[i].at \in Busy
    BY <1>1, <1>4 DEF SameRequests, SameRequest
  <2>2. requests[i].by # None /\ requests[i].by \in 1 .. Len(bindings)
    BY <2>1, Domains DEF Held, Typed, None
  <2>3. PICK c \in 1 .. Len(attachments) :
          /\ attachments[c].session = requests[i].from
          /\ ServerOf(c) = bindings[requests[i].by].server
    BY <2>1 DEF Held
  <2>4. attachments'[c].session = requests[i].from
    BY <1>1, <1>4, <2>3 DEF HasSession
  <2>5. bindings'[requests'[i].by].server = bindings[requests[i].by].server
    BY <2>1, <2>2 DEF SameBindings
  <2> QED
    BY <1>3, <2>1, <2>2, <2>3, <2>4, <2>5
<1> QED
  BY <1>2, <1>4 DEF Held

\* The detach function of an attachment, whether it is still the entry or not.
LEMMA LeaveInv ==
  ASSUME Base, NEW below, Shaped(below), NEW a \in Nothing .. Len(attachments),
         Leave(a, below), SameBindings, UNCHANGED <<receivers, takeovers, ended>>,
         shown' \in [Contents -> 0 .. NumDocuments],
         \A b \in 1 .. Len(bindings) :
           bindings'[b].attached \in [Contents -> Nothing .. Len(attachments)],
         \A c \in 1 .. Len(attachments) :
           \/ c = a \/ ~IsEntry(c) \/ ServerOf(c) \in ended
           \/ (Kept(c) => Kept(c)')
  PROVE  Inv'
<1>1. /\ Typed /\ Held /\ below \in Seq(FrameSet)
      /\ entries \in [Servers -> [Contents -> 0 .. Len(attachments)]]
      /\ retired \in [Servers -> SUBSET Documents]
      /\ shown' \in [Contents -> 0 .. NumDocuments]
      /\ attachments \in Seq(AttachmentSet) /\ requests \in Seq(RequestSet)
  BY DEF Base, Typed, Shaped, Framed
<1>2. UNCHANGED <<receivers, takeovers, ended>>
  OBVIOUS
<1>3. DOMAIN attachments = 1 .. Len(attachments) /\ Len(attachments) \in Nat
  BY <1>1, Domains
<1>4. \A c \in 1 .. Len(attachments) :
        ServerOf(c) \in Servers /\ attachments[c].contents \in Contents
          /\ attachments[c].binding \in 1 .. Len(bindings)
  BY <1>1, Domains DEF Typed, AttachmentSet, BindingSet, ServerOf
<1>5. CASE ~IsEntry(a)
  <2>1. stack' = below /\ UNCHANGED <<entries, attachments, retired, requests>>
    BY <1>5 DEF Leave
  <2>2. SameAttachments /\ SameRequests /\ Told(below)
    BY <1>1, <2>1 DEF SameAttachments, SameRequests, SameRequest, Told
  <2>3. \A c \in 1 .. Len(attachments) : (IsEntry(c)' <=> IsEntry(c)) /\ ServerOf(c)' = ServerOf(c)
    BY <1>4, <2>1 DEF IsEntry, ServerOf, SameBindings
  <2>4. Held'
    <3>1. /\ UNCHANGED <<attachments, requests>>
          /\ \A b \in 1 .. Len(bindings) : bindings'[b].server = bindings[b].server
      BY <2>1 DEF SameBindings
    <3> QED
      BY <1>1, <3>1, HeldKept
  <2>5. /\ retired' \in [Servers -> SUBSET Documents]
        /\ entries' \in [Servers -> [Contents -> 0 .. Len(attachments)]]
        /\ \A s \in Servers, w \in Contents : entries'[s][w] \in {entries[s][w], None}
        /\ \A c \in 1 .. Len(attachments) :
             /\ attachments'[c].session \in {attachments[c].session, NoSession}
             /\ attachments'[c].session # NoSession => (IsEntry(c) => IsEntry(c)')
    BY <1>1, <2>1, <2>3
  <2>6. \A c \in 1 .. Len(attachments) :
          IsEntry(c)' =>
             \/ ServerOf(c) \in ended
             \/ (Kept(c) => Kept(c)')
    BY <1>5, <2>3
  <2> QED
    BY <1>1, <1>2, <2>2, <2>4, <2>5, <2>6, LessInv
<1>6. CASE IsEntry(a)
  <2>1. a \in 1 .. Len(attachments) /\ entries[ServerOf(a)][attachments[a].contents] = a
    BY <1>3, <1>6 DEF IsEntry
  <2>2. PICK s \in Servers : s = ServerOf(a)
    BY <1>4, <2>1
  <2>3. PICK w \in Contents : w = attachments[a].contents
    BY <1>4, <2>1
  <2>4. entries' = [entries EXCEPT ![s][w] = None] /\ Retire(a, below)
    BY <1>6, <2>1, <2>2, <2>3 DEF Leave, Detached
  <2>5. /\ SameAttachments /\ SameRequests /\ Told(below)
        /\ \A c \in 1 .. Len(attachments) :
             attachments'[c].session = IF c = a THEN NoSession ELSE attachments[c].session
        /\ retired' \in [Servers -> SUBSET Documents]
    BY <1>1, <2>1, <2>4, RetireParts
  <2>6. Held'
    BY <1>1, <2>1, <2>4, RetireHeld
  <2>7. \A t \in Servers, x \in Contents :
          entries'[t][x] = IF t = s /\ x = w THEN None ELSE entries[t][x]
    BY <1>1, <2>4
  <2>8. entries' \in [Servers -> [Contents -> 0 .. Len(attachments)]]
    <3>1. PICK row : row = [entries[s] EXCEPT ![w] = None]
      OBVIOUS
    <3>2. entries' = [entries EXCEPT ![s] = row]
      BY <2>4, <3>1
    <3>3. None \in 0 .. Len(attachments) /\ entries[s] \in [Contents -> 0 .. Len(attachments)]
      BY <1>1, <1>3 DEF None
    <3>4. row \in [Contents -> 0 .. Len(attachments)]
      BY <3>1, <3>3
    <3> QED
      BY <1>1, <3>2, <3>4
  <2>9. \A t \in Servers, x \in Contents : entries'[t][x] \in {entries[t][x], None}
    BY <2>7
  <2>10. DOMAIN attachments' = 1 .. Len(attachments)
    BY <1>3, <2>5 DEF SameAttachments
  <2>11. \A c \in 1 .. Len(attachments) : ServerOf(c)' = ServerOf(c)
    BY <1>4, <2>5 DEF ServerOf, SameBindings, SameAttachments
  <2>12. ASSUME NEW c \in 1 .. Len(attachments)
         PROVE  /\ IsEntry(c) /\ c # a => IsEntry(c)'
                /\ IsEntry(c)' => IsEntry(c) /\ c # a
    <3>1. entries'[ServerOf(c)][attachments[c].contents]
            = IF ServerOf(c) = s /\ attachments[c].contents = w
              THEN None ELSE entries[ServerOf(c)][attachments[c].contents]
      BY <1>4, <2>7
    <3>2. IsEntry(c)' <=> entries'[ServerOf(c)][attachments[c].contents] = c
      BY <2>5, <2>10, <2>11 DEF IsEntry, SameAttachments
    <3>3. IsEntry(c) <=> entries[ServerOf(c)][attachments[c].contents] = c
      BY <1>3 DEF IsEntry
    <3>4. c # None
      BY DEF None
    <3> QED
      BY <2>1, <2>2, <2>3, <3>1, <3>2, <3>3, <3>4
  <2>13. \A c \in 1 .. Len(attachments) :
             /\ attachments'[c].session \in {attachments[c].session, NoSession}
             /\ attachments'[c].session # NoSession => (IsEntry(c) => IsEntry(c)')
    BY <2>5, <2>12
  <2>14. \A c \in 1 .. Len(attachments) :
          IsEntry(c)' =>
             \/ ServerOf(c) \in ended
             \/ (Kept(c) => Kept(c)')
    BY <2>12
  <2> QED
    BY <1>1, <1>2, <2>5, <2>6, <2>8, <2>9, <2>13, <2>14, LessInv
<1> QED
  BY <1>5, <1>6

\* Only the stack changes, or what a window shows.
LEMMA StayedInv ==
  ASSUME Base, NEW below, Shaped(below), stack' = below, UNCHANGED <<mainVars, serverVars>>,
         shown' \in [Contents -> 0 .. NumDocuments]
  PROVE  Inv'
<1>1. Typed
  BY DEF Base
<1>2. ~IsEntry(None)
  BY <1>1, Domains DEF IsEntry, None
<1>3. Leave(None, below)
  BY <1>2 DEF Leave, serverVars
<1>4. SameBindings /\ UNCHANGED <<receivers, takeovers, ended>>
  BY <1>1 DEF SameBindings, Typed, mainVars, serverVars
<1>5. None \in Nothing .. Len(attachments)
  BY <1>1, Domains DEF None, Nothing
<1>6. /\ \A b \in 1 .. Len(bindings) :
           bindings'[b].attached \in [Contents -> Nothing .. Len(attachments)]
      /\ \A c \in 1 .. Len(attachments) :
           \/ c = None \/ ~IsEntry(c) \/ ServerOf(c) \in ended
           \/ (Kept(c) => Kept(c)')
  BY <1>1 DEF Typed, Kept, mainVars, serverVars
<1> QED
  BY <1>3, <1>4, <1>5, <1>6, LeaveInv

\* A binding that attaches a window, or detaches it, leaves the session it had.
LEMMA LeftInv ==
  ASSUME Base, NEW below, Shaped(below), NEW a \in Nothing .. Len(attachments),
         Leave(a, below), UNCHANGED <<shown, mainVars, ended>>
  PROVE  Inv'
<1>1. /\ SameBindings /\ UNCHANGED <<receivers, takeovers, ended>>
      /\ shown' \in [Contents -> 0 .. NumDocuments] /\ bindings' = bindings
      /\ \A b \in 1 .. Len(bindings) :
           bindings'[b].attached \in [Contents -> Nothing .. Len(attachments)]
  BY DEF Base, Typed, SameBindings, mainVars
<1>2. \A c \in 1 .. Len(attachments) :
         \/ c = a \/ ~IsEntry(c) \/ ServerOf(c) \in ended
         \/ (Kept(c) => Kept(c)')
  BY <1>1, LeaveSame DEF Base, Shaped, Framed
<1> QED
  BY <1>1, <1>2, LeaveInv

LEMMA AttachInv ==
  ASSUME Base, Shaped(stack), NEW b \in 1 .. Len(bindings), NEW w \in Contents, Attach(b, w)
  PROVE  Inv'
<1>1. PICK f : f = Frame("attaching", b, w)
  OBVIOUS
<1>2. PICK r : r = Append(stack, f)
  OBVIOUS
<1>3. PICK a : a = bindings[b].attached[w]
  OBVIOUS
<1>4. ~bindings[b].disposed /\ Leave(a, r) /\ UNCHANGED <<shown, mainVars, ended>>
  BY <1>1, <1>2, <1>3 DEF Attach
<1>5. b \in Nat /\ a \in Nothing .. Len(attachments)
  BY <1>3, Domains DEF Base, Typed
<1>6. f \in FrameSet /\ f.at = "attaching" /\ f.of = b /\ f.w = w
  BY <1>1, <1>5, FrameMade DEF Points
<1>7. FrameTyped(f) /\ f.at \notin LeavingPoints /\ Watched(stack, f.of)
  BY <1>4, <1>6 DEF FrameTyped, LeavingPoints, Watched
<1>8. Pushed(stack, r, f)
  BY <1>2 DEF Pushed
<1>9. Shaped(r)
  BY <1>6, <1>7, <1>8, ShapedPushed
<1> QED
  BY <1>4, <1>5, <1>9, LeftInv

LEMMA ServerAttachInv ==
  ASSUME Base, Shaped(stack), ServerAttach
  PROVE  Inv'
<1>1. PICK f : f = Top
  OBVIOUS
<1>2. PICK r : r = Rest
  OBVIOUS
<1>3. Popped(stack, r, f) /\ f.at = "attaching"
  BY <1>1, <1>2 DEF Popped, Top, Rest, ServerAttach, At
<1>4. Shaped(r) /\ f \in FrameSet /\ FrameTyped(f) /\ Watched(r, f.of)
  <2>1. f.at \in {"attaching", "entering", "retiring"} /\ f.at # "retiring"
    BY <1>3
  <2> QED
    BY <1>3, <2>1, ShapedPopped
<1>5. f.of \in 1 .. Len(bindings) /\ f.w \in Contents
  BY <1>3, <1>4 DEF FrameTyped
<1>6. PICK s \in Servers : s = bindings[f.of].server
  BY <1>5, Domains DEF Base, BindingSet
<1>7. CASE s \in ended
  <2>1. stack' = r /\ UNCHANGED <<mainVars, serverVars>> /\ UNCHANGED shown
    BY <1>1, <1>2, <1>6, <1>7 DEF ServerAttach, serverVars
  <2>2. shown' \in [Contents -> 0 .. NumDocuments]
    BY <2>1 DEF Base, Typed
  <2> QED
    BY <1>4, <2>1, <2>2, StayedInv
<1>8. CASE s \notin ended
  <2>1. PICK g : g = [f EXCEPT !.at = "entering"]
    OBVIOUS
  <2>2. PICK q : q = Append(r, g)
    OBVIOUS
  <2>3. PICK a : a = entries[s][f.w]
    OBVIOUS
  <2>4. Leave(a, q) /\ UNCHANGED <<shown, mainVars, ended>>
    BY <1>1, <1>2, <1>6, <1>8, <2>1, <2>2, <2>3 DEF ServerAttach
  <2>5. g \in FrameSet /\ g.at = "entering" /\ g.of = f.of /\ g.w = f.w
    BY <1>4, <2>1 DEF FrameSet, Points
  <2>6. FrameTyped(g) /\ g.at \notin LeavingPoints /\ Watched(r, g.of)
    BY <1>4, <1>5, <2>5 DEF FrameTyped, LeavingPoints
  <2>7. Pushed(r, q, g)
    BY <2>2 DEF Pushed
  <2>8. Shaped(q)
    BY <1>4, <2>5, <2>6, <2>7, ShapedPushed
  <2>9. a \in Nothing .. Len(attachments)
    BY <1>5, <2>3, Domains DEF Base, Typed, Nothing
  <2> QED
    BY <2>4, <2>8, <2>9, LeftInv
<1> QED
  BY <1>7, <1>8

\* The map of a binding forgets a detach function, of an attachment or an empty one, and
\* nobody else's.
Forgets(b, w, a) ==
  bindings' = IF bindings[b].attached[w] = a
              THEN [bindings EXCEPT ![b].attached[w] = None] ELSE bindings

LEMMA ForgetInv ==
  ASSUME Base, Shaped(stack), NEW a \in Nothing .. Len(attachments),
         NEW b \in 1 .. Len(bindings), NEW w \in Contents,
         Forgets(b, w, a),
         Leave(a, stack), UNCHANGED <<shown, receivers, takeovers, ended>>
  PROVE  Inv'
<1>3. Typed
  BY DEF Base
<1>4. /\ b \in 1 .. Len(bindings) /\ w \in Contents
      /\ bindings \in Seq(BindingSet) /\ bindings[b] \in BindingSet
      /\ bindings[b].attached \in [Contents -> Nothing .. Len(attachments)]
      /\ Len(attachments) \in Nat
  BY <1>3, Domains DEF Typed
<1>5. PICK map : map = [bindings[b].attached EXCEPT ![w] = None]
  OBVIOUS
<1>6. PICK next : next = [bindings[b] EXCEPT !.attached = map]
  OBVIOUS
<1>7. map \in [Contents -> Nothing .. Len(attachments)]
  BY <1>4, <1>5 DEF Nothing, None
<1>8. /\ next \in BindingSet /\ next.attached = map
      /\ next.namespace = bindings[b].namespace /\ next.server = bindings[b].server
      /\ next.disposed = bindings[b].disposed /\ next.overwritten = bindings[b].overwritten
  <2>1. map \in [Contents -> Int]
    BY <1>4, <1>7 DEF Nothing
  <2> QED
    BY <1>4, <1>6, <2>1 DEF BindingSet
<1>9. bindings' = IF bindings[b].attached[w] = a THEN [bindings EXCEPT ![b] = next] ELSE bindings
  BY <1>5, <1>6 DEF Forgets
<1>10. /\ bindings' \in Seq(BindingSet) /\ Len(bindings') = Len(bindings)
       /\ \A x \in 1 .. Len(bindings) :
            bindings'[x] = IF x = b /\ bindings[b].attached[w] = a THEN next ELSE bindings[x]
  BY <1>4, <1>8, <1>9
<1>11. SameBindings
  BY <1>8, <1>10 DEF SameBindings
<1>12. \A x \in 1 .. Len(bindings) :
         bindings'[x].attached \in [Contents -> Nothing .. Len(attachments)]
  BY <1>3, <1>7, <1>8, <1>10 DEF Typed
<1>13. ASSUME NEW c \in 1 .. Len(attachments), c # a, Kept(c)
       PROVE  Kept(c)'
  <2>1. attachments[c].binding \in 1 .. Len(bindings) /\ attachments[c].contents \in Contents
    BY <1>3, Domains DEF Typed, AttachmentSet
  <2>2. \A x \in Contents : x # w => map[x] = bindings[b].attached[x]
    BY <1>4, <1>5
  <2>3. /\ attachments'[c].binding = attachments[c].binding
        /\ attachments'[c].contents = attachments[c].contents
    <3>1. stack \in Seq(FrameSet)
      BY DEF Shaped, Framed
    <3> QED
      BY <1>3, <3>1, LeaveSame DEF SameAttachments
  <2>4. CASE c \in bindings[attachments[c].binding].overwritten
    BY <1>8, <1>10, <2>1, <2>3, <2>4 DEF Kept
  <2>5. CASE bindings[attachments[c].binding].attached[attachments[c].contents] = c
    <3>1. ~(/\ attachments[c].binding = b /\ attachments[c].contents = w
            /\ bindings[b].attached[w] = a)
      BY <1>13, <2>5
    <3> QED
      BY <1>8, <1>10, <2>1, <2>2, <2>3, <2>5, <3>1 DEF Kept
  <2> QED
    BY <1>13, <2>4, <2>5 DEF Kept
<1>14. /\ Leave(a, stack) /\ UNCHANGED <<receivers, takeovers, ended>>
       /\ shown' \in [Contents -> 0 .. NumDocuments]
  BY <1>3 DEF Typed
<1>16. \A c \in 1 .. Len(attachments) :
           \/ c = a \/ ~IsEntry(c) \/ ServerOf(c) \in ended
           \/ (Kept(c) => Kept(c)')
  BY <1>13
<1>17. PICK below : below = stack
  OBVIOUS
<1> QED
  BY <1>11, <1>12, <1>14, <1>16, <1>17, LeaveInv

LEMMA DetachInv ==
  ASSUME Base, Shaped(stack), NEW a \in 1 .. Len(attachments), Detach(a)
  PROVE  Inv'
<1>1. attachments[a].binding \in 1 .. Len(bindings) /\ attachments[a].contents \in Contents
  BY Domains DEF Base, Typed, AttachmentSet
<1>2. a \in Nothing .. Len(attachments)
  BY DEF Nothing
<1> QED
  BY <1>1, <1>2, ForgetInv DEF Detach, Forgets

LEMMA DetachEmptyInv ==
  ASSUME Base, Shaped(stack), NEW b \in 1 .. Len(bindings), NEW w \in Contents,
         DetachEmpty(b, w)
  PROVE  Inv'
<1>1. Len(attachments) \in Nat /\ DOMAIN attachments = 1 .. Len(attachments)
  BY Domains DEF Base
<1>2. Nothing \in Nothing .. Len(attachments) /\ ~IsEntry(Nothing)
  BY <1>1 DEF IsEntry, Nothing
<1>3. Leave(Nothing, stack) /\ UNCHANGED <<shown, receivers, takeovers, ended>>
  BY <1>2 DEF DetachEmpty, Leave, serverVars
<1>4. Forgets(b, w, Nothing)
  BY DEF DetachEmpty, Forgets
<1> QED
  BY <1>2, <1>3, <1>4, ForgetInv

LEMMA RetiredInv ==
  ASSUME Base, Shaped(stack), Retired
  PROVE  Inv'
<1>1. PICK f : f = Top
  OBVIOUS
<1>2. PICK r : r = Rest
  OBVIOUS
<1>3. Popped(stack, r, f) /\ f.at = "retiring"
  BY <1>1, <1>2 DEF Popped, Top, Rest, Retired, At
<1>4. f.at \in {"attaching", "entering", "retiring"}
  BY <1>3
<1>5. Shaped(r)
  BY <1>3, <1>4, ShapedPopped
<1>6. /\ stack' = r /\ UNCHANGED <<mainVars, serverVars>>
      /\ shown' \in [Contents -> 0 .. NumDocuments]
  BY <1>2 DEF Retired, Base, Typed
<1> QED
  BY <1>5, <1>6, StayedInv

LEMMA ShownInv ==
  ASSUME Base, Shaped(stack), UNCHANGED <<mainVars, serverVars, stack>>,
         shown' \in [Contents -> 0 .. NumDocuments]
  PROVE  Inv'
<1>1. PICK q : q = stack
  OBVIOUS
<1>2. Shaped(q) /\ stack' = q /\ UNCHANGED <<mainVars, serverVars>>
  BY <1>1
<1> QED
  BY <1>2, StayedInv

LEMMA DocumentInv ==
  ASSUME Base, Shaped(stack), NEW w \in Contents, Navigate(w) \/ Destroy(w)
  PROVE  Inv'
<1>1. shown \in [Contents -> 0 .. NumDocuments] /\ NumDocuments \in Nat \ {0}
  BY BoundAssumption DEF Base, Typed
<1>2. shown' \in [Contents -> 0 .. NumDocuments]
  BY <1>1 DEF Navigate, Destroy, None
<1>3. UNCHANGED <<mainVars, serverVars, stack>>
  BY DEF Navigate, Destroy
<1> QED
  BY <1>2, <1>3, ShownInv

LEMMA HearInv ==
  ASSUME Base, Shaped(stack), NEW a \in 1 .. Len(attachments), Hear(a)
  PROVE  Inv'
<1>1. PICK q : q = stack
  OBVIOUS
<1>2. /\ Retire(a, q) /\ Shaped(q) /\ q \in Seq(FrameSet)
      /\ UNCHANGED <<shown, mainVars, ended, entries>>
  BY <1>1 DEF Hear, Shaped, Framed
<1>3. /\ Typed /\ Held /\ bindings \in Seq(BindingSet)
      /\ shown \in [Contents -> 0 .. NumDocuments]
      /\ entries \in [Servers -> [Contents -> 0 .. Len(attachments)]]
  BY DEF Base, Typed
<1>4. SameBindings /\ UNCHANGED <<receivers, takeovers, ended>>
  BY <1>2, <1>3 DEF SameBindings, mainVars
<1>5. /\ SameAttachments /\ SameRequests /\ Told(q)
      /\ \A c \in 1 .. Len(attachments) :
           attachments'[c].session = IF c = a THEN NoSession ELSE attachments[c].session
      /\ retired' \in [Servers -> SUBSET Documents]
  BY <1>2, <1>3, RetireParts
<1>6. Held'
  BY <1>2, <1>3, <1>4, RetireHeld
<1>7. \A c \in 1 .. Len(attachments) : IsEntry(c)' <=> IsEntry(c)
  <2>1. DOMAIN attachments = 1 .. Len(attachments) /\ DOMAIN attachments' = 1 .. Len(attachments)
    BY <1>3, <1>5, Domains DEF SameAttachments
  <2> QED
    BY <1>2, <1>5, <2>1 DEF IsEntry, ServerOf, SameAttachments, mainVars
<1>8. /\ shown' \in [Contents -> 0 .. NumDocuments]
      /\ entries' \in [Servers -> [Contents -> 0 .. Len(attachments)]]
      /\ \A b \in 1 .. Len(bindings) :
           bindings'[b].attached \in [Contents -> Nothing .. Len(attachments)]
      /\ \A s \in Servers, x \in Contents : entries'[s][x] \in {entries[s][x], None}
  BY <1>2, <1>3 DEF Typed, mainVars
<1>9. \A c \in 1 .. Len(attachments) :
           /\ attachments'[c].session \in {attachments[c].session, NoSession}
           /\ attachments'[c].session # NoSession => (IsEntry(c) => IsEntry(c)')
  BY <1>5, <1>7
<1>10. \A c \in 1 .. Len(attachments) :
         IsEntry(c)' =>
             \/ ServerOf(c) \in ended
             \/ (Kept(c) => Kept(c)')
  BY <1>2, <1>5 DEF Kept, SameAttachments, mainVars
<1> QED
  BY <1>2, <1>4, <1>5, <1>6, <1>8, <1>9, <1>10, LessInv DEF Base

-----------------------------------------------------------------------------
(* Disposing *)

\* A server is disposed by a call that goes on.
LEMMA ServerDisposeInv ==
  ASSUME Base, Shaped(stack), NEW s \in Servers, ServerDispose(s)
  PROVE  Inv'
<1>1. PICK f : f = Frame("closing", s, None)
  OBVIOUS
<1>2. PICK q : q = Append(stack, f)
  OBVIOUS
<1>3. /\ ended' = ended \cup {s} /\ stack' = q
      /\ UNCHANGED <<shown, receivers, takeovers, bindings, attachments, entries, retired, requests>>
  BY <1>1, <1>2 DEF ServerDispose, mainVars
<1>4. f \in FrameSet /\ f.at = "closing" /\ f.of = s
  BY <1>1, FrameMade DEF Points, Servers
<1>5. /\ FrameTyped(f) /\ f.at \notin LeavingPoints
      /\ f.at \notin {"attaching", "entering"}
  BY <1>4 DEF FrameTyped, LeavingPoints
<1>6. Pushed(stack, q, f)
  BY <1>2 DEF Pushed
<1>7. Shaped(q)
  BY <1>4, <1>5, <1>6, ShapedPushed
<1>8. Closes(q, s)
  <2>1. stack \in Seq(FrameSet)
    BY DEF Shaped, Framed
  <2> QED
    BY <1>4, <1>6, <2>1, FramePushed
<1>9. /\ Typed /\ bindings \in Seq(BindingSet)
      /\ DOMAIN attachments = 1 .. Len(attachments)
  BY Domains DEF Base, Typed
<1>10. SameBindings
  BY <1>3, <1>9 DEF SameBindings
<1>11. Framed(q)' /\ Owners(q)'
  <2>1. Framed(q) /\ Owners(q) /\ Len(bindings') = Len(bindings)
    BY <1>3, <1>7 DEF Shaped
  <2>2. UNCHANGED <<receivers, takeovers>>
    BY <1>3
  <2> QED
    BY <1>9, <1>10, <2>1, <2>2, FramedKept, OwnersKept
<1>12. \A b \in 1 .. Len(bindings) : Watched(q, b) => Watched(q, b)'
  BY <1>3 DEF Watched, Disposes
<1>13. Entered(q)'
  <2>1. Framed(q) /\ Entered(q) /\ UNCHANGED <<attachments, entries>>
    BY <1>3, <1>7 DEF Shaped
  <2>2. \A b \in 1 .. Len(bindings) : bindings'[b].server = bindings[b].server
    BY <1>3
  <2>3. \A t \in ended' : t \in ended \/ Closes(q, t)
    BY <1>3, <1>8
  <2>4. \A a \in 1 .. Len(attachments) :
          \/ ServerOf(a) \in ended'
          \/ /\ ServerOf(a) \notin ended
             /\ (Kept(a) => Kept(a)')
    BY <1>3 DEF Kept
  <2> QED
    BY <1>9, <1>12, <2>1, <2>2, <2>3, <2>4, EnteredMoved
<1>14. Shaped(stack)'
  <2>1. Shaped(q)'
    BY <1>11, <1>13 DEF Shaped
  <2> QED
    BY <1>3, <2>1, ShapedNext
<1>15. Typed'
  BY <1>3, <1>9 DEF Typed, HasSession
<1>16. Held' /\ Asked' /\ AnsweredOnce'
  BY <1>3 DEF Base, Held, Asked, AnsweredOnce, ServerOf, BoundTo
<1> QED
  BY <1>14, <1>15, <1>16 DEF Inv, Base

LEMMA ClosingInv ==
  ASSUME Base, Shaped(stack), Closing
  PROVE  Inv'
<1>1. PICK f : f = Top
  OBVIOUS
<1>2. PICK r : r = Rest
  OBVIOUS
<1>3. Popped(stack, r, f) /\ f.at = "closing"
  BY <1>1, <1>2 DEF Popped, Top, Rest, Closing, At
<1>4. stack \in Seq(FrameSet) /\ Framed(stack) /\ Owners(stack) /\ Entered(stack)
  BY DEF Shaped, Framed
<1>5. /\ f \in ToSet(stack) /\ r \in Seq(FrameSet) /\ ToSet(stack) = ToSet(r) \cup {f}
      /\ Apart(stack) => Apart(r) /\ Alone(r, f)
      /\ \A b : /\ Leaves(stack, b) <=> Leaves(r, b) \/ (f.at \in LeavingPoints /\ f.of = b)
                /\ Disposes(stack, b) <=> Disposes(r, b) \/ (f.at = "disposing" /\ f.of = b)
                /\ Closes(stack, b) <=> Closes(r, b) \/ (f.at = "closing" /\ f.of = b)
  BY <1>3, <1>4, FramePopped
<1>6. Typed /\ DOMAIN attachments = 1 .. Len(attachments)
  BY Domains DEF Base
<1>7. PICK s \in Servers : s = f.of
  BY <1>3, <1>4, <1>5 DEF Framed, FrameTyped
<1>8. CASE \E w \in Contents : entries[s][w] # None
  <2>1. PICK w \in Contents : entries[s][w] # None /\ Detached(s, w, stack)
    BY <1>1, <1>7, <1>8 DEF Closing
  <2>2. PICK a : a = entries[s][w]
    OBVIOUS
  <2>3. a \in 1 .. Len(attachments)
    BY <1>6, <2>1, <2>2, Domains DEF Typed, None
  <2>4. ServerOf(a) = s /\ attachments[a].contents = w
    BY <1>4, <2>1, <2>2 DEF Entered
  <2>5. IsEntry(a)
    BY <1>6, <2>2, <2>3, <2>4 DEF IsEntry
  <2>6. PICK q : q = stack
    OBVIOUS
  <2>7. Leave(a, q) /\ Shaped(q)
    BY <2>1, <2>4, <2>5, <2>6 DEF Leave
  <2>8. UNCHANGED <<shown, mainVars, ended>> /\ a \in Nothing .. Len(attachments)
    BY <2>3 DEF Closing, Nothing
  <2> QED
    BY <2>7, <2>8, LeftInv
<1>9. CASE \A w \in Contents : entries[s][w] = None
  <2>1. stack' = r /\ UNCHANGED <<mainVars, serverVars>> /\ UNCHANGED shown
    BY <1>1, <1>2, <1>7, <1>9 DEF Closing, serverVars
  <2>2. shown' \in [Contents -> 0 .. NumDocuments]
    BY <1>6, <2>1 DEF Typed
  <2>3. /\ f.at \notin LeavingPoints /\ f.at # "disposing"
        /\ f.at \notin {"attaching", "entering"}
    BY <1>3 DEF LeavingPoints
  <2>4. /\ \A b : Leaves(stack, b) <=> Leaves(r, b)
        /\ \A b : Disposes(stack, b) <=> Disposes(r, b)
        /\ \A t : t # s => (Closes(stack, t) <=> Closes(r, t))
    BY <1>5, <1>7, <2>3
  <2>5. Framed(r)
    BY <1>4, <1>5 DEF Framed
  <2>6. Owners(r)
    BY <1>4, <2>4 DEF Owners
  <2>7. \A b : Watched(stack, b) => Watched(r, b)
    BY <2>4 DEF Watched
  <2>8. \A a \in 1 .. Len(attachments) : HasSession(a) => ServerOf(a) # s
    <3> SUFFICES ASSUME NEW a \in 1 .. Len(attachments), HasSession(a), ServerOf(a) = s
                 PROVE  FALSE
      OBVIOUS
    <3>1. entries[s][attachments[a].contents] = a
      BY <1>4 DEF Entered, IsEntry
    <3>2. attachments[a].contents \in Contents /\ a # None
      BY <1>6, Domains DEF AttachmentSet, None
    <3> QED
      BY <1>9, <3>1, <3>2
  <2>9. Entered(r)
    BY <1>4, <1>5, <2>4, <2>7, <2>8 DEF Entered
  <2>10. Shaped(r)
    BY <2>5, <2>6, <2>9 DEF Shaped
  <2> QED
    BY <2>1, <2>2, <2>10, StayedInv
<1> QED
  BY <1>8, <1>9

\* The flag of a binding is set by a call that goes on.
LEMMA DisposeInv ==
  ASSUME Base, Shaped(stack), NEW b \in 1 .. Len(bindings), Dispose(b)
  PROVE  Inv'
<1>1. PICK f : f = Frame("disposing", b, None)
  OBVIOUS
<1>2. PICK q : q = Append(stack, f)
  OBVIOUS
<1>3. PICK next : next = [bindings[b] EXCEPT !.disposed = TRUE]
  OBVIOUS
<1>4. /\ ~bindings[b].disposed
      /\ bindings' = [bindings EXCEPT ![b] = next] /\ stack' = q
      /\ UNCHANGED <<shown, receivers, takeovers, ended, attachments, entries, retired, requests>>
  BY <1>1, <1>2, <1>3 DEF Dispose, serverVars
<1>5. /\ Typed /\ bindings \in Seq(BindingSet) /\ bindings[b] \in BindingSet
      /\ DOMAIN attachments = 1 .. Len(attachments) /\ Len(bindings) \in Nat
      /\ DOMAIN bindings = 1 .. Len(bindings)
  BY Domains DEF Base, Typed
<1>6. /\ next \in BindingSet /\ next.disposed /\ next.namespace = bindings[b].namespace
      /\ next.server = bindings[b].server /\ next.attached = bindings[b].attached
      /\ next.overwritten = bindings[b].overwritten
  BY <1>3, <1>5 DEF BindingSet
<1>7. /\ bindings' \in Seq(BindingSet) /\ Len(bindings') = Len(bindings)
      /\ DOMAIN bindings' = 1 .. Len(bindings)
      /\ \A x \in 1 .. Len(bindings) : bindings'[x] = IF x = b THEN next ELSE bindings[x]
  BY <1>4, <1>5, <1>6
<1>8. \A x \in 1 .. Len(bindings) :
        /\ bindings'[x].namespace = bindings[x].namespace
        /\ bindings'[x].server = bindings[x].server
        /\ bindings'[x].attached = bindings[x].attached
        /\ bindings'[x].overwritten = bindings[x].overwritten
        /\ x # b => bindings'[x].disposed = bindings[x].disposed
  BY <1>6, <1>7
<1>9. bindings'[b].disposed
  BY <1>6, <1>7
<1>10. f \in FrameSet /\ f.at = "disposing" /\ f.of = b
  BY <1>1, <1>5, FrameMade DEF Points
<1>11. stack \in Seq(FrameSet) /\ Framed(stack) /\ Owners(stack) /\ Entered(stack)
  BY DEF Shaped, Framed
<1>12. Pushed(stack, q, f)
  BY <1>2 DEF Pushed
<1>13. /\ q \in Seq(FrameSet) /\ ToSet(q) = ToSet(stack) \cup {f}
       /\ Apart(stack) /\ Alone(stack, f) => Apart(q)
       /\ \A x : /\ Leaves(q, x) <=> Leaves(stack, x) \/ (f.at \in LeavingPoints /\ f.of = x)
                 /\ Disposes(q, x) <=> Disposes(stack, x) \/ (f.at = "disposing" /\ f.of = x)
                 /\ Closes(q, x) <=> Closes(stack, x) \/ (f.at = "closing" /\ f.of = x)
  BY <1>10, <1>11, <1>12, FramePushed
<1>14. /\ \A x : Leaves(q, x) <=> Leaves(stack, x) \/ x = b
       /\ \A x : Disposes(q, x) <=> Disposes(stack, x) \/ x = b
       /\ \A x : Closes(q, x) <=> Closes(stack, x)
  BY <1>10, <1>13 DEF LeavingPoints
<1>15. Framed(q)
  <2>1. Alone(stack, f)
    BY <1>4, <1>10, <1>11 DEF Alone, Owners
  <2>2. FrameTyped(f)
    BY <1>10 DEF FrameTyped
  <2> QED
    BY <1>11, <1>13, <2>1, <2>2 DEF Framed
<1>16. Framed(q)'
  BY <1>7, <1>15, FramedKept
<1>17. /\ \A n : BoundTo(n)' = BoundTo(n)
       /\ \A x \in 1 .. Len(bindings) : IsNewest(x)' <=> IsNewest(x)
  BY <1>5, <1>7, <1>8 DEF BoundTo, IsNewest
<1>18. Owners(q)'
  <2>1. ASSUME NEW n \in Namespaces
        PROVE  /\ \A c \in Channels : receivers'[n][c] = Newest(BoundTo(n)')
               /\ BoundTo(n)' # {} => Newest(BoundTo(n)') # {}
               /\ takeovers'[n] # None =>
                    /\ bindings'[takeovers'[n]].namespace = n /\ IsNewest(takeovers[n])'
                    /\ bindings'[takeovers'[n]].disposed /\ ~Leaves(q, takeovers'[n])
    <3>1. takeovers[n] # None => takeovers[n] \in 1 .. Len(bindings)
      BY <1>5 DEF Typed, None
    <3>2. takeovers[n] # None => takeovers[n] # b
      BY <1>4, <1>11 DEF Owners
    <3> QED
      BY <1>4, <1>8, <1>11, <1>14, <1>17, <3>1, <3>2 DEF Owners
  <2>2. ASSUME NEW x \in 1 .. Len(bindings)
        PROVE  /\ Leaves(q, x) => IsNewest(x)' /\ bindings'[x].disposed
               /\ ~bindings'[x].disposed => IsNewest(x)'
               /\ bindings'[x].disposed /\ IsNewest(x)' =>
                    takeovers'[bindings'[x].namespace] = x \/ Leaves(q, x)
    BY <1>4, <1>8, <1>9, <1>11, <1>14, <1>17, <2>2 DEF Owners
  <2> QED
    BY <1>7, <2>1, <2>2 DEF Owners, Newest, Leaves
<1>19. \A x \in 1 .. Len(bindings) : Watched(stack, x) => Watched(q, x)'
  <2> SUFFICES ASSUME NEW x \in 1 .. Len(bindings), Watched(stack, x)
               PROVE  Watched(q, x)'
    OBVIOUS
  <2>1. bindings'[x].server \in ended' \/ ~bindings'[x].disposed \/ Disposes(q, x)
    BY <1>4, <1>8, <1>14 DEF Watched
  <2> QED
    BY <2>1 DEF Watched, Disposes
<1>20. /\ \A x \in 1 .. Len(bindings) : bindings'[x].server = bindings[x].server
       /\ UNCHANGED <<attachments, entries>> /\ UNCHANGED <<attachments, requests>>
  BY <1>4, <1>8
<1>21. Entered(q)'
  <2>1. \A g \in ToSet(q) : g.at \in {"attaching", "entering"} => g \in ToSet(stack)
    BY <1>10, <1>13
  <2>2. /\ \A t \in ended' : t \in ended /\ Closes(stack, t) => Closes(q, t)
        /\ \A t \in ended' : t \in ended \/ Closes(q, t)
    BY <1>4, <1>14
  <2>3. \A a \in 1 .. Len(attachments) :
          \/ ServerOf(a) \in ended'
          \/ /\ ServerOf(a) \notin ended
             /\ (Kept(a) => Kept(a)')
    <3>1. \A a \in 1 .. Len(attachments) : attachments[a].binding \in 1 .. Len(bindings)
      BY <1>5 DEF Typed
    <3>2. \A a \in 1 .. Len(attachments) : Kept(a) => Kept(a)'
      BY <1>4, <1>8, <3>1 DEF Kept
    <3> QED
      BY <1>4, <3>2
  <2> QED
    BY <1>5, <1>11, <1>19, <1>20, <2>1, <2>2, <2>3, EnteredMoved
<1>22. Shaped(stack)'
  <2>1. Shaped(q)'
    BY <1>16, <1>18, <1>21 DEF Shaped
  <2> QED
    BY <1>4, <2>1, ShapedNext
<1>23. Typed'
  BY <1>4, <1>5, <1>7, <1>8 DEF Typed, HasSession
<1>24. Held'
  BY <1>5, <1>20, HeldKept DEF Base
<1>25. Asked' /\ AnsweredOnce'
  BY <1>4, <1>17 DEF Base, Asked, AnsweredOnce
<1> QED
  BY <1>22, <1>23, <1>24, <1>25 DEF Inv, Base

\* The attachments of the binding are gone: its server is disposed.
LEMMA DisposingInv ==
  ASSUME Base, Shaped(stack), Disposing
  PROVE  Inv'
<1>1. PICK f : f = Top
  OBVIOUS
<1>2. PICK r : r = Rest
  OBVIOUS
<1>3. PICK b : b = f.of
  OBVIOUS
<1>4. Popped(stack, r, f) /\ f.at = "disposing"
  BY <1>1, <1>2 DEF Popped, Top, Rest, Disposing, At
<1>5. stack \in Seq(FrameSet) /\ Framed(stack) /\ Owners(stack) /\ Entered(stack)
  BY DEF Shaped, Framed
<1>6. /\ f \in ToSet(stack) /\ r \in Seq(FrameSet) /\ ToSet(stack) = ToSet(r) \cup {f}
      /\ Apart(stack) => Apart(r) /\ Alone(r, f)
      /\ \A x : /\ Leaves(stack, x) <=> Leaves(r, x) \/ (f.at \in LeavingPoints /\ f.of = x)
                /\ Disposes(stack, x) <=> Disposes(r, x) \/ (f.at = "disposing" /\ f.of = x)
                /\ Closes(stack, x) <=> Closes(r, x) \/ (f.at = "closing" /\ f.of = x)
  BY <1>4, <1>5, FramePopped
<1>7. /\ Typed /\ bindings \in Seq(BindingSet) /\ DOMAIN bindings = 1 .. Len(bindings)
      /\ DOMAIN attachments = 1 .. Len(attachments) /\ Len(bindings) \in Nat
      /\ Len(attachments) \in Nat
      /\ \A x \in 1 .. Len(bindings) : bindings[x] \in BindingSet
  BY Domains DEF Base, Typed
<1>8. f.at \in LeavingPoints
  BY <1>4 DEF LeavingPoints
<1>9. b \in 1 .. Len(bindings) /\ b \in Nat
  BY <1>3, <1>5, <1>6, <1>7, <1>8 DEF Framed, FrameTyped
<1>10. PICK s \in Servers : s = bindings[b].server
  BY <1>7, <1>9 DEF BindingSet
<1>11. CASE \E w \in Contents : IsEntry(bindings[b].attached[w])
  <2>1. PICK w \in Contents : Leave(bindings[b].attached[w], stack)
    BY <1>1, <1>3, <1>11 DEF Disposing
  <2>2. PICK a : a = bindings[b].attached[w]
    OBVIOUS
  <2>3. PICK q : q = stack
    OBVIOUS
  <2>4. Leave(a, q) /\ Shaped(q)
    BY <2>1, <2>2, <2>3
  <2>5. a \in Nothing .. Len(attachments)
    BY <1>7, <1>9, <2>2 DEF Typed
  <2>6. UNCHANGED <<shown, mainVars, ended>>
    BY <1>1, <1>3, <1>11 DEF Disposing, mainVars
  <2> QED
    BY <2>4, <2>5, <2>6, LeftInv
<1>12. CASE ~\E w \in Contents : IsEntry(bindings[b].attached[w])
  <2>1. PICK g : g = Frame("releasing", b, None)
    OBVIOUS
  <2>2. PICK h : h = Frame("closing", s, None)
    OBVIOUS
  <2>3. PICK below : below = Append(r, g)
    OBVIOUS
  <2>4. PICK q : q = stack'
    OBVIOUS
  <2>5. PICK map : map = [w \in Contents |-> None]
    OBVIOUS
  <2>6. PICK next : next = [bindings[b] EXCEPT !.attached = map]
    OBVIOUS
  <2>7. /\ bindings' = [bindings EXCEPT ![b] = next] /\ ended' = ended \cup {s}
        /\ stack' = below \o (IF s \in ended THEN <<>> ELSE <<h>>)
        /\ UNCHANGED <<shown, receivers, takeovers, attachments, entries, retired, requests>>
    BY <1>1, <1>2, <1>3, <1>10, <1>12, <2>1, <2>2, <2>3, <2>5, <2>6 DEF Disposing
  <2>8. g \in FrameSet /\ g.at = "releasing" /\ g.of = b
    BY <1>9, <2>1, FrameMade DEF Points
  <2>9. h \in FrameSet /\ h.at = "closing" /\ h.of = s
    BY <2>2, FrameMade DEF Points, Servers
  <2>10. Pushed(r, below, g)
    BY <2>3 DEF Pushed
  <2>11. /\ below \in Seq(FrameSet) /\ ToSet(below) = ToSet(r) \cup {g}
         /\ Apart(r) /\ Alone(r, g) => Apart(below)
         /\ \A x : /\ Leaves(below, x) <=> Leaves(r, x) \/ (g.at \in LeavingPoints /\ g.of = x)
                   /\ Disposes(below, x) <=> Disposes(r, x) \/ (g.at = "disposing" /\ g.of = x)
                   /\ Closes(below, x) <=> Closes(r, x) \/ (g.at = "closing" /\ g.of = x)
    BY <1>6, <2>8, <2>10, FramePushed
  <2>12. Apart(below)
    BY <1>3, <1>5, <1>6, <1>8, <2>8, <2>11 DEF Framed, Alone
  <2>13. /\ q \in Seq(FrameSet) /\ Apart(q)
         /\ ToSet(q) \subseteq ToSet(below) \cup {h}
         /\ \A x : Leaves(q, x) <=> Leaves(below, x)
         /\ \A x : Disposes(q, x) <=> Disposes(below, x)
         /\ \A x : Closes(below, x) => Closes(q, x)
         /\ s \in ended \/ Closes(q, s)
    <3>1. CASE s \in ended
      <4>1. q = below
        BY <2>4, <2>7, <2>11, <3>1
      <4> QED
        BY <2>11, <2>12, <3>1, <4>1
    <3>2. CASE s \notin ended
      <4>1. q = below \o <<h>>
        BY <2>4, <2>7, <3>2
      <4>2. q = Append(below, h)
        BY <2>9, <2>11, <4>1
      <4>3. Pushed(below, q, h)
        BY <4>2 DEF Pushed
      <4>4. /\ q \in Seq(FrameSet) /\ ToSet(q) = ToSet(below) \cup {h}
            /\ Apart(below) /\ Alone(below, h) => Apart(q)
            /\ \A x : /\ Leaves(q, x) <=> Leaves(below, x) \/ (h.at \in LeavingPoints /\ h.of = x)
                      /\ Disposes(q, x) <=> Disposes(below, x) \/ (h.at = "disposing" /\ h.of = x)
                      /\ Closes(q, x) <=> Closes(below, x) \/ (h.at = "closing" /\ h.of = x)
        BY <2>9, <2>11, <4>3, FramePushed
      <4>5. h.at \notin LeavingPoints /\ h.at # "disposing"
        BY <2>9 DEF LeavingPoints
      <4>6. Alone(below, h)
        BY <4>5 DEF Alone
      <4> QED
        BY <2>9, <2>12, <4>4, <4>5, <4>6
    <3> QED
      BY <3>1, <3>2
  <2>14. /\ \A x : Leaves(q, x) <=> Leaves(stack, x)
         /\ \A x : x # b => (Disposes(stack, x) => Disposes(q, x))
         /\ \A x : Closes(stack, x) => Closes(q, x)
    <3>1. g.at \in LeavingPoints /\ f.at # "closing"
      BY <1>4, <2>8 DEF LeavingPoints
    <3> QED
      BY <1>3, <1>4, <1>6, <1>8, <2>8, <2>11, <2>13, <3>1
  <2>15. /\ next \in BindingSet /\ next.attached = map /\ next.namespace = bindings[b].namespace
         /\ next.server = bindings[b].server /\ next.disposed = bindings[b].disposed
         /\ map \in [Contents -> Nothing .. Len(attachments)]
    <3>1. map \in [Contents -> Int] /\ map \in [Contents -> Nothing .. Len(attachments)]
      BY <1>7, <2>5 DEF None, Nothing
    <3> QED
      BY <1>7, <1>9, <2>6, <3>1 DEF BindingSet
  <2>16. /\ bindings' \in Seq(BindingSet) /\ Len(bindings') = Len(bindings)
         /\ \A x \in 1 .. Len(bindings) : bindings'[x] = IF x = b THEN next ELSE bindings[x]
    BY <1>7, <1>9, <2>7, <2>15
  <2>17. SameBindings
    BY <2>15, <2>16 DEF SameBindings
  <2>18. Framed(q)'
    <3>1. /\ f.of = b /\ FrameTyped(g) /\ FrameTyped(h)
      BY <1>3, <1>9, <2>8, <2>9 DEF FrameTyped, LeavingPoints
    <3>2. Framed(q)
      BY <1>5, <1>6, <2>11, <2>13, <3>1 DEF Framed
    <3> QED
      BY <2>16, <3>2, FramedKept
  <2>19. Owners(q)'
    <3>1. Owners(q)
      BY <1>5, <2>14 DEF Owners
    <3> QED
      BY <1>7, <2>7, <2>17, <3>1, OwnersKept
  <2>20. \A x \in 1 .. Len(bindings) : Watched(stack, x) => Watched(q, x)'
    <3> SUFFICES ASSUME NEW x \in 1 .. Len(bindings), Watched(stack, x)
                 PROVE  Watched(q, x)'
      OBVIOUS
    <3>1. bindings'[x].server = bindings[x].server /\ bindings'[x].disposed = bindings[x].disposed
      BY <2>17 DEF SameBindings
    <3>2. bindings'[x].server \in ended' \/ ~bindings'[x].disposed \/ Disposes(q, x)
      BY <1>10, <2>7, <2>14, <3>1 DEF Watched
    <3> QED
      BY <3>2 DEF Watched, Disposes
  <2>21. /\ \A x \in 1 .. Len(bindings) : bindings'[x].server = bindings[x].server
         /\ UNCHANGED <<attachments, entries>> /\ UNCHANGED <<attachments, requests>>
    BY <2>7, <2>17 DEF SameBindings
  <2>22. Entered(q)'
    <3>1. \A e \in ToSet(q) : e.at \in {"attaching", "entering"} => e \in ToSet(stack)
      BY <1>6, <2>8, <2>9, <2>11, <2>13
    <3>2. /\ \A t \in ended' : t \in ended /\ Closes(stack, t) => Closes(q, t)
          /\ \A t \in ended' : t \in ended \/ Closes(q, t)
      BY <2>7, <2>13, <2>14
    <3>3. ASSUME NEW a \in 1 .. Len(attachments)
          PROVE  \/ ServerOf(a) \in ended'
                 \/ /\ ServerOf(a) \notin ended
                    /\ (Kept(a) => Kept(a)')
      <4>1. attachments[a].binding \in 1 .. Len(bindings)
        BY <1>7 DEF Typed
      <4>2. CASE attachments[a].binding = b
        BY <1>10, <2>7, <4>2 DEF ServerOf
      <4>3. CASE attachments[a].binding # b
        BY <2>7, <2>16, <4>1, <4>3 DEF Kept
      <4> QED
        BY <4>2, <4>3
    <3> QED
      BY <1>5, <1>7, <2>20, <2>21, <3>1, <3>2, <3>3, EnteredMoved
  <2>23. Shaped(stack)'
    <3>1. Shaped(q)'
      BY <2>18, <2>19, <2>22 DEF Shaped
    <3> QED
      BY <2>4, <3>1, ShapedNext
  <2>24. Typed'
    <3>1. \A x \in 1 .. Len(bindings) :
            bindings'[x].attached \in [Contents -> Nothing .. Len(attachments)]
      BY <1>7, <2>15, <2>16 DEF Typed
    <3> QED
      BY <1>7, <2>7, <2>16, <3>1 DEF Typed, HasSession
  <2>25. Held'
    BY <1>7, <2>21, HeldKept DEF Base
  <2>26. Asked' /\ AnsweredOnce'
    BY <1>7, <2>7, <2>17, BoundKept DEF Base, Asked, AnsweredOnce
  <2> QED
    BY <2>23, <2>24, <2>25, <2>26 DEF Inv, Base
<1> QED
  BY <1>11, <1>12

\* The disposed binding gives its namespace away.
LEMMA ReleasingInv ==
  ASSUME Base, Shaped(stack), Releasing
  PROVE  Inv'
<1>1. PICK f : f = Top
  OBVIOUS
<1>2. PICK r : r = Rest
  OBVIOUS
<1>3. PICK b : b = f.of
  OBVIOUS
<1>4. Popped(stack, r, f) /\ f.at = "releasing"
  BY <1>1, <1>2 DEF Popped, Top, Rest, Releasing, At
<1>5. stack \in Seq(FrameSet) /\ Framed(stack) /\ Owners(stack) /\ Entered(stack)
  BY DEF Shaped, Framed
<1>6. /\ f \in ToSet(stack) /\ r \in Seq(FrameSet) /\ ToSet(stack) = ToSet(r) \cup {f}
      /\ Apart(stack) => Apart(r) /\ Alone(r, f)
      /\ \A x : /\ Leaves(stack, x) <=> Leaves(r, x) \/ (f.at \in LeavingPoints /\ f.of = x)
                /\ Disposes(stack, x) <=> Disposes(r, x) \/ (f.at = "disposing" /\ f.of = x)
                /\ Closes(stack, x) <=> Closes(r, x) \/ (f.at = "closing" /\ f.of = x)
  BY <1>4, <1>5, FramePopped
<1>7. f.at \in LeavingPoints
  BY <1>4 DEF LeavingPoints
<1>8. Typed /\ b \in 1 .. Len(bindings)
  BY <1>3, <1>5, <1>6, <1>7 DEF Framed, FrameTyped, Base
<1>9. PICK n \in Namespaces : n = bindings[b].namespace
  BY <1>8, Domains DEF BindingSet
<1>10. /\ takeovers' = [takeovers EXCEPT ![n] = b] /\ stack' = r
       /\ UNCHANGED <<shown, receivers, bindings, ended, attachments, entries, retired, requests>>
  BY <1>1, <1>2, <1>3, <1>9 DEF Releasing, serverVars
<1>11. takeovers \in [Namespaces -> 0 .. Len(bindings)] /\ Len(bindings) \in Nat
  BY <1>8, Domains DEF Typed
<1>12. \A m \in Namespaces : takeovers'[m] = IF m = n THEN b ELSE takeovers[m]
  BY <1>10, <1>11
<1>13. /\ \A x : Leaves(stack, x) <=> Leaves(r, x) \/ x = b
       /\ \A x : Disposes(stack, x) <=> Disposes(r, x)
       /\ \A x : Closes(stack, x) <=> Closes(r, x)
       /\ ~Leaves(r, b)
  BY <1>3, <1>4, <1>5, <1>6, <1>7 DEF Framed, Alone
<1>14. IsNewest(b) /\ bindings[b].disposed
  BY <1>5, <1>8, <1>13 DEF Owners
<1>15. Framed(r)'
  <2>1. Framed(r)
    BY <1>5, <1>6 DEF Framed
  <2> QED
    BY <1>10, <2>1, FramedKept
<1>16. Owners(r)'
  <2>1. ASSUME NEW m \in Namespaces
        PROVE  /\ \A c \in Channels : receivers[m][c] = Newest(BoundTo(m))
               /\ BoundTo(m) # {} => Newest(BoundTo(m)) # {}
               /\ takeovers'[m] # None =>
                    /\ bindings[takeovers'[m]].namespace = m
                    /\ \A other \in 1 .. Len(bindings) :
                         bindings[other].namespace = bindings[takeovers'[m]].namespace
                           => other <= takeovers'[m]
                    /\ bindings[takeovers'[m]].disposed /\ ~Leaves(r, takeovers'[m])
    BY <1>5, <1>9, <1>12, <1>13, <1>14 DEF Owners, IsNewest
  <2>2. ASSUME NEW x \in 1 .. Len(bindings)
        PROVE  /\ Leaves(r, x) => IsNewest(x) /\ bindings[x].disposed
               /\ ~bindings[x].disposed => IsNewest(x)
               /\ bindings[x].disposed /\ IsNewest(x) =>
                    takeovers'[bindings[x].namespace] = x \/ Leaves(r, x)
    <3>1. /\ Leaves(r, x) => IsNewest(x) /\ bindings[x].disposed
          /\ ~bindings[x].disposed => IsNewest(x)
          /\ bindings[x].disposed /\ IsNewest(x) =>
               takeovers[bindings[x].namespace] = x \/ Leaves(r, x) \/ x = b
      BY <1>5, <1>13, <2>2 DEF Owners
    <3>2. bindings[x].namespace \in Namespaces
      BY <1>8, Domains DEF BindingSet
    <3>3. IsNewest(x) /\ bindings[x].namespace = n => x = b
      BY <1>8, <1>9, <1>11, <1>14 DEF IsNewest
    <3> QED
      BY <1>9, <1>12, <3>1, <3>2, <3>3
  <2> QED
    BY <1>10, <2>1, <2>2 DEF Owners, Newest, BoundTo, IsNewest, Leaves
<1>17. Entered(r)'
  <2>1. Entered(r)
    <3>1. \A x : Watched(stack, x) => Watched(r, x)
      BY <1>13 DEF Watched
    <3> QED
      BY <1>5, <1>6, <1>13, <3>1 DEF Entered
  <2> QED
    <3>1. UNCHANGED <<attachments, entries>> /\ bindings' = bindings /\ ended' = ended
      BY <1>10
    <3>2. \A x \in 1 .. Len(bindings) : Watched(r, x) => Watched(r, x)'
      BY <3>1 DEF Watched, Disposes
    <3>3. Framed(r)
      BY <1>5, <1>6 DEF Framed
    <3>4. \A s \in ended' : s \in ended \/ Closes(r, s)
      BY <3>1
    <3>5. \A a \in 1 .. Len(attachments) :
            \/ ServerOf(a) \in ended'
            \/ /\ ServerOf(a) \notin ended
               /\ (Kept(a) => Kept(a)')
      BY <3>1 DEF Kept
    <3>6. \A x \in 1 .. Len(bindings) : bindings'[x].server = bindings[x].server
      BY <3>1
    <3> QED
      BY <1>8, <2>1, <3>1, <3>2, <3>3, <3>4, <3>5, <3>6, EnteredMoved
<1>18. Shaped(stack)'
  <2>1. Shaped(r)' /\ r = stack'
    BY <1>10, <1>15, <1>16, <1>17 DEF Shaped
  <2> QED
    BY <2>1, ShapedNext
<1>19. Typed'
  <2>1. takeovers' \in [Namespaces -> 0 .. Len(bindings)]
    BY <1>8, <1>10, <1>11
  <2> QED
    BY <1>8, <1>10, <2>1 DEF Typed, HasSession
<1>20. Held' /\ Asked' /\ AnsweredOnce'
  BY <1>10 DEF Base, Held, Asked, AnsweredOnce, ServerOf, BoundTo
<1> QED
  BY <1>18, <1>19, <1>20 DEF Inv, Base

-----------------------------------------------------------------------------
(* Attaching and binding *)

\* A new attachment, or an empty detach function when there is an entry again.
LEMMA EnterInv ==
  ASSUME Base, Shaped(stack), Enter
  PROVE  Inv'
<1>1. PICK f : f = Top
  OBVIOUS
<1>2. PICK r : r = Rest
  OBVIOUS
<1>3. PICK b : b = f.of
  OBVIOUS
<1>4. PICK w : w = f.w
  OBVIOUS
<1>5. Popped(stack, r, f) /\ f.at = "entering"
  BY <1>1, <1>2 DEF Popped, Top, Rest, Enter, At
<1>6. Shaped(r) /\ f \in FrameSet /\ FrameTyped(f) /\ Watched(r, b)
  <2>1. f.at \in {"attaching", "entering", "retiring"} /\ f.at # "retiring"
    BY <1>5
  <2> QED
    BY <1>3, <1>5, <2>1, ShapedPopped
<1>7. b \in 1 .. Len(bindings) /\ w \in Contents
  BY <1>3, <1>4, <1>5, <1>6 DEF FrameTyped
<1>8. /\ Typed /\ bindings \in Seq(BindingSet) /\ attachments \in Seq(AttachmentSet)
      /\ DOMAIN bindings = 1 .. Len(bindings) /\ Len(bindings) \in Nat
      /\ DOMAIN attachments = 1 .. Len(attachments) /\ Len(attachments) \in Nat
      /\ \A x \in 1 .. Len(bindings) : bindings[x] \in BindingSet
      /\ \A a \in 1 .. Len(attachments) : attachments[a] \in AttachmentSet
      /\ bindings[b].attached \in [Contents -> Nothing .. Len(attachments)]
  BY <1>7, Domains DEF Base, Typed
<1>9. PICK s \in Servers : s = bindings[b].server
  BY <1>7, <1>8 DEF BindingSet
<1>10. stack' = r /\ UNCHANGED <<shown, receivers, takeovers, ended, retired, requests>>
  BY <1>2 DEF Enter
<1>11. ASSUME NEW m \in Nothing .. Len(attachments) + 1, NEW over \in SUBSET Int,
              NEW map, NEW next,
              map = [bindings[b].attached EXCEPT ![w] = m],
              next = [bindings[b] EXCEPT !.attached = map, !.overwritten = over],
              bindings' = [bindings EXCEPT ![b] = next]
       PROVE  /\ SameBindings
              /\ \A x \in 1 .. Len(bindings), y \in Contents :
                   bindings'[x].attached[y] = IF x = b /\ y = w THEN m ELSE bindings[x].attached[y]
              /\ \A x \in 1 .. Len(bindings) :
                   bindings'[x].overwritten = IF x = b THEN over ELSE bindings[x].overwritten
              /\ \A T : \A x \in 1 .. Len(bindings) :
                   m \in T /\ (Nothing .. Len(attachments)) \subseteq T =>
                     bindings'[x].attached \in [Contents -> T]
  <2>1. map \in [Contents -> Int]
    <3>1. bindings[b].attached \in [Contents -> Int]
      BY <1>7, <1>8 DEF BindingSet
    <3>2. m \in Int
      BY <1>8 DEF Nothing
    <3> QED
      BY <1>11, <3>1, <3>2
  <2>2. /\ next \in BindingSet /\ next.attached = map /\ next.overwritten = over
        /\ next.namespace = bindings[b].namespace
        /\ next.server = bindings[b].server /\ next.disposed = bindings[b].disposed
    BY <1>7, <1>8, <1>11, <2>1 DEF BindingSet
  <2>3. /\ bindings' \in Seq(BindingSet) /\ Len(bindings') = Len(bindings)
        /\ \A x \in 1 .. Len(bindings) : bindings'[x] = IF x = b THEN next ELSE bindings[x]
    BY <1>7, <1>8, <1>11, <2>2
  <2>4. SameBindings
    BY <2>2, <2>3 DEF SameBindings
  <2>5. \A y \in Contents : map[y] = IF y = w THEN m ELSE bindings[b].attached[y]
    BY <1>7, <1>8, <1>11
  <2>6. ASSUME NEW T, NEW x \in 1 .. Len(bindings), m \in T,
               (Nothing .. Len(attachments)) \subseteq T
        PROVE  bindings'[x].attached \in [Contents -> T]
    <3>1. bindings[x].attached \in [Contents -> T]
      BY <1>8, <2>6 DEF Typed
    <3>2. map \in [Contents -> T]
      BY <1>8, <1>11, <2>6
    <3> QED
      BY <2>2, <2>3, <3>1, <3>2
  <2> QED
    BY <2>2, <2>3, <2>4, <2>5, <2>6
<1>12. CASE entries[s][w] # None
  <2>1. PICK map : map = [bindings[b].attached EXCEPT ![w] = Nothing]
    OBVIOUS
  <2>o. PICK over : over = bindings[b].overwritten \cup {bindings[b].attached[w]}
    OBVIOUS
  <2>2. PICK next : next = [bindings[b] EXCEPT !.attached = map, !.overwritten = over]
    OBVIOUS
  <2>3. bindings' = [bindings EXCEPT ![b] = next] /\ UNCHANGED <<attachments, entries>>
    BY <1>1, <1>3, <1>4, <1>9, <1>12, <2>1, <2>o, <2>2 DEF Enter
  <2>i. over \in SUBSET Int
    BY <1>7, <1>8, <2>o DEF BindingSet
  <2>4. Nothing \in Nothing .. Len(attachments) + 1 /\ Nothing \in Nothing .. Len(attachments)
    BY <1>8 DEF Nothing
  <2>5. /\ SameBindings
        /\ \A x \in 1 .. Len(bindings), y \in Contents :
             bindings'[x].attached[y] = IF x = b /\ y = w THEN Nothing ELSE bindings[x].attached[y]
        /\ \A x \in 1 .. Len(bindings) :
             bindings'[x].overwritten = IF x = b THEN over ELSE bindings[x].overwritten
        /\ \A x \in 1 .. Len(bindings) :
             bindings'[x].attached \in [Contents -> Nothing .. Len(attachments)]
    <3>1. bindings' = [bindings EXCEPT ![b] = next]
      BY <2>3
    <3>2. /\ SameBindings
          /\ \A x \in 1 .. Len(bindings), y \in Contents :
               bindings'[x].attached[y] =
                 IF x = b /\ y = w THEN Nothing ELSE bindings[x].attached[y]
          /\ \A x \in 1 .. Len(bindings) :
               bindings'[x].overwritten = IF x = b THEN over ELSE bindings[x].overwritten
          /\ \A T : \A x \in 1 .. Len(bindings) :
               Nothing \in T /\ (Nothing .. Len(attachments)) \subseteq T =>
                 bindings'[x].attached \in [Contents -> T]
      BY <1>11, <2>1, <2>2, <2>4, <2>i, <3>1
    <3> QED
      BY <2>4, <3>2
  <2>6. ASSUME NEW c \in 1 .. Len(attachments), Kept(c)
        PROVE  Kept(c)'
    <3>1. PICK x \in 1 .. Len(bindings) : x = attachments[c].binding
      BY <1>8 DEF Typed
    <3>2. PICK y \in Contents : y = attachments[c].contents
      BY <1>8 DEF AttachmentSet
    <3>3. bindings[x].attached[y] = c \/ c \in bindings[x].overwritten
      BY <2>6, <3>1, <3>2 DEF Kept
    <3>4. bindings'[x].attached[y] = c \/ c \in bindings'[x].overwritten
      <4>1. CASE x = b
        BY <2>5, <2>o, <3>3, <4>1
      <4>2. CASE x # b
        BY <2>5, <3>3, <4>2
      <4> QED
        BY <4>1, <4>2
    <3>5. attachments' = attachments
      BY <2>3
    <3> QED
      BY <3>1, <3>2, <3>4, <3>5 DEF Kept
  <2>7. Leave(None, r)
    <3>1. ~IsEntry(None)
      BY <1>8 DEF IsEntry, None
    <3> QED
      BY <1>10, <2>3, <3>1 DEF Leave
  <2>8. /\ None \in Nothing .. Len(attachments) /\ UNCHANGED <<receivers, takeovers, ended>>
        /\ shown' \in [Contents -> 0 .. NumDocuments]
    BY <1>8, <1>10 DEF None, Nothing, Typed
  <2>9. \A c \in 1 .. Len(attachments) :
           \/ c = None \/ ~IsEntry(c) \/ ServerOf(c) \in ended
           \/ (Kept(c) => Kept(c)')
    BY <2>6
  <2> QED
    BY <1>6, <2>5, <2>7, <2>8, <2>9, LeaveInv
<1>13. CASE entries[s][w] = None
  <2>1. PICK a : a = Len(attachments) + 1
    OBVIOUS
  <2>2. PICK map : map = [bindings[b].attached EXCEPT ![w] = a]
    OBVIOUS
  <2>o. PICK over : over = bindings[b].overwritten
    OBVIOUS
  <2>3. PICK next : next = [bindings[b] EXCEPT !.attached = map, !.overwritten = over]
    OBVIOUS
  <2>4. PICK new : new = [binding |-> b, contents |-> w, session |-> NoSession]
    OBVIOUS
  <2>5. /\ bindings' = [bindings EXCEPT ![b] = next] /\ attachments' = Append(attachments, new)
        /\ entries' = [entries EXCEPT ![s][w] = a]
    <3>1. next = [bindings[b] EXCEPT !.attached = map]
      BY <1>7, <1>8, <2>3, <2>o DEF BindingSet
    <3> QED
      BY <1>1, <1>3, <1>4, <1>9, <1>13, <2>1, <2>2, <2>4, <3>1 DEF Enter
  <2>6. /\ a \in Nat \ {0} /\ a \notin 1 .. Len(attachments)
        /\ a \in Nothing .. Len(attachments) + 1
        /\ (Nothing .. Len(attachments)) \subseteq (Nothing .. Len(attachments) + 1)
    BY <1>8, <2>1 DEF Nothing
  <2>7. /\ SameBindings
        /\ \A x \in 1 .. Len(bindings), y \in Contents :
             bindings'[x].attached[y] = IF x = b /\ y = w THEN a ELSE bindings[x].attached[y]
        /\ \A x \in 1 .. Len(bindings) : bindings'[x].overwritten = bindings[x].overwritten
        /\ \A x \in 1 .. Len(bindings) :
             bindings'[x].attached \in [Contents -> Nothing .. Len(attachments) + 1]
    <3>1. over \in SUBSET Int
      BY <1>7, <1>8, <2>o DEF BindingSet
    <3>2. bindings' = [bindings EXCEPT ![b] = next]
      BY <2>5
    <3>3. /\ SameBindings
          /\ \A x \in 1 .. Len(bindings), y \in Contents :
               bindings'[x].attached[y] = IF x = b /\ y = w THEN a ELSE bindings[x].attached[y]
          /\ \A x \in 1 .. Len(bindings) :
               bindings'[x].overwritten = IF x = b THEN over ELSE bindings[x].overwritten
          /\ \A T : \A x \in 1 .. Len(bindings) :
               a \in T /\ (Nothing .. Len(attachments)) \subseteq T =>
                 bindings'[x].attached \in [Contents -> T]
      BY <1>11, <2>2, <2>3, <2>6, <3>1, <3>2
    <3> QED
      BY <2>6, <2>o, <3>3
  <2>8. /\ new \in AttachmentSet /\ new.binding = b /\ new.contents = w
        /\ new.session = NoSession
    BY <1>7, <1>8, <2>4 DEF AttachmentSet
  <2>9. /\ attachments' \in Seq(AttachmentSet) /\ Len(attachments') = Len(attachments) + 1
        /\ \A c \in 1 .. Len(attachments) : attachments'[c] = attachments[c]
        /\ attachments'[a] = new
    BY <1>8, <2>1, <2>5, <2>8, Appended
  <2>10. /\ DOMAIN attachments' = 1 .. Len(attachments')
         /\ \A c : c \in 1 .. Len(attachments') <=> c \in 1 .. Len(attachments) \/ c = a
    BY <1>8, <2>1, <2>9
  <2>11. \A t \in Servers, y \in Contents :
           entries'[t][y] = IF t = s /\ y = w THEN a ELSE entries[t][y]
    BY <1>7, <1>8, <2>5 DEF Typed
  <2>12. entries' \in [Servers -> [Contents -> 0 .. Len(attachments')]]
    <3>1. entries \in [Servers -> [Contents -> 0 .. Len(attachments')]]
      BY <1>8, <2>9 DEF Typed
    <3>2. a \in 0 .. Len(attachments')
      BY <1>8, <2>1, <2>9
    <3> QED
      BY <2>5, <3>1, <3>2
  <2>13. \A c \in 1 .. Len(attachments) :
           /\ attachments[c].binding \in 1 .. Len(bindings) /\ attachments[c].contents \in Contents
           /\ ServerOf(c) \in Servers
           /\ ServerOf(c)' = ServerOf(c) /\ (HasSession(c)' <=> HasSession(c))
    <3>1. \A c \in 1 .. Len(attachments) :
            attachments[c].binding \in 1 .. Len(bindings) /\ attachments[c].contents \in Contents
      BY <1>8 DEF Typed, AttachmentSet
    <3> QED
      BY <1>8, <2>7, <2>9, <3>1 DEF ServerOf, HasSession, SameBindings, BindingSet
  <2>14. bindings'[attachments'[a].binding].server = s /\ ~HasSession(a)'
    BY <1>7, <1>9, <2>7, <2>8, <2>9 DEF HasSession, SameBindings
  <2>15. \A c \in 1 .. Len(attachments) : IsEntry(c)' <=> IsEntry(c)
    <3> SUFFICES ASSUME NEW c \in 1 .. Len(attachments)
                 PROVE  IsEntry(c)' <=> IsEntry(c)
      OBVIOUS
    <3>1. IsEntry(c) <=> entries[ServerOf(c)][attachments[c].contents] = c
      BY <1>8 DEF IsEntry
    <3>2. IsEntry(c)' <=> entries'[ServerOf(c)][attachments[c].contents] = c
      BY <2>9, <2>10, <2>13 DEF IsEntry
    <3>3. c # a /\ c # None
      BY <2>6 DEF None
    <3> QED
      BY <1>13, <2>11, <2>13, <3>1, <3>2, <3>3
  <2>16. Framed(r)' /\ Owners(r)'
    <3>1. Framed(r) /\ Owners(r) /\ Len(bindings') = Len(bindings)
      BY <1>6, <2>7 DEF Shaped, SameBindings
    <3>2. UNCHANGED <<receivers, takeovers>>
      BY <1>10
    <3> QED
      BY <1>8, <2>7, <3>1, <3>2, FramedKept, OwnersKept
  <2>17. \A x \in 1 .. Len(bindings) : Watched(r, x) => Watched(r, x)'
    <3> SUFFICES ASSUME NEW x \in 1 .. Len(bindings), Watched(r, x)
                 PROVE  Watched(r, x)'
      OBVIOUS
    <3>1. bindings'[x].server \in ended' \/ ~bindings'[x].disposed \/ Disposes(r, x)
      BY <1>10, <2>7 DEF Watched, SameBindings
    <3> QED
      BY <3>1 DEF Watched, Disposes
  <2>18. ASSUME NEW c \in 1 .. Len(attachments)
         PROVE  /\ HasSession(c)' => IsEntry(c)'
                /\ HasSession(c)' /\ ServerOf(c)' \in ended' => Closes(r, ServerOf(c)')
                /\ IsEntry(c)' =>
                     /\ \/ ServerOf(c)' \in ended'
                        \/ Kept(c)'
                     /\ Watched(r, attachments[c].binding)'
    <3>1. HasSession(c) /\ ServerOf(c) \in ended => Closes(r, ServerOf(c))
      BY <1>6 DEF Shaped, Entered
    <3>2. PICK x \in 1 .. Len(bindings) :
            x = attachments[c].binding /\ x = attachments'[c].binding
      BY <2>9, <2>13
    <3>3. IsEntry(c) => Watched(r, x)'
      BY <1>6, <2>17, <3>2 DEF Shaped, Entered
    <3>4. IsEntry(c) => Watched(r, attachments[c].binding)'
      BY <3>2, <3>3 DEF Watched, Disposes
    <3>5. IsEntry(c) =>
            \/ ServerOf(c) \in ended
            \/ bindings'[x].attached[attachments[c].contents] = c
            \/ c \in bindings'[x].overwritten
      <4>1. IsEntry(c) => ~(x = b /\ attachments[c].contents = w)
        <5>1. IsEntry(c) => entries[ServerOf(c)][attachments[c].contents] = c
          BY DEF IsEntry
        <5>2. x = b => ServerOf(c) = s
          BY <1>9, <3>2 DEF ServerOf
        <5>3. c # None
          BY DEF None
        <5> QED
          BY <1>13, <5>1, <5>2, <5>3
      <4>2. PICK y \in Contents : y = attachments[c].contents
        BY <2>13
      <4>3. IsEntry(c) => bindings'[x].attached[y] = bindings[x].attached[y]
        BY <2>7, <4>1, <4>2
      <4>4. IsEntry(c) => \/ ServerOf(c) \in ended
                          \/ bindings[x].attached[y] = c \/ c \in bindings[x].overwritten
        BY <1>6, <3>2, <4>2 DEF Shaped, Entered, Kept
      <4> QED
        BY <2>7, <4>2, <4>3, <4>4
    <3>6. IsEntry(c) => ServerOf(c) \in ended \/ Kept(c)'
      BY <2>9, <3>2, <3>5 DEF Kept
    <3> QED
      BY <1>6, <1>10, <2>13, <2>15, <3>1, <3>4, <3>6 DEF Shaped, Entered
  <2>19. /\ bindings'[attachments'[a].binding].attached[attachments'[a].contents] = a
         /\ Watched(r, attachments'[a].binding)
         /\ attachments'[a].binding = b
    BY <1>6, <1>7, <2>7, <2>8, <2>9
  <2>20. Watched(r, b)'
    BY <1>6, <1>7, <2>17
  <2>21. \A e \in ToSet(r) : e.at \in {"attaching", "entering"} => Watched(r, e.of)'
    BY <1>6, <2>17 DEF Shaped, Framed, FrameTyped, Entered
  <2>22. ASSUME NEW t \in Servers, NEW y \in Contents, entries'[t][y] # None
         PROVE  /\ bindings'[attachments'[entries'[t][y]].binding].server = t
                /\ attachments'[entries'[t][y]].contents = y
    <3>1. CASE t = s /\ y = w
      BY <2>8, <2>9, <2>11, <2>14, <3>1
    <3>2. CASE ~(t = s /\ y = w)
      <4>1. entries'[t][y] = entries[t][y]
        BY <2>11, <3>2
      <4>2. PICK c \in 1 .. Len(attachments) : c = entries[t][y]
        BY <1>8, <2>22, <4>1, Domains DEF Typed, None
      <4>3. ServerOf(c) = t /\ attachments[c].contents = y
        BY <1>6, <2>22, <4>1, <4>2 DEF Shaped, Entered
      <4> QED
        BY <2>9, <2>13, <4>1, <4>2, <4>3 DEF ServerOf
    <3> QED
      BY <3>1, <3>2
  <2>23. Entered(r)'
    <3>1. ASSUME NEW c \in 1 .. Len(attachments')
          PROVE  /\ HasSession(c)' => IsEntry(c)'
                 /\ HasSession(c)' /\ ServerOf(c)' \in ended' => Closes(r, ServerOf(c)')
                 /\ IsEntry(c)' =>
                      /\ \/ ServerOf(c)' \in ended'
                         \/ Kept(c)'
                      /\ Watched(r, attachments[c].binding)'
      <4>1. CASE c \in 1 .. Len(attachments)
        BY <2>18, <4>1
      <4>2. CASE c = a
        <5>1. ~HasSession(c)'
          BY <2>14, <4>2 DEF HasSession
        <5>2. Watched(r, attachments[c].binding)'
          BY <2>19, <2>20, <4>2 DEF Watched, Disposes
        <5> QED
          BY <2>19, <4>2, <5>1, <5>2 DEF Kept
      <4> QED
        BY <2>10, <4>1, <4>2
    <3> QED
      BY <2>21, <2>22, <3>1 DEF Entered, ServerOf, Closes
  <2>24. Shaped(stack)'
    <3>1. Shaped(r)' /\ r = stack'
      BY <1>10, <2>16, <2>23 DEF Shaped
    <3> QED
      BY <3>1, ShapedNext
  <2>25. Typed'
    <3>1. /\ bindings' \in Seq(BindingSet) /\ Len(bindings') = Len(bindings)
      BY <2>7 DEF SameBindings
    <3>2. \A x \in 1 .. Len(bindings') :
            bindings'[x].attached \in [Contents -> Nothing .. Len(attachments')]
      BY <2>7, <2>9, <3>1
    <3>3. \A c \in 1 .. Len(attachments') :
            /\ attachments'[c].binding \in 1 .. Len(bindings')
            /\ HasSession(c)' => attachments'[c].session[1] = attachments'[c].contents
      <4>1. \A c \in 1 .. Len(attachments) :
              HasSession(c) => attachments[c].session[1] = attachments[c].contents
        BY <1>8 DEF Typed
      <4> QED
        BY <1>7, <2>8, <2>9, <2>10, <2>13, <2>14, <3>1, <4>1 DEF HasSession
    <3> QED
      BY <1>8, <1>10, <2>9, <2>12, <3>1, <3>2, <3>3 DEF Typed, HasSession
  <2>26. Held'
    <3>1. ASSUME NEW i \in 1 .. Len(requests), requests[i].at \in Busy
          PROVE  /\ requests[i].by # None
                 /\ \E c \in 1 .. Len(attachments') :
                      /\ attachments'[c].session = requests[i].from
                      /\ ServerOf(c)' = bindings'[requests[i].by].server
      <4>1. requests[i].by # None /\ requests[i].by \in 1 .. Len(bindings)
        BY <1>8, <3>1, Domains DEF Base, Held, Typed, None
      <4>2. PICK c \in 1 .. Len(attachments) :
              /\ attachments[c].session = requests[i].from
              /\ ServerOf(c) = bindings[requests[i].by].server
        BY <3>1 DEF Base, Held
      <4>3. bindings'[requests[i].by].server = bindings[requests[i].by].server
        BY <2>7, <4>1 DEF SameBindings
      <4> QED
        BY <2>9, <2>10, <2>13, <4>1, <4>2, <4>3
    <3> QED
      BY <1>10, <3>1 DEF Held
  <2>27. Asked' /\ AnsweredOnce'
    BY <1>8, <1>10, <2>7, BoundKept DEF Base, Asked, AnsweredOnce
  <2> QED
    BY <2>24, <2>25, <2>26, <2>27 DEF Inv, Base
<1> QED
  BY <1>12, <1>13

\* A new binding has the channels of its namespace, which a disposed one had before.
LEMMA BindInv ==
  ASSUME Base, Shaped(stack), NEW n \in Namespaces, NEW s \in Servers, Bind(n, s)
  PROVE  Inv'
<1>1. PICK b : b = Len(bindings) + 1
  OBVIOUS
<1>2. PICK new : new = [namespace |-> n, server |-> s, disposed |-> FALSE,
                        attached |-> [w \in Contents |-> None], overwritten |-> {}]
  OBVIOUS
<1>3. PICK q : q = stack
  OBVIOUS
<1>4. /\ Typed /\ bindings \in Seq(BindingSet) /\ attachments \in Seq(AttachmentSet)
      /\ DOMAIN bindings = 1 .. Len(bindings) /\ Len(bindings) \in Nat
      /\ DOMAIN attachments = 1 .. Len(attachments) /\ Len(attachments) \in Nat
      /\ receivers \in [Namespaces -> [Channels -> SUBSET (1 .. Len(bindings))]]
      /\ takeovers \in [Namespaces -> 0 .. Len(bindings)]
  BY Domains DEF Base, Typed
<1>5. q \in Seq(FrameSet) /\ Framed(q) /\ Owners(q) /\ Entered(q) /\ stack' = q
  BY <1>3 DEF Shaped, Framed, Bind
<1>6. /\ Free(n)
      /\ receivers' =
           [Released(n) EXCEPT ![n] = [c \in Channels |-> @[c] \cup {b}]]
      /\ takeovers' = [takeovers EXCEPT ![n] = None]
      /\ bindings' = Append(bindings, new)
      /\ UNCHANGED <<shown, ended, attachments, entries, retired, requests>>
  BY <1>1, <1>2 DEF Bind, serverVars
<1>7. /\ new \in BindingSet /\ new.namespace = n /\ new.server = s /\ ~new.disposed
      /\ new.attached = [w \in Contents |-> None]
  BY <1>2 DEF BindingSet, None
<1>8. /\ bindings' \in Seq(BindingSet) /\ Len(bindings') = Len(bindings) + 1
      /\ \A x \in 1 .. Len(bindings) : bindings'[x] = bindings[x]
      /\ bindings'[b] = new /\ DOMAIN bindings' = 1 .. Len(bindings')
  BY <1>1, <1>4, <1>6, <1>7, Appended
<1>9. /\ \A x : x \in 1 .. Len(bindings') <=> x \in 1 .. Len(bindings) \/ x = b
      /\ b \notin 1 .. Len(bindings) /\ b \in Nat
      /\ \A x \in 1 .. Len(bindings) : x <= b /\ ~(b <= x)
  BY <1>1, <1>4, <1>8
<1>10. PICK old : old = takeovers[n]
  OBVIOUS
<1>11. /\ \A m \in Namespaces, c \in Channels :
            Released(n)[m][c] = IF m = n THEN receivers[n][c] \ {old} ELSE receivers[m][c]
       /\ Released(n) \in [Namespaces -> [Channels -> SUBSET (1 .. Len(bindings))]]
  BY <1>4, <1>10 DEF Released, Without
<1>12. "rpc" \in Channels /\ "rpc" \in Invoked
  BY DEF Channels, Invoked
<1>13. Newest(BoundTo(n)) \subseteq {old}
  <2>1. receivers[n]["rpc"] \ {old} = {}
    BY <1>6, <1>11, <1>12 DEF Free
  <2>2. receivers[n]["rpc"] = Newest(BoundTo(n))
    BY <1>5, <1>12 DEF Owners
  <2> QED
    BY <2>1, <2>2
<1>14. \A c \in Channels : Released(n)[n][c] = {}
  <2>1. \A c \in Channels : receivers[n][c] \subseteq {old}
    BY <1>5, <1>13 DEF Owners
  <2>2. \A set : set \subseteq {old} => set \ {old} = {}
    OBVIOUS
  <2> QED
    BY <1>11, <2>1, <2>2
<1>15. \A m \in Namespaces, c \in Channels :
         receivers'[m][c] = IF m = n THEN {b} ELSE receivers[m][c]
  <2>1. PICK table : table = Released(n)
    OBVIOUS
  <2>2. receivers' = [table EXCEPT ![n] = [c \in Channels |-> table[n][c] \cup {b}]]
    BY <1>6, <2>1
  <2>3. \A m \in Namespaces, c \in Channels :
          receivers'[m][c] = IF m = n THEN table[n][c] \cup {b} ELSE table[m][c]
    BY <1>11, <2>1, <2>2
  <2>4. \A c \in Channels : table[n][c] \cup {b} = {b}
    BY <1>14, <2>1
  <2>5. \A m \in Namespaces, c \in Channels : m # n => table[m][c] = receivers[m][c]
    BY <1>11, <2>1
  <2> QED
    BY <2>3, <2>4, <2>5
<1>16. receivers' \in [Namespaces -> [Channels -> SUBSET (1 .. Len(bindings'))]]
  <2>1. PICK table : table = Released(n)
    OBVIOUS
  <2>2. receivers' = [table EXCEPT ![n] = [c \in Channels |-> table[n][c] \cup {b}]]
    BY <1>6, <2>1
  <2>3. table \in [Namespaces -> [Channels -> SUBSET (1 .. Len(bindings'))]]
    BY <1>9, <1>11, <2>1
  <2>4. [c \in Channels |-> table[n][c] \cup {b}] \in [Channels -> SUBSET (1 .. Len(bindings'))]
    BY <1>9, <2>3
  <2> QED
    BY <2>2, <2>3, <2>4
<1>17. \A m \in Namespaces : takeovers'[m] = IF m = n THEN None ELSE takeovers[m]
  BY <1>4, <1>6
<1>18. /\ BoundTo(n)' = BoundTo(n) \cup {b}
       /\ \A m : m # n => BoundTo(m)' = BoundTo(m)
       /\ \A m : BoundTo(m) \subseteq BoundTo(m)'
  BY <1>4, <1>7, <1>8, <1>9 DEF BoundTo
<1>19. Newest(BoundTo(n)') = {b}
  <2>1. BoundTo(n) \subseteq 1 .. Len(bindings)
    BY <1>4 DEF BoundTo
  <2>2. \A x \in BoundTo(n) : x <= b /\ ~(b <= x)
    BY <1>9, <2>1
  <2>3. b <= b
    BY <1>9
  <2> QED
    BY <1>18, <2>2, <2>3 DEF Newest
<1>20. ASSUME NEW x \in 1 .. Len(bindings)
       PROVE  /\ bindings[x].namespace # n => (IsNewest(x)' <=> IsNewest(x))
              /\ bindings[x].namespace = n =>
                   ~IsNewest(x)' /\ ~Leaves(q, x) /\ bindings[x].disposed
  <2>1. bindings[x].namespace # n => (IsNewest(x)' <=> IsNewest(x))
    BY <1>7, <1>8, <1>9 DEF IsNewest
  <2>2. ASSUME bindings[x].namespace = n
        PROVE  ~IsNewest(x)' /\ ~Leaves(q, x) /\ bindings[x].disposed
    <3>1. ~IsNewest(x)'
      BY <1>7, <1>8, <1>9, <2>2 DEF IsNewest
    <3>2. IsNewest(x) => x \in Newest(BoundTo(n))
      BY <1>4, <2>2 DEF IsNewest, Newest, BoundTo
    <3>3. IsNewest(x) => x = takeovers[n] /\ takeovers[n] # None
      BY <1>4, <1>10, <1>13, <3>2 DEF None
    <3>4. IsNewest(x) => ~Leaves(q, x) /\ bindings[x].disposed
      BY <1>5, <3>3 DEF Owners
    <3>5. /\ Leaves(q, x) => IsNewest(x)
          /\ ~bindings[x].disposed => IsNewest(x)
      BY <1>5 DEF Owners
    <3> QED
      BY <3>1, <3>4, <3>5
  <2> QED
    BY <2>1, <2>2
<1>21. ~Leaves(q, b)
  <2> SUFFICES ASSUME NEW f \in ToSet(q), f.at \in LeavingPoints, f.of = b
               PROVE  FALSE
    BY DEF Leaves
  <2>1. f.of \in 1 .. Len(bindings)
    BY <1>5 DEF Framed, FrameTyped
  <2> QED
    BY <1>9, <2>1
<1>22. IsNewest(b)'
  BY <1>8, <1>9 DEF IsNewest
<1>23. Framed(q)'
  BY <1>5, <1>9 DEF Framed, Apart, FrameTyped
<1>24. Owners(q)'
  <2>1. ASSUME NEW m \in Namespaces
        PROVE  /\ \A c \in Channels : receivers'[m][c] = Newest(BoundTo(m)')
               /\ BoundTo(m)' # {} => Newest(BoundTo(m)') # {}
               /\ takeovers'[m] # None =>
                    /\ bindings'[takeovers'[m]].namespace = m /\ IsNewest(takeovers[m])'
                    /\ bindings'[takeovers'[m]].disposed /\ ~Leaves(q, takeovers'[m])
    <3>1. CASE m = n
      BY <1>15, <1>17, <1>19, <3>1
    <3>2. CASE m # n
      <4>1. takeovers'[m] = takeovers[m] /\ \A c \in Channels : receivers'[m][c] = receivers[m][c]
        BY <1>15, <1>17, <3>2
      <4>2. ASSUME takeovers[m] # None
            PROVE  /\ bindings'[takeovers'[m]].namespace = m /\ IsNewest(takeovers[m])'
                   /\ bindings'[takeovers'[m]].disposed /\ ~Leaves(q, takeovers'[m])
        <5>1. PICK x \in 1 .. Len(bindings) : x = takeovers[m] /\ x = takeovers'[m]
          BY <1>4, <4>1, <4>2 DEF None
        <5>2. bindings[x].namespace = m /\ IsNewest(x) /\ bindings[x].disposed /\ ~Leaves(q, x)
          <6>1. /\ bindings[takeovers[m]].namespace = m /\ IsNewest(takeovers[m])
                /\ bindings[takeovers[m]].disposed /\ ~Leaves(q, takeovers[m])
            BY <1>5, <4>2 DEF Owners
          <6> QED
            BY <5>1, <6>1 DEF IsNewest
        <5>3. IsNewest(x)' /\ bindings'[x] = bindings[x]
          BY <1>8, <1>20, <3>2, <5>2
        <5> QED
          BY <5>1, <5>2, <5>3 DEF IsNewest
      <4> QED
        BY <1>5, <1>18, <3>2, <4>1, <4>2 DEF Owners
    <3> QED
      BY <3>1, <3>2
  <2>2. ASSUME NEW x \in 1 .. Len(bindings')
        PROVE  /\ Leaves(q, x) => IsNewest(x)' /\ bindings'[x].disposed
               /\ ~bindings'[x].disposed => IsNewest(x)'
               /\ bindings'[x].disposed /\ IsNewest(x)' =>
                    takeovers'[bindings'[x].namespace] = x \/ Leaves(q, x)
    <3>1. CASE x = b
      BY <1>7, <1>8, <1>21, <1>22, <3>1
    <3>2. CASE x \in 1 .. Len(bindings)
      <4>1. bindings'[x] = bindings[x] /\ bindings[x].namespace \in Namespaces
        BY <1>4, <1>8, <3>2, Domains DEF BindingSet
      <4>2. CASE bindings[x].namespace = n
        BY <1>20, <3>2, <4>1, <4>2
      <4>3. CASE bindings[x].namespace # n
        <5>1. takeovers'[bindings[x].namespace] = takeovers[bindings[x].namespace]
          BY <1>17, <4>1, <4>3
        <5> QED
          BY <1>5, <1>20, <3>2, <4>1, <4>3, <5>1 DEF Owners
      <4> QED
        BY <4>2, <4>3
    <3> QED
      BY <1>9, <3>1, <3>2
  <2> QED
    BY <2>1, <2>2 DEF Owners, Newest, Leaves
<1>25. \A x \in 1 .. Len(bindings) : Watched(q, x)' <=> Watched(q, x)
  BY <1>6, <1>8 DEF Watched, Disposes
<1>26. /\ \A x \in 1 .. Len(bindings) : bindings'[x].server = bindings[x].server
       /\ \A a \in 1 .. Len(attachments) : attachments[a].binding \in 1 .. Len(bindings)
       /\ UNCHANGED <<attachments, entries>> /\ UNCHANGED <<attachments, requests>>
  BY <1>4, <1>6, <1>8 DEF Typed
<1>27. Entered(q)'
  <2>1. /\ \A t \in ended' : t \in ended /\ Closes(q, t) => Closes(q, t)
        /\ \A t \in ended' : t \in ended \/ Closes(q, t)
    BY <1>6
  <2>2. \A a \in 1 .. Len(attachments) :
          \/ ServerOf(a) \in ended'
          \/ /\ ServerOf(a) \notin ended
             /\ (Kept(a) => Kept(a)')
    BY <1>6, <1>8, <1>26 DEF Kept
  <2> QED
    BY <1>4, <1>5, <1>25, <1>26, <2>1, <2>2, EnteredMoved
<1>28. Shaped(stack)'
  <2>1. Shaped(q)' /\ q = stack'
    BY <1>5, <1>23, <1>24, <1>27 DEF Shaped
  <2> QED
    BY <2>1, ShapedNext
<1>29. Typed'
  <2>1. takeovers' \in [Namespaces -> 0 .. Len(bindings')]
    <3>1. takeovers \in [Namespaces -> 0 .. Len(bindings')] /\ None \in 0 .. Len(bindings')
      BY <1>4, <1>8 DEF None
    <3> QED
      BY <1>6, <3>1
  <2>2. \A x \in 1 .. Len(bindings') :
          bindings'[x].attached \in [Contents -> Nothing .. Len(attachments)]
    <3>1. new.attached \in [Contents -> Nothing .. Len(attachments)]
      BY <1>4, <1>7 DEF None, Nothing
    <3> QED
      BY <1>4, <1>8, <1>9, <3>1 DEF Typed
  <2>3. \A i \in 1 .. Len(requests) : requests[i].by \in 0 .. Len(bindings')
    BY <1>4, <1>8 DEF Typed
  <2>4. \A a \in 1 .. Len(attachments) : attachments[a].binding \in 1 .. Len(bindings')
    BY <1>9, <1>26
  <2> QED
    BY <1>4, <1>6, <1>8, <1>16, <2>1, <2>2, <2>3, <2>4 DEF Typed, HasSession
<1>30. Held'
  BY <1>4, <1>26, HeldKept DEF Base
<1>31. Asked'
  BY <1>6, <1>18 DEF Base, Asked
<1>32. AnsweredOnce'
  BY <1>6 DEF Base, AnsweredOnce
<1> QED
  BY <1>28, <1>29, <1>30, <1>31, <1>32 DEF Inv, Base

-----------------------------------------------------------------------------
(* Requests *)

\* A handler returns, or a source ends.
LEMMA FinishInv ==
  ASSUME Base, Shaped(stack), NEW i \in 1 .. Len(requests), Finish(i)
  PROVE  Inv'
<1>1. PICK q : q = stack
  OBVIOUS
<1>2. PICK next : next = Ended(requests[i])
  OBVIOUS
<1>3. /\ requests[i].at \in Busy /\ requests' = [requests EXCEPT ![i] = next]
      /\ UNCHANGED <<shown, mainVars, ended, attachments, entries, retired, stack>>
  BY <1>2 DEF Finish, Busy
<1>4. /\ Typed /\ requests \in Seq(RequestSet) /\ requests[i] \in RequestSet
      /\ \A j \in 1 .. Len(requests) : requests[j] \in RequestSet
      /\ bindings \in Seq(BindingSet) /\ attachments \in Seq(AttachmentSet)
  BY Domains DEF Base, Typed
<1>5. next \in RequestSet /\ SameRequest(requests[i], next) /\ next.at \notin Busy
  BY <1>2, <1>3, <1>4, EndedRequest
<1>6. /\ requests' \in Seq(RequestSet) /\ Len(requests') = Len(requests)
      /\ \A j \in 1 .. Len(requests) : requests'[j] = IF j = i THEN next ELSE requests[j]
  BY <1>3, <1>4, <1>5
<1>7. SameRequests
  <2>1. \A j \in 1 .. Len(requests) : SameRequest(requests[j], requests'[j])
    <3>1. \A j \in 1 .. Len(requests) : SameRequest(requests[j], requests[j])
      BY DEF SameRequest
    <3> QED
      BY <1>5, <1>6, <3>1
  <2> QED
    BY <1>6, <2>1 DEF SameRequests
<1>8. SameBindings /\ SameAttachments /\ UNCHANGED <<receivers, takeovers, ended>>
  BY <1>3, <1>4 DEF SameBindings, SameAttachments, mainVars
<1>9. Held'
  <2>1. \A a : ServerOf(a)' = ServerOf(a)
    BY <1>3 DEF ServerOf, mainVars
  <2> QED
    BY <1>3, <1>5, <1>6, <2>1 DEF Base, Held, mainVars
<1>10. /\ shown' \in [Contents -> 0 .. NumDocuments]
       /\ retired' \in [Servers -> SUBSET Documents]
       /\ entries' \in [Servers -> [Contents -> 0 .. Len(attachments)]]
       /\ \A b \in 1 .. Len(bindings) :
            bindings'[b].attached \in [Contents -> Nothing .. Len(attachments)]
       /\ \A s \in Servers, w \in Contents : entries'[s][w] \in {entries[s][w], None}
  BY <1>3, <1>4 DEF Typed, mainVars
<1>11. \A a : IsEntry(a)' <=> IsEntry(a)
  BY <1>3 DEF IsEntry, ServerOf, mainVars
<1>12. \A a \in 1 .. Len(attachments) :
           /\ attachments'[a].session \in {attachments[a].session, NoSession}
           /\ attachments'[a].session # NoSession => (IsEntry(a) => IsEntry(a)')
  BY <1>3, <1>11
<1>13. \A a \in 1 .. Len(attachments) :
           IsEntry(a)' =>
             \/ ServerOf(a) \in ended
             \/ (Kept(a) => Kept(a)')
  BY <1>3 DEF Kept, mainVars
<1>14. Shaped(q) /\ Told(q)
  BY <1>1, <1>3 DEF Told
<1> QED
  BY <1>7, <1>8, <1>9, <1>10, <1>12, <1>13, <1>14, LessInv

\* A document that has an API was answered by a binding of the namespace.
LEMMA SendInv ==
  ASSUME Base, Shaped(stack), NEW w \in Contents, NEW n \in Namespaces, NEW kind \in Kinds,
         Send(w, n, kind)
  PROVE  Inv'
<1>1. PICK q : q = stack
  OBVIOUS
<1>2. PICK new : new = [from |-> <<w, shown[w]>>, namespace |-> n, kind |-> kind,
                        at |-> "sent", by |-> None, answers |-> 0]
  OBVIOUS
<1>3. /\ kind # "handshake" => HasApi(<<w, shown[w]>>, n)
      /\ shown[w] # None
      /\ requests' = Append(requests, new)
      /\ UNCHANGED <<shown, mainVars, ended, attachments, entries, retired, stack>>
  BY <1>2 DEF Send
<1>4. /\ Typed /\ requests \in Seq(RequestSet) /\ DOMAIN requests = 1 .. Len(requests)
      /\ Len(requests) \in Nat
  BY Domains DEF Base, Typed
<1>5. <<w, shown[w]>> \in Documents
  BY <1>3, <1>4, BoundAssumption DEF Typed, Documents, None
<1>6. /\ new \in RequestSet /\ new.at = "sent" /\ new.by = None /\ new.answers = 0
      /\ new.namespace = n /\ new.kind = kind
  BY <1>2, <1>5 DEF RequestSet, None
<1>7. /\ requests' \in Seq(RequestSet) /\ Len(requests') = Len(requests) + 1
      /\ \A i \in 1 .. Len(requests) : requests'[i] = requests[i]
      /\ requests'[Len(requests) + 1] = new
  BY <1>3, <1>4, <1>6, Appended
<1>8. /\ \A i \in 1 .. Len(requests') : i \in 1 .. Len(requests) \/ i = Len(requests) + 1
      /\ DOMAIN requests' = 1 .. Len(requests')
  BY <1>4, <1>7
<1>9. \A m : BoundTo(m)' = BoundTo(m)
  BY <1>3 DEF BoundTo, mainVars
<1>10. new.kind # "handshake" => BoundTo(n) # {}
  BY <1>3, <1>4, <1>6 DEF HasApi, Base, Asked
<1>11. Asked'
  BY <1>6, <1>7, <1>8, <1>9, <1>10 DEF Base, Asked
<1>12. AnsweredOnce'
  <2>1. \A i \in 1 .. Len(requests) :
          requests[i].answers = IF requests[i].at \in {"sent", "working"} THEN 0 ELSE 1
    BY <1>4 DEF Base, AnsweredOnce
  <2> QED
    BY <1>6, <1>7, <1>8, <2>1 DEF AnsweredOnce
<1>13. Held'
  <2>1. /\ new.at \notin Busy
        /\ \A a : ServerOf(a)' = ServerOf(a)
        /\ bindings' = bindings /\ attachments' = attachments
    BY <1>3, <1>6 DEF Busy, ServerOf, mainVars
  <2>2. \A i \in 1 .. Len(requests) :
          requests[i].at \in Busy =>
            /\ requests[i].by # None
            /\ \E a \in 1 .. Len(attachments) :
                 /\ attachments[a].session = requests[i].from
                 /\ ServerOf(a) = bindings[requests[i].by].server
    BY DEF Base, Held
  <2>3. \A i \in 1 .. Len(requests') : requests'[i].at \in Busy => i \in 1 .. Len(requests)
    BY <1>7, <1>8, <2>1
  <2> QED
    BY <1>7, <2>1, <2>2, <2>3 DEF Held
<1>14. Typed'
  <2>1. \A i \in 1 .. Len(requests') : requests'[i].by \in 0 .. Len(bindings)
    <3>1. \A i \in 1 .. Len(requests) : requests[i].by \in 0 .. Len(bindings)
      BY <1>4 DEF Typed
    <3>2. new.by \in 0 .. Len(bindings)
      BY <1>4, <1>6, Domains DEF None
    <3> QED
      BY <1>7, <1>8, <3>1, <3>2
  <2> QED
    BY <1>3, <1>4, <1>7, <2>1 DEF Typed, HasSession, mainVars
<1>15. Shaped(stack)'
  <2>1. Framed(q) /\ Owners(q) /\ Entered(q)
    BY <1>1 DEF Shaped
  <2>2. /\ SameBindings /\ UNCHANGED <<receivers, takeovers>>
        /\ Len(bindings') = Len(bindings)
    BY <1>3, <1>4 DEF SameBindings, Typed, mainVars
  <2>3. Framed(q)' /\ Owners(q)'
    BY <1>4, <2>1, <2>2, FramedKept, OwnersKept
  <2>4. Entered(q)'
    <3>1. UNCHANGED <<attachments, entries>> /\ bindings' = bindings /\ ended' = ended
      BY <1>3 DEF mainVars
    <3>2. \A x \in 1 .. Len(bindings) : Watched(q, x) => Watched(q, x)'
      BY <3>1 DEF Watched, Disposes
    <3>3. \A s \in ended' : s \in ended \/ Closes(q, s)
      BY <3>1
    <3>4. \A a \in 1 .. Len(attachments) :
            \/ ServerOf(a) \in ended'
            \/ /\ ServerOf(a) \notin ended
               /\ (Kept(a) => Kept(a)')
      BY <3>1 DEF Kept
    <3>5. \A x \in 1 .. Len(bindings) : bindings'[x].server = bindings[x].server
      BY <3>1
    <3> QED
      BY <1>4, <2>1, <3>1, <3>2, <3>3, <3>4, <3>5, EnteredMoved
  <2>5. Shaped(q)' /\ q = stack'
    BY <1>1, <1>3, <2>3, <2>4 DEF Shaped
  <2> QED
    BY <2>5, ShapedNext
<1> QED
  BY <1>11, <1>12, <1>13, <1>14, <1>15 DEF Inv, Base

LEMMA DocumentParts ==
  /\ NoSession \notin Documents
  /\ \A d, e \in Documents : d[1] = e[1] /\ d[2] = e[2] => d = e
  /\ \A d \in Documents : d[1] \in Contents
BY DEF Documents, NoSession

\* The attachments after a request opened or found the session of its document.
Opened(by, document) ==
  [a \in 1 .. Len(attachments) |->
     IF entries[bindings[by].server][document[1]] = a
     THEN [attachments[a] EXCEPT !.session = document] ELSE attachments[a]]

\* One binding at most is called, and it takes the request, and works on it, or answers.
LEMMA DeliverParts ==
  ASSUME Base, Shaped(stack), NEW i \in 1 .. Len(requests), Deliver(i)
  PROVE  \E next \in RequestSet :
           /\ requests' = [requests EXCEPT ![i] = next]
           /\ next.from = requests[i].from /\ next.namespace = requests[i].namespace
           /\ next.kind = requests[i].kind
           /\ next.at \in {"done", "working", "open"}
           /\ next.answers = IF next.at = "working" THEN 0 ELSE 1
           /\ \/ next.at = "done" /\ next.by = None /\ attachments' = attachments
              \/ /\ next.by \in BoundTo(next.namespace)
                 /\ Admits(bindings[next.by].server, next.from)
                 /\ attachments' = Opened(next.by, next.from)
<1>1. PICK r : r = requests[i]
  OBVIOUS
<1>2. PICK called : called = receivers[r.namespace][ChannelOf(r.kind)]
  OBVIOUS
<1>3. PICK taking : taking = {b \in called : Admits(bindings[b].server, r.from)}
  OBVIOUS
<1>4. PICK at : at = IF taking = {} THEN "done" ELSE Taken(r.kind)
  OBVIOUS
<1>5. PICK by : by = IF taking = {} THEN None ELSE CHOOSE b \in taking : TRUE
  OBVIOUS
<1>6. PICK answers : answers = IF called = {} /\ r.kind \in Invoked THEN 1
                               ELSE Cardinality({b \in called : AnswersAtOnce(b, r)})
  OBVIOUS
<1>7. PICK next : next = [r EXCEPT !.at = at, !.by = by, !.answers = answers]
  OBVIOUS
<1>8. /\ requests' = [requests EXCEPT ![i].at = at, ![i].by = by, ![i].answers = answers]
      /\ attachments' = [a \in DOMAIN attachments |->
           IF \E b \in taking : entries[bindings[b].server][r.from[1]] = a
           THEN [attachments[a] EXCEPT !.session = r.from] ELSE attachments[a]]
  BY <1>1, <1>2, <1>3, <1>4, <1>5, <1>6 DEF Deliver
<1>9. /\ Typed /\ r \in RequestSet /\ requests \in Seq(RequestSet)
      /\ DOMAIN attachments = 1 .. Len(attachments) /\ DOMAIN bindings = 1 .. Len(bindings)
      /\ attachments \in Seq(AttachmentSet) /\ DOMAIN requests = 1 .. Len(requests)
      /\ Len(bindings) \in Nat
  BY <1>1, Domains DEF Base, Typed
<1>10. requests' = [requests EXCEPT ![i] = next]
  BY <1>1, <1>7, <1>8, <1>9
<1>11. r.namespace \in Namespaces /\ r.kind \in Kinds /\ ChannelOf(r.kind) \in Channels
  BY <1>9 DEF RequestSet, Kinds, ChannelOf, Channels
<1>12. /\ called = Newest(BoundTo(r.namespace))
       /\ BoundTo(r.namespace) # {} => Newest(BoundTo(r.namespace)) # {}
  BY <1>2, <1>11 DEF Shaped, Owners
<1>13. BoundTo(r.namespace) \subseteq 1 .. Len(bindings) /\ called \subseteq BoundTo(r.namespace)
  BY <1>9, <1>12 DEF BoundTo, Newest
<1>14. \A x, y \in called : x = y
  <2> SUFFICES ASSUME NEW x \in called, NEW y \in called
               PROVE  x = y
    OBVIOUS
  <2>1. x <= y /\ y <= x
    BY <1>12 DEF Newest
  <2>2. x \in 1 .. Len(bindings) /\ y \in 1 .. Len(bindings)
    BY <1>13
  <2> QED
    BY <2>1, <2>2
<1>15. r.kind # "handshake" => BoundTo(r.namespace) # {}
  BY <1>1 DEF Base, Asked
<1>16. Cardinality({}) = 0 /\ \A x : Cardinality({x}) = 1
  BY FS_EmptySet, FS_Singleton
<1>17. /\ at \in {"done", "working", "open"} /\ by \in Nat
       /\ answers = IF at = "working" THEN 0 ELSE 1
       /\ \/ at = "done" /\ by = None /\ attachments' = attachments
          \/ /\ by \in BoundTo(r.namespace) /\ Admits(bindings[by].server, r.from)
             /\ attachments' = Opened(by, r.from)
  <2>1. CASE taking = {}
    <3>1. at = "done" /\ by = None /\ by \in Nat
      BY <1>4, <1>5, <2>1 DEF None
    <3>2. attachments' = attachments
      <4>1. attachments' = [a \in DOMAIN attachments |-> attachments[a]]
        BY <1>8, <2>1
      <4> QED
        BY <1>9, <4>1
    <3>3. answers = 1
      <4>1. CASE called = {}
        <5>1. r.kind = "handshake"
          BY <1>12, <1>15, <4>1
        <5> QED
          BY <1>6, <4>1, <5>1 DEF Invoked
      <4>2. CASE called # {}
        <5>1. PICK b \in called : TRUE
          BY <4>2
        <5>2. \A x \in called : AnswersAtOnce(x, r)
          BY <1>3, <2>1 DEF AnswersAtOnce
        <5>3. {x \in called : AnswersAtOnce(x, r)} = {b}
          BY <1>14, <5>1, <5>2
        <5> QED
          BY <1>6, <1>16, <4>2, <5>3
      <4> QED
        BY <4>1, <4>2
    <3> QED
      BY <3>1, <3>2, <3>3
  <2>2. CASE taking # {}
    <3>1. PICK b \in called : Admits(bindings[b].server, r.from)
      BY <1>3, <2>2
    <3>2. called = {b} /\ taking = {b}
      BY <1>3, <1>14, <3>1
    <3>3. by = b /\ by \in Nat /\ by \in BoundTo(r.namespace)
      BY <1>5, <1>13, <3>1, <3>2
    <3>4. at = Taken(r.kind) /\ at \in {"done", "working", "open"}
      BY <1>4, <1>11, <2>2 DEF Taken, Kinds
    <3>5. attachments' = Opened(by, r.from)
      BY <1>8, <1>9, <3>2, <3>3 DEF Opened
    <3>6. answers = IF at = "working" THEN 0 ELSE 1
      <4>1. answers = Cardinality({x \in called : AnswersAtOnce(x, r)})
        BY <1>6, <3>1
      <4>2. CASE r.kind = "rpc"
        <5>1. at = "working"
          BY <3>4, <4>2 DEF Taken
        <5>2. ~AnswersAtOnce(b, r)
          BY <3>1, <4>2 DEF AnswersAtOnce
        <5>3. {x \in called : AnswersAtOnce(x, r)} = {}
          BY <3>2, <5>2
        <5> QED
          BY <1>16, <4>1, <5>1, <5>3
      <4>3. CASE r.kind # "rpc"
        <5>1. at # "working"
          BY <1>11, <3>4, <4>3 DEF Taken, Kinds
        <5>2. AnswersAtOnce(b, r)
          BY <4>3 DEF AnswersAtOnce
        <5>3. {x \in called : AnswersAtOnce(x, r)} = {b}
          BY <3>2, <5>2
        <5> QED
          BY <1>16, <4>1, <5>1, <5>3
      <4> QED
        BY <4>2, <4>3
    <3> QED
      BY <3>1, <3>3, <3>4, <3>5, <3>6
  <2> QED
    BY <2>1, <2>2
<1>18. /\ next \in RequestSet /\ next.at = at /\ next.by = by /\ next.answers = answers
       /\ next.from = r.from /\ next.namespace = r.namespace /\ next.kind = r.kind
  <2>1. at \in {"sent", "done"} \cup Busy /\ by \in Nat /\ answers \in Nat
    BY <1>17 DEF Busy
  <2> QED
    BY <1>7, <1>9, <2>1 DEF RequestSet
<1>19. /\ next.from = requests[i].from /\ next.namespace = requests[i].namespace
       /\ next.kind = requests[i].kind
       /\ next.at \in {"done", "working", "open"}
       /\ next.answers = IF next.at = "working" THEN 0 ELSE 1
       /\ \/ next.at = "done" /\ next.by = None /\ attachments' = attachments
          \/ /\ next.by \in BoundTo(next.namespace)
             /\ Admits(bindings[next.by].server, next.from)
             /\ attachments' = Opened(next.by, next.from)
  BY <1>1, <1>17, <1>18
<1>20. next \in RequestSet
  BY <1>18
<1> QED
  BY ONLY <1>10, <1>19, <1>20

\* The session a request opens or finds is that of an entry, and no other session goes.
LEMMA DeliverInv ==
  ASSUME Base, Shaped(stack), NEW i \in 1 .. Len(requests), Deliver(i)
  PROVE  Inv'
<1>1. PICK q : q = stack
  OBVIOUS
<1>2. PICK next \in RequestSet :
        /\ requests' = [requests EXCEPT ![i] = next]
        /\ next.from = requests[i].from /\ next.namespace = requests[i].namespace
        /\ next.kind = requests[i].kind
        /\ next.at \in {"done", "working", "open"}
        /\ next.answers = IF next.at = "working" THEN 0 ELSE 1
        /\ \/ next.at = "done" /\ next.by = None /\ attachments' = attachments
           \/ /\ next.by \in BoundTo(next.namespace)
              /\ Admits(bindings[next.by].server, next.from)
              /\ attachments' = Opened(next.by, next.from)
  BY DeliverParts
<1>3. /\ UNCHANGED <<shown, mainVars, ended, entries, retired, stack>>
      /\ stack = <<>> /\ ~Unheard /\ requests[i].at = "sent"
  BY DEF Deliver, Quiet
<1>4. /\ Typed /\ requests \in Seq(RequestSet) /\ DOMAIN requests = 1 .. Len(requests)
      /\ bindings \in Seq(BindingSet) /\ attachments \in Seq(AttachmentSet)
      /\ DOMAIN attachments = 1 .. Len(attachments) /\ Len(attachments) \in Nat
      /\ DOMAIN bindings = 1 .. Len(bindings) /\ Len(bindings) \in Nat
      /\ \A a \in 1 .. Len(attachments) : attachments[a] \in AttachmentSet
      /\ \A j \in 1 .. Len(requests) : requests[j] \in RequestSet
      /\ \A b \in 1 .. Len(bindings) : bindings[b] \in BindingSet
  BY Domains DEF Base, Typed
<1>5. Framed(q) /\ Owners(q) /\ Entered(q) /\ q = stack'
  BY <1>1, <1>3 DEF Shaped
<1>6. /\ requests' \in Seq(RequestSet) /\ Len(requests') = Len(requests)
      /\ DOMAIN requests' = 1 .. Len(requests)
      /\ \A j \in 1 .. Len(requests) : requests'[j] = IF j = i THEN next ELSE requests[j]
  <2>1. requests' = [requests EXCEPT ![i] = next]
    BY <1>2
  <2> QED
    BY <1>4, <2>1
<1>7. next.from \in Documents
  BY DEF RequestSet
<1>8. /\ SameAttachments
      /\ \A a \in 1 .. Len(attachments) :
           /\ HasSession(a) => attachments'[a].session = attachments[a].session
           /\ attachments'[a].session # NoSession =>
                \/ HasSession(a)
                \/ /\ IsEntry(a) /\ ServerOf(a) \notin ended
                   /\ attachments'[a].session[1] = attachments[a].contents
      /\ next.by \in 0 .. Len(bindings)
      /\ next.by # None => next.by \in BoundTo(next.namespace)
      /\ next.at \in Busy =>
           /\ next.by # None
           /\ \E a \in 1 .. Len(attachments) :
                /\ attachments'[a].session = next.from
                /\ ServerOf(a) = bindings[next.by].server
  <2>1. CASE next.at = "done" /\ next.by = None /\ attachments' = attachments
    BY <1>4, <2>1 DEF SameAttachments, HasSession, Busy, None
  <2>2. CASE /\ next.by \in BoundTo(next.namespace)
             /\ Admits(bindings[next.by].server, next.from)
             /\ attachments' = Opened(next.by, next.from)
    <3>0. PICK x : x = entries[bindings[next.by].server][next.from[1]]
      OBVIOUS
    <3>1. /\ next.by \in BoundTo(next.namespace)
          /\ Admits(bindings[next.by].server, next.from)
          /\ attachments' =
               [a \in 1 .. Len(attachments) |->
                  IF x = a THEN [attachments[a] EXCEPT !.session = next.from] ELSE attachments[a]]
      BY <2>2, <3>0 DEF Opened
    <3>2. next.by \in 1 .. Len(bindings)
      BY <1>4, <3>1 DEF BoundTo
    <3>3. PICK s \in Servers : s = bindings[next.by].server
      BY <1>4, <3>2 DEF BindingSet
    <3>4. PICK w \in Contents : w = next.from[1]
      BY <1>7, DocumentParts
    <3>5. /\ x = entries[s][w] /\ x \in 1 .. Len(attachments)
          /\ s \notin ended /\ shown[w] = next.from[2]
      <4>1. /\ s \notin ended /\ entries[s][w] # None /\ shown[w] = next.from[2]
        BY <3>1, <3>3, <3>4 DEF Admits, Live
      <4>2. x = entries[s][w]
        BY <3>0, <3>3, <3>4
      <4> QED
        BY <1>4, <4>1, <4>2 DEF Typed, None
    <3>6. ServerOf(x) = s /\ attachments[x].contents = w
      BY <1>5, <3>5 DEF Entered, None
    <3>7. IsEntry(x)
      BY <1>4, <3>5, <3>6 DEF IsEntry
    <3>8. HasSession(x) => attachments[x].session = next.from
      <4> SUFFICES ASSUME HasSession(x)
                   PROVE  attachments[x].session = next.from
        OBVIOUS
      <4>1. PICK d : d = attachments[x].session
        OBVIOUS
      <4>2. d \in Documents /\ d[1] = w
        BY <1>4, <3>5, <3>6, <4>1 DEF Typed, AttachmentSet, HasSession
      <4>3. shown[d[1]] = d[2]
        BY <1>3, <1>4, <3>5, <3>7, <4>1 DEF Unheard, Live
      <4> QED
        BY <1>7, <3>4, <3>5, <4>1, <4>2, <4>3, DocumentParts
    <3>9. PICK new : new = [attachments[x] EXCEPT !.session = next.from]
      OBVIOUS
    <3>10. /\ new \in AttachmentSet /\ new.session = next.from
           /\ new.binding = attachments[x].binding /\ new.contents = attachments[x].contents
      BY <1>4, <1>7, <3>5, <3>9 DEF AttachmentSet
    <3>11. \A a \in 1 .. Len(attachments) : attachments'[a] = IF a = x THEN new ELSE attachments[a]
      BY <3>1, <3>9
    <3>12. /\ SameAttachments
           /\ \A a \in 1 .. Len(attachments) :
                /\ attachments'[a].session = IF a = x THEN next.from ELSE attachments[a].session
                /\ HasSession(a) => attachments'[a].session = attachments[a].session
      <4>1. /\ attachments' \in Seq(AttachmentSet) /\ Len(attachments') = Len(attachments)
        <5>1. attachments' = [a \in 1 .. Len(attachments) |-> attachments'[a]]
          BY <3>1
        <5>2. \A a \in 1 .. Len(attachments) : attachments'[a] \in AttachmentSet
          BY <1>4, <3>10, <3>11
        <5> QED
          BY <1>4, <5>1, <5>2
      <4> QED
        BY <3>8, <3>10, <3>11, <4>1 DEF SameAttachments
    <3>13. next.by # None /\ next.by \in 0 .. Len(bindings)
      BY <1>4, <3>2 DEF None
    <3>14. \A a \in 1 .. Len(attachments) :
             /\ HasSession(a) => attachments'[a].session = attachments[a].session
             /\ attachments'[a].session # NoSession =>
                  \/ HasSession(a)
                  \/ /\ IsEntry(a) /\ ServerOf(a) \notin ended
                     /\ attachments'[a].session[1] = attachments[a].contents
      BY <3>4, <3>5, <3>6, <3>7, <3>12 DEF HasSession
    <3>15. /\ attachments'[x].session = next.from
           /\ ServerOf(x) = bindings[next.by].server
      BY <3>3, <3>5, <3>6, <3>12
    <3> QED
      BY <3>1, <3>5, <3>12, <3>13, <3>14, <3>15
  <2> QED
    BY <1>2, <2>1, <2>2
<1>9. Len(attachments') = Len(attachments) /\ DOMAIN attachments' = 1 .. Len(attachments)
  BY <1>8 DEF SameAttachments
<1>10. SameBindings /\ UNCHANGED <<receivers, takeovers>> /\ Len(bindings') = Len(bindings)
  BY <1>3, <1>4 DEF SameBindings, mainVars
<1>11. Framed(q)' /\ Owners(q)'
  BY <1>4, <1>5, <1>10, FramedKept, OwnersKept
<1>12. \A a \in 1 .. Len(attachments) :
         /\ attachments'[a].binding = attachments[a].binding
         /\ attachments'[a].contents = attachments[a].contents
         /\ ServerOf(a)' = ServerOf(a) /\ (IsEntry(a)' <=> IsEntry(a))
         /\ HasSession(a)' <=> attachments'[a].session # NoSession
  BY <1>3, <1>4, <1>8, <1>9 DEF ServerOf, IsEntry, HasSession, SameAttachments, mainVars
<1>13. \A b : Watched(q, b)' <=> Watched(q, b)
  BY <1>3 DEF Watched, Disposes, mainVars
<1>14. Entered(q)'
  <2>1. ASSUME NEW a \in 1 .. Len(attachments)
        PROVE  /\ HasSession(a)' => IsEntry(a)'
               /\ HasSession(a)' /\ ServerOf(a)' \in ended' => Closes(q, ServerOf(a)')
               /\ IsEntry(a)' =>
                    /\ \/ ServerOf(a)' \in ended'
                       \/ Kept(a)'
                    /\ Watched(q, attachments[a].binding)'
    <3>1. HasSession(a)' => IsEntry(a) /\ (ServerOf(a) \in ended => Closes(q, ServerOf(a)))
      BY <1>5, <1>8, <1>12 DEF Entered
    <3>2. PICK b : b = attachments[a].binding /\ b = attachments'[a].binding
      BY <1>12
    <3>3. IsEntry(a) => Watched(q, b)'
      BY <1>5, <1>13, <3>2 DEF Entered
    <3>4. IsEntry(a) => Watched(q, attachments[a].binding)'
      BY <3>2, <3>3 DEF Watched, Disposes
    <3>5. IsEntry(a) =>
            \/ ServerOf(a) \in ended
            \/ Kept(a)'
      BY <1>3, <1>5, <1>12 DEF Entered, Kept, mainVars
    <3> QED
      BY <1>3, <1>12, <3>1, <3>4, <3>5
  <2>2. \A g \in ToSet(q) : g.at \in {"attaching", "entering"} => Watched(q, g.of)'
    BY <1>5, <1>13 DEF Entered
  <2>3. \A t \in Servers, w \in Contents :
         entries'[t][w] # None =>
           /\ bindings'[attachments'[entries'[t][w]].binding].server = t
           /\ attachments'[entries'[t][w]].contents = w
    <3> SUFFICES ASSUME NEW t \in Servers, NEW w \in Contents, entries[t][w] # None
                 PROVE  /\ bindings'[attachments'[entries[t][w]].binding].server = t
                        /\ attachments'[entries[t][w]].contents = w
      BY <1>3
    <3>1. PICK a \in 1 .. Len(attachments) : a = entries[t][w]
      BY <1>4 DEF Typed, None
    <3>2. ServerOf(a) = t /\ attachments[a].contents = w
      BY <1>5, <3>1 DEF Entered
    <3> QED
      BY <1>12, <3>1, <3>2 DEF ServerOf
  <2> QED
    BY <1>9, <2>1, <2>2, <2>3 DEF Entered, ServerOf, Closes
<1>15. Shaped(stack)'
  <2>1. Shaped(q)' /\ q = stack'
    BY <1>5, <1>11, <1>14 DEF Shaped
  <2> QED
    BY <2>1, ShapedNext
<1>16. Typed'
  <2>1. \A j \in 1 .. Len(requests') : requests'[j].by \in 0 .. Len(bindings')
    BY <1>4, <1>6, <1>8, <1>10 DEF Typed
  <2>2. \A a \in 1 .. Len(attachments') :
          /\ attachments'[a].binding \in 1 .. Len(bindings')
          /\ HasSession(a)' => attachments'[a].session[1] = attachments'[a].contents
    BY <1>4, <1>8, <1>9, <1>10, <1>12 DEF Typed
  <2>3. attachments' \in Seq(AttachmentSet)
    BY <1>8 DEF SameAttachments
  <2> QED
    BY <1>3, <1>4, <1>6, <1>9, <1>10, <2>1, <2>2, <2>3 DEF Typed, HasSession, mainVars
<1>17. Held'
  <2>1. ASSUME NEW j \in 1 .. Len(requests), requests'[j].at \in Busy
        PROVE  /\ requests'[j].by # None
               /\ \E a \in 1 .. Len(attachments) :
                    /\ attachments'[a].session = requests'[j].from
                    /\ ServerOf(a)' = bindings'[requests'[j].by].server
    <3>1. CASE j = i
      BY <1>3, <1>6, <1>8, <1>12, <2>1, <3>1 DEF mainVars
    <3>2. CASE j # i
      <4>1. requests'[j] = requests[j] /\ requests[j].from \in Documents
        BY <1>4, <1>6, <3>2 DEF RequestSet
      <4>2. requests[j].by # None
        BY <2>1, <4>1 DEF Base, Held
      <4>3. PICK a \in 1 .. Len(attachments) :
              /\ attachments[a].session = requests[j].from
              /\ ServerOf(a) = bindings[requests[j].by].server
        BY <2>1, <4>1 DEF Base, Held
      <4>4. HasSession(a)
        BY <4>1, <4>3, DocumentParts DEF HasSession
      <4>5. attachments'[a].session = requests[j].from
        BY <1>8, <4>3, <4>4
      <4> QED
        BY <1>3, <1>12, <4>1, <4>2, <4>3, <4>5 DEF mainVars
    <3> QED
      BY <3>1, <3>2
  <2> QED
    BY <1>6, <1>9, <2>1 DEF Held
<1>18. Asked'
  <2>1. \A n : BoundTo(n)' = BoundTo(n)
    BY <1>3 DEF BoundTo, mainVars
  <2>2. next.kind # "handshake" => BoundTo(next.namespace) # {}
    BY <1>2 DEF Base, Asked
  <2> QED
    BY <1>6, <1>8, <2>1, <2>2 DEF Base, Asked
<1>19. AnsweredOnce'
  <2>1. next.answers = IF next.at \in {"sent", "working"} THEN 0 ELSE 1
    BY <1>2
  <2> QED
    BY <1>4, <1>6, <2>1 DEF Base, AnsweredOnce
<1> QED
  BY <1>15, <1>16, <1>17, <1>18, <1>19 DEF Inv, Base

-----------------------------------------------------------------------------
(* The theorems *)

LEMMA InitInv == Init => Inv
<1> SUFFICES ASSUME Init
             PROVE  Inv
  OBVIOUS
<1>1. /\ bindings = <<>> /\ attachments = <<>> /\ requests = <<>> /\ stack = <<>>
      /\ Len(bindings) = 0 /\ Len(attachments) = 0 /\ Len(requests) = 0
      /\ DOMAIN bindings = {} /\ DOMAIN attachments = {} /\ DOMAIN requests = {}
  BY DEF Init
<1>2. ToSet(stack) = {} /\ stack \in Seq(FrameSet) /\ Len(stack) = 0
  BY <1>1, ValuesEmpty
<1>3. Typed
  <2>1. shown \in [Contents -> 0 .. NumDocuments]
    BY BoundAssumption DEF Init
  <2>2. /\ bindings \in Seq(BindingSet) /\ attachments \in Seq(AttachmentSet)
        /\ requests \in Seq(RequestSet)
    BY <1>1
  <2>3. /\ receivers \in [Namespaces -> [Channels -> SUBSET (1 .. Len(bindings))]]
        /\ takeovers \in [Namespaces -> 0 .. Len(bindings)]
        /\ entries \in [Servers -> [Contents -> 0 .. Len(attachments)]]
        /\ retired \in [Servers -> SUBSET Documents] /\ ended \subseteq Servers
    BY <1>1 DEF Init, None
  <2> QED
    BY <1>1, <2>1, <2>2, <2>3 DEF Typed
<1>4. Held /\ Asked /\ AnsweredOnce
  BY <1>1 DEF Held, Asked, AnsweredOnce
<1>5. Framed(stack)
  BY <1>2 DEF Framed, Apart
<1>6. Owners(stack)
  <2>1. \A n : BoundTo(n) = {}
    BY <1>1 DEF BoundTo
  <2>2. \A n : Newest(BoundTo(n)) = {}
    BY <2>1 DEF Newest
  <2> QED
    BY <1>1, <2>1, <2>2 DEF Owners, Init
<1>7. Entered(stack)
  BY <1>1, <1>2 DEF Entered, Init
<1> QED
  BY <1>3, <1>4, <1>5, <1>6, <1>7 DEF Inv, Base, Shaped

LEMMA NextInv == Inv /\ [Next]_vars => Inv'
<1> SUFFICES ASSUME Inv, [Next]_vars
             PROVE  Inv'
  OBVIOUS
<1>1. /\ Base /\ Shaped(stack)
      /\ DOMAIN bindings = 1 .. Len(bindings)
      /\ DOMAIN attachments = 1 .. Len(attachments)
      /\ DOMAIN requests = 1 .. Len(requests)
  BY Domains DEF Inv, Base
<1>2. CASE Return
  BY <1>1, <1>2, RetiredInv, ServerAttachInv, EnterInv, DisposingInv, ReleasingInv, ClosingInv
     DEF Return
<1>3. CASE \E n \in Namespaces, s \in Servers : Bind(n, s)
  BY <1>1, <1>3, BindInv
<1>4. CASE \E b \in DOMAIN bindings :
             Dispose(b) \/ \E w \in Contents : Attach(b, w) \/ DetachEmpty(b, w)
  BY <1>1, <1>4, DisposeInv, AttachInv, DetachEmptyInv
<1>5. CASE \E a \in DOMAIN attachments : Detach(a) \/ Hear(a)
  BY <1>1, <1>5, DetachInv, HearInv
<1>6. CASE \E s \in Servers : ServerDispose(s)
  BY <1>1, <1>6, ServerDisposeInv
<1>7. CASE \E w \in Contents : Navigate(w) \/ Destroy(w)
  BY <1>1, <1>7, DocumentInv
<1>8. CASE \E w \in Contents, n \in Namespaces, kind \in Kinds : Send(w, n, kind)
  BY <1>1, <1>8, SendInv
<1>9. CASE \E i \in DOMAIN requests : Deliver(i) \/ Finish(i)
  BY <1>1, <1>9, DeliverInv, FinishInv
<1>10. CASE UNCHANGED vars
  <2>1. UNCHANGED <<mainVars, serverVars, stack>> /\ shown' \in [Contents -> 0 .. NumDocuments]
    BY <1>1, <1>10 DEF vars, Base, Typed
  <2> QED
    BY <1>1, <2>1, ShownInv
<1> QED
  BY <1>2, <1>3, <1>4, <1>5, <1>6, <1>7, <1>8, <1>9, <1>10 DEF Next

\* The parts of the invariant together: Spec never leaves it.
THEOREM InvCorrect == Spec => []Inv
BY InitInv, NextInv, PTL DEF Spec

\* Between calls no binding is being disposed and no server closed.
LEMMA NothingInProgress ==
  ASSUME Idle
  PROVE  /\ \A b : ~Leaves(stack, b) /\ ~Disposes(stack, b)
         /\ \A s : ~Closes(stack, s)
BY ValuesEmpty DEF Idle, Leaves, Disposes, Closes

LEMMA InvChannels == Inv => ChannelsBound
<1> SUFFICES ASSUME Inv
             PROVE  ChannelsBound
  OBVIOUS
<1>1. /\ Typed /\ DOMAIN bindings = 1 .. Len(bindings) /\ Len(bindings) \in Nat
      /\ DOMAIN attachments = 1 .. Len(attachments) /\ DOMAIN requests = 1 .. Len(requests)
      /\ \A b \in 1 .. Len(bindings) : bindings[b] \in BindingSet
      /\ \A i \in 1 .. Len(requests) : requests[i] \in RequestSet
  BY Domains DEF Inv, Base
<1>2. Owners(stack)
  BY DEF Inv, Shaped
<1>3. TypeOK
  <2>1. receivers \in [Namespaces -> [Channels -> SUBSET (DOMAIN bindings)]]
    BY <1>1 DEF Typed
  <2>2. takeovers \in [Namespaces -> {None} \cup DOMAIN bindings]
    <3>1. 0 .. Len(bindings) \subseteq {None} \cup DOMAIN bindings
      BY <1>1 DEF None
    <3>2. takeovers \in [Namespaces -> 0 .. Len(bindings)]
      BY <1>1 DEF Typed
    <3> QED
      BY <3>1, <3>2
  <2>3. \A b \in DOMAIN bindings :
          /\ bindings[b].namespace \in Namespaces /\ bindings[b].server \in Servers
          /\ bindings[b].attached \in [Contents -> Nothing .. Len(attachments)]
          /\ bindings[b].overwritten \subseteq Int
    BY <1>1 DEF Typed, BindingSet
  <2>4. \A a \in DOMAIN attachments :
          \/ attachments[a].session = NoSession
          \/ attachments[a].session[1] = attachments[a].contents
    BY <1>1 DEF Typed, HasSession
  <2>5. \A i \in DOMAIN requests :
          /\ requests[i].at \in {"sent", "working", "open", "done"}
          /\ requests[i].answers \in Nat
    BY <1>1 DEF RequestSet, Busy
  <2> QED
    BY <1>1, <2>1, <2>2, <2>3, <2>4, <2>5 DEF Typed, TypeOK
<1>4. OneReceiver
  <2>1. ASSUME NEW n \in Namespaces
        PROVE  \A c \in Channels : receivers[n][c] = Newest(BoundTo(n))
    BY <1>2 DEF Owners
  <2>2. ASSUME NEW n \in Namespaces, Idle
        PROVE  {takeovers[n]} \ {None} = {b \in Newest(BoundTo(n)) : bindings[b].disposed}
    <3>1. ASSUME takeovers[n] # None
          PROVE  /\ takeovers[n] \in Newest(BoundTo(n))
                 /\ bindings[takeovers[n]].disposed
      <4>1. PICK b \in 1 .. Len(bindings) : b = takeovers[n]
        BY <1>1, <3>1 DEF Typed, None
      <4>2. bindings[b].namespace = n /\ IsNewest(b) /\ bindings[b].disposed
        BY <1>2, <3>1, <4>1 DEF Owners, IsNewest
      <4> QED
        BY <1>1, <4>1, <4>2 DEF Newest, BoundTo, IsNewest
    <3>2. ASSUME NEW b \in Newest(BoundTo(n)), bindings[b].disposed
          PROVE  b = takeovers[n] /\ b # None
      <4>1. b \in 1 .. Len(bindings) /\ bindings[b].namespace = n /\ IsNewest(b)
        BY <1>1 DEF Newest, BoundTo, IsNewest
      <4>2. ~Leaves(stack, b)
        BY <2>2, NothingInProgress
      <4> QED
        BY <1>1, <1>2, <3>2, <4>1, <4>2 DEF Owners, None
    <3> QED
      BY <3>1, <3>2
  <2> QED
    BY <2>1, <2>2 DEF OneReceiver
<1> QED
  BY <1>3, <1>4 DEF ChannelsBound

\* Whatever is bound, attached and disposed, and in whatever order the calls nest, each
\* channel of a namespace has exactly one receiver, its newest binding, and between calls
\* a disposed one can be taken over and one in use cannot.
THEOREM ChannelsBoundCorrect == Spec => []ChannelsBound
BY InvCorrect, InvChannels, PTL

\* Every request is answered exactly once, or is a call at work or on its way: no two
\* servers answer, and a binding that is disposed answers for the next.
THEOREM AnsweredOnceCorrect == Spec => []AnsweredOnce
<1>1. Inv => AnsweredOnce
  BY DEF Inv, Base
<1> QED
  BY <1>1, InvCorrect, PTL

LEMMA InvWork == Inv => WorkIsHeld
<1> SUFFICES ASSUME Inv, Idle
             PROVE  /\ \A i \in DOMAIN requests :
                         requests[i].at \in {"working", "open"} =>
                           \E a \in DOMAIN attachments :
                             attachments[a].session = requests[i].from
                             /\ ServerOf(a) = bindings[requests[i].by].server
                    /\ \A a \in DOMAIN attachments :
                         HasSession(a) =>
                           /\ IsEntry(a)
                           /\ Kept(a)
                           /\ ~bindings[attachments[a].binding].disposed
  BY DEF WorkIsHeld, Kept
<1>1. /\ Held
      /\ DOMAIN attachments = 1 .. Len(attachments)
      /\ DOMAIN requests = 1 .. Len(requests)
  BY Domains DEF Inv, Base
<1>2. Entered(stack)
  BY DEF Inv, Shaped
<1>3. ASSUME NEW i \in DOMAIN requests, requests[i].at \in {"working", "open"}
      PROVE  \E a \in DOMAIN attachments :
               attachments[a].session = requests[i].from
               /\ ServerOf(a) = bindings[requests[i].by].server
  BY <1>1, <1>3 DEF Held, Busy
<1>4. ASSUME NEW a \in 1 .. Len(attachments), HasSession(a)
      PROVE  IsEntry(a) /\ Kept(a) /\ ~bindings[attachments[a].binding].disposed
  <2>1. IsEntry(a) /\ ServerOf(a) \notin ended
    BY <1>2, <1>4, NothingInProgress DEF Entered
  <2>2. Kept(a) /\ Watched(stack, attachments[a].binding)
    BY <1>2, <2>1 DEF Entered
  <2> QED
    BY <2>1, <2>2, NothingInProgress DEF Watched, ServerOf
<1> QED
  BY <1>1, <1>3, <1>4

\* Work goes on only in the session of an attachment of its server, and a session is of the
\* entry its server still has, of a binding that is not disposed and that can still detach
\* it, or lost its detach function to an attach() that the attachment overtook.
THEOREM WorkIsHeldCorrect == Spec => []WorkIsHeld
BY InvCorrect, InvWork, PTL
=============================================================================
