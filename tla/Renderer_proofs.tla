-------------------------- MODULE Renderer_proofs --------------------------
(***************************************************************************)
(* Theorems about what a Renderer asks of Main: its streams, of            *)
(* StreamSession.tla, and its calls, of RpcClient.tla, one after the       *)
(* other; the two share no state.                                          *)
(*                                                                         *)
(* The streams are for every number of keys, ids, values and slots, and a  *)
(* sink of the Renderer that opens no stream: what happens when it does is *)
(* the counterexample of StreamSessionReentered.  The calls are for every  *)
(* number of calls and signals, every depth and whatever sink and          *)
(* transport call.                                                         *)
(***************************************************************************)
EXTENDS StreamSession, RpcClient, SequenceLemmas

GenerationSet ==
  [key : Keys, at : {"opening", "waiting", "active", "ended"}, heard : Nat \cup {-1}]
ConsumerSet ==
  [at : {"unknown", "pending", "open", "closed"}, next : Nat, value : BOOLEAN,
   ended : BOOLEAN, inFlight : Nat, values : 0 .. MaxValues]
CommandSet ==
  {e \in [type : {"subscribe", "unsubscribe", "acknowledge"}, id : Ids, sequence : Nat] :
     e.type = "unsubscribe" => e.sequence = None}
MessageSet == [type : {"subscribed", "batch", "end"}, id : Ids, sequence : Nat]

Types ==
  /\ generations \in Seq(GenerationSet) /\ Len(generations) <= NumSubscriptions
  /\ opening \in Seq(Ids)
  /\ handling \in Seq(MessageSet) /\ Len(handling) <= 1
  /\ disposed \in BOOLEAN /\ retired \in BOOLEAN
  /\ control \in Seq(CommandSet) /\ stream \in Seq(MessageSet)
  /\ watermark \in 0 .. NumSubscriptions
  /\ consumers \in [Ids -> ConsumerSet]

\* At most the newest generation is being opened.
OpensLast ==
  /\ opening = <<>> \/ (Len(generations) # 0 /\ opening = <<Len(generations)>>)
  /\ \A id \in 1 .. Len(generations) :
       generations[id].at = "opening" => opening # <<>> /\ id = Len(generations)

\* What the Renderer has heard of a generation.
Heard ==
  /\ disposed => \A id \in 1 .. Len(generations) : generations[id].at = "ended"
  /\ \A id \in 1 .. Len(generations) :
       /\ generations[id].at \in {"opening", "waiting"} => generations[id].heard = -1
       /\ generations[id].at = "active" => generations[id].heard >= 0
  /\ \A i \in 1 .. Len(handling) : handling[i].id <= Len(generations)

\* The commands that ask for a subscription come in the order of their ids.
InSequence(q, w) ==
  \A i \in 1 .. Len(q) : q[i].type = "subscribe" =>
    /\ q[i].id > w
    /\ \A j \in 1 .. Len(q) : q[j].type = "subscribe" /\ i < j => q[i].id < q[j].id

Ordered ==
  /\ InSequence(control, watermark)
  /\ watermark <= Len(generations) /\ (opening # <<>> => watermark < Len(generations))

\* The sequence numbers and values of a subscription of Main.
Counted(c) ==
  /\ c.at = "unknown" => c = Unknown
  /\ c.at = "pending" => c = [Unknown EXCEPT !.at = "pending"]
  /\ c.at = "open" =>
       /\ c.next >= 1 /\ c.next <= c.values + 1 /\ (c.value => c.next <= c.values)
       /\ c.inFlight < c.next
  /\ c.next <= MaxValues + 2 /\ c.inFlight <= MaxValues

Holds(c) == c.at \in {"pending", "open"}

\* The messages on q for a generation that has heard h, from the consumer c.
Streamed(q, id, h, c) ==
  /\ \A i \in 1 .. Len(q) : q[i].id = id =>
       /\ q[i].sequence > h
       /\ \A n \in h + 1 .. q[i].sequence :
            \E j \in 1 .. i : q[j].id = id /\ q[j].sequence = n
       /\ \A j \in 1 .. Len(q) : q[j].id = id /\ i < j => q[i].sequence < q[j].sequence
       /\ (q[i].type = "subscribed") = (q[i].sequence = 0)
       /\ q[i].type = "end" =>
            c.at = "closed" /\ \A j \in 1 .. Len(q) : q[j].id = id => j <= i
       /\ c.at # "closed" => q[i].sequence < c.next
  /\ c.at # "closed" =>
       /\ h < c.next
       /\ \A n \in h + 1 .. c.next - 1 :
            \E j \in 1 .. Len(q) : q[j].id = id /\ q[j].sequence = n
  /\ c.at = "closed" => \E j \in 1 .. Len(q) : q[j].id = id /\ q[j].type = "end"

Absent(q, id) == \A i \in 1 .. Len(q) : q[i].id # id

\* The commands on q about an id.
Asks(q, id) == \E i \in 1 .. Len(q) : q[i].type = "subscribe" /\ q[i].id = id
Leaves(q, id) == \E i \in 1 .. Len(q) : q[i].type = "unsubscribe" /\ q[i].id = id

\* The batch that the consumer c waits for is on the stream s, with the subscribers h or
\* acknowledged on q.
Answers(s, h, q, id, c) ==
  c.inFlight # None =>
    \/ \E i \in 1 .. Len(s) : s[i] = Message("batch", id, c.inFlight)
    \/ h = <<Message("batch", id, c.inFlight)>>
    \/ \E i \in 1 .. Len(q) : q[i] = Command("acknowledge", id, c.inFlight)

\* A generation that is not in the map: what Main has or will have for it is left.
Left(q, id, c) ==
  /\ \A i \in 1 .. Len(q) : q[i].type = "subscribe" /\ q[i].id = id =>
       \E j \in 1 .. Len(q) : i < j /\ q[j].type = "unsubscribe" /\ q[j].id = id
  /\ Holds(c) => Leaves(q, id)

\* A generation g in the map: Main has been asked, and answers.
Joined(g, q, s, h, id, c) ==
  /\ ~Leaves(q, id)
  /\ Streamed(s, id, g.heard, c)
  /\ g.at # "opening" => c.at # "unknown" \/ Asks(q, id)
  /\ Holds(c) => Answers(s, h, q, id, c)

InMap(gs, id) == id \in 1 .. Len(gs) /\ gs[id].at # "ended"

\* Both ends, and what is on its way between them, agree about an id.
Links(gs, op, q, s, h, id, c) ==
  /\ Counted(c)
  /\ id > Len(gs) => c = Unknown /\ Absent(q, id) /\ Absent(s, id)
  /\ op = <<id>> => c = Unknown /\ ~Asks(q, id)
  /\ Asks(q, id) => c = Unknown
  /\ ~InMap(gs, id) => Left(q, id, c)
  /\ InMap(gs, id) => Joined(gs[id], q, s, h, id, c)

Linked(id) == Links(generations, opening, control, stream, handling, id, consumers[id])

Inv == Types /\ OpensLast /\ Heard /\ Ordered /\ \A id \in Ids : Linked(id)

-----------------------------------------------------------------------------
(* Messages, commands and consumers *)

LEMMA MessageMade ==
  ASSUME NEW type \in {"subscribed", "batch", "end"}, NEW id \in Ids, NEW n \in Nat
  PROVE  /\ Message(type, id, n) \in MessageSet
         /\ Message(type, id, n).type = type /\ Message(type, id, n).id = id
         /\ Message(type, id, n).sequence = n
BY DEF Message, MessageSet

LEMMA CommandMade ==
  ASSUME NEW type \in {"subscribe", "unsubscribe", "acknowledge"}, NEW id \in Ids, NEW n \in Nat,
         type = "unsubscribe" => n = None
  PROVE  /\ Command(type, id, n) \in CommandSet
         /\ Command(type, id, n).type = type /\ Command(type, id, n).id = id
         /\ Command(type, id, n).sequence = n
BY DEF Command, CommandSet

LEMMA MessageParts ==
  ASSUME NEW e \in MessageSet
  PROVE  e.type \in {"subscribed", "batch", "end"} /\ e.id \in Ids /\ e.sequence \in Nat
BY DEF MessageSet

LEMMA CommandParts ==
  ASSUME NEW e \in CommandSet
  PROVE  /\ e.type \in {"subscribe", "unsubscribe", "acknowledge"} /\ e.id \in Ids
         /\ e.sequence \in Nat
BY DEF CommandSet

LEMMA ConsumerParts ==
  ASSUME NEW c \in ConsumerSet
  PROVE  /\ c.at \in {"unknown", "pending", "open", "closed"} /\ c.next \in Nat
         /\ c.value \in BOOLEAN /\ c.ended \in BOOLEAN /\ c.inFlight \in Nat
         /\ c.values \in 0 .. MaxValues /\ c.values \in Nat /\ c.values <= MaxValues
BY BoundAssumption DEF ConsumerSet

\* What Append does to the places of a sequence, in the form the lemmas use.
LEMMA Places ==
  ASSUME NEW S, NEW q \in Seq(S), NEW e \in S, NEW r, Pushed(q, r, e)
  PROVE  /\ r \in Seq(S) /\ Len(q) \in Nat /\ Len(r) = Len(q) + 1
         /\ \A i \in 1 .. Len(q) : i \in 1 .. Len(r) /\ r[i] = q[i] /\ q[i] \in S
         /\ Len(r) \in 1 .. Len(r) /\ r[Len(r)] = e
         /\ \A i \in 1 .. Len(r) : i \in 1 .. Len(q) \/ i = Len(r)
BY Appended DEF Pushed

\* What Tail does.
Dropped(q, r, f) == q # <<>> /\ r = Tail(q) /\ f = Head(q)

LEMMA PlacesTail ==
  ASSUME NEW S, NEW q \in Seq(S), NEW r, NEW f, Dropped(q, r, f)
  PROVE  /\ r \in Seq(S) /\ Len(r) \in Nat /\ Len(q) = Len(r) + 1
         /\ f \in S /\ 1 \in 1 .. Len(q) /\ q[1] = f
         /\ \A i \in 1 .. Len(r) : i + 1 \in 1 .. Len(q) /\ r[i] = q[i + 1] /\ r[i] \in S
         /\ \A i \in 1 .. Len(q) : i = 1 \/ (i - 1 \in 1 .. Len(r) /\ q[i] = r[i - 1])
<1>1. q # <<>> /\ r = Tail(q) /\ f = Head(q)
  BY DEF Dropped
<1>2. /\ f \in S /\ f = q[1] /\ r \in Seq(S) /\ Len(r) = Len(q) - 1
      /\ \A i \in 1 .. Len(r) : r[i] = q[i + 1]
  BY <1>1, QueueParts
<1>3. Len(q) \in Nat \ {0}
  BY <1>1, EmptySeq
<1>4. Len(r) \in Nat /\ Len(q) = Len(r) + 1
  BY <1>2, <1>3
<1>5. \A i \in 1 .. Len(r) : i + 1 \in 1 .. Len(q) /\ r[i] \in S
  BY <1>2, <1>4
<1>6. \A i \in 1 .. Len(q) : i = 1 \/ (i - 1 \in 1 .. Len(r) /\ (i - 1) + 1 = i)
  BY <1>4
<1>7. \A i \in 1 .. Len(q) : i = 1 \/ (i - 1 \in 1 .. Len(r) /\ q[i] = r[i - 1])
  BY <1>2, <1>6
<1> QED
  BY <1>2, <1>4, <1>5, <1>7

\* Two more values.
LEMMA TwoAppended ==
  ASSUME NEW S, NEW q \in Seq(S), NEW d \in S, NEW e \in S
  PROVE  q \o <<d, e>> = Append(Append(q, d), e) /\ Append(q, d) \in Seq(S)
OBVIOUS

LEMMA OneAppended ==
  ASSUME NEW S, NEW q \in Seq(S), NEW d \in S
  PROVE  q \o <<d>> = Append(q, d)
OBVIOUS

-----------------------------------------------------------------------------
(* The messages for a generation *)

\* A message for another one.
LEMMA StreamedOther ==
  ASSUME NEW q \in Seq(MessageSet), NEW e \in MessageSet, NEW r, Pushed(q, r, e),
         NEW id \in Ids, NEW h \in Nat \cup {-1}, NEW c \in ConsumerSet,
         Streamed(q, id, h, c), e.id # id
  PROVE  Streamed(r, id, h, c)
<1>1. /\ r \in Seq(MessageSet) /\ Len(q) \in Nat /\ Len(r) = Len(q) + 1
      /\ \A i \in 1 .. Len(q) : i \in 1 .. Len(r) /\ r[i] = q[i]
      /\ \A i \in 1 .. Len(r) : r[i].id = id => i \in 1 .. Len(q)
  BY Places
<1>2. \A i \in 1 .. Len(q) : \A j \in 1 .. i : j \in 1 .. Len(q)
  BY <1>1
<1>3. ASSUME NEW i \in 1 .. Len(r), r[i].id = id
      PROVE  /\ r[i].sequence > h
             /\ \A n \in h + 1 .. r[i].sequence :
                  \E j \in 1 .. i : r[j].id = id /\ r[j].sequence = n
             /\ \A j \in 1 .. Len(r) : r[j].id = id /\ i < j => r[i].sequence < r[j].sequence
             /\ (r[i].type = "subscribed") = (r[i].sequence = 0)
             /\ r[i].type = "end" =>
                  c.at = "closed" /\ \A j \in 1 .. Len(r) : r[j].id = id => j <= i
             /\ c.at # "closed" => r[i].sequence < c.next
  <2>1. i \in 1 .. Len(q) /\ r[i] = q[i] /\ q[i].id = id
    BY <1>1, <1>3
  <2>2. /\ q[i].sequence > h
        /\ \A n \in h + 1 .. q[i].sequence :
             \E j \in 1 .. i : q[j].id = id /\ q[j].sequence = n
        /\ \A j \in 1 .. Len(q) : q[j].id = id /\ i < j => q[i].sequence < q[j].sequence
        /\ (q[i].type = "subscribed") = (q[i].sequence = 0)
        /\ q[i].type = "end" =>
             c.at = "closed" /\ \A j \in 1 .. Len(q) : q[j].id = id => j <= i
        /\ c.at # "closed" => q[i].sequence < c.next
    BY <2>1 DEF Streamed
  <2>3. \A n \in h + 1 .. r[i].sequence : \E j \in 1 .. i : r[j].id = id /\ r[j].sequence = n
    BY <1>1, <1>2, <2>1, <2>2
  <2> QED
    BY <1>1, <2>1, <2>2, <2>3
<1>4. /\ c.at # "closed" =>
           /\ h < c.next
           /\ \A n \in h + 1 .. c.next - 1 :
                \E j \in 1 .. Len(r) : r[j].id = id /\ r[j].sequence = n
      /\ c.at = "closed" => \E j \in 1 .. Len(r) : r[j].id = id /\ r[j].type = "end"
  BY <1>1 DEF Streamed
<1> QED
  BY <1>3, <1>4 DEF Streamed

\* The next message of a consumer; it goes on, or this is its last one.
Follows(e, id, c, d) ==
  /\ e.id = id /\ e.sequence = c.next /\ c.at # "closed"
  /\ (e.type = "subscribed") = (e.sequence = 0)
  /\ \/ e.type # "end" /\ d.at # "closed" /\ d.next = c.next + 1
     \/ e.type = "end" /\ d.at = "closed"

LEMMA StreamedNext ==
  ASSUME NEW q \in Seq(MessageSet), NEW e \in MessageSet, NEW r, Pushed(q, r, e),
         NEW id \in Ids, NEW h \in Nat \cup {-1}, NEW c \in ConsumerSet, NEW d \in ConsumerSet,
         Streamed(q, id, h, c), Follows(e, id, c, d)
  PROVE  Streamed(r, id, h, d)
<1>1. /\ r \in Seq(MessageSet) /\ Len(q) \in Nat /\ Len(r) = Len(q) + 1
      /\ \A i \in 1 .. Len(q) : i \in 1 .. Len(r) /\ r[i] = q[i] /\ q[i] \in MessageSet
      /\ Len(r) \in 1 .. Len(r) /\ r[Len(r)] = e
      /\ \A i \in 1 .. Len(r) : i \in 1 .. Len(q) \/ i = Len(r)
  BY Places
<1>2. \A i \in 1 .. Len(q) : (\A j \in 1 .. i : j \in 1 .. Len(q)) /\ i < Len(r)
  BY <1>1
<1>3. /\ e.id = id /\ e.sequence = c.next /\ c.at # "closed"
      /\ (e.type = "subscribed") = (e.sequence = 0)
  BY DEF Follows
<1>4. /\ h < c.next /\ c.next \in Nat /\ h \in Int
      /\ \A n \in h + 1 .. c.next - 1 :
           \E j \in 1 .. Len(q) : q[j].id = id /\ q[j].sequence = n
  BY <1>3, ConsumerParts DEF Streamed
<1>5. ASSUME NEW i \in 1 .. Len(q), q[i].id = id
      PROVE  /\ q[i].sequence > h /\ q[i].sequence < c.next /\ q[i].sequence \in Nat
             /\ q[i].type # "end"
             /\ \A n \in h + 1 .. q[i].sequence :
                  \E j \in 1 .. i : q[j].id = id /\ q[j].sequence = n
             /\ \A j \in 1 .. Len(q) : q[j].id = id /\ i < j => q[i].sequence < q[j].sequence
             /\ (q[i].type = "subscribed") = (q[i].sequence = 0)
  <2>1. q[i].sequence \in Nat
    BY <1>1, MessageParts
  <2> QED
    BY <1>3, <1>5, <2>1 DEF Streamed
<1>6. \A n \in h + 1 .. e.sequence : \E j \in 1 .. Len(r) : r[j].id = id /\ r[j].sequence = n
  <2> SUFFICES ASSUME NEW n \in h + 1 .. c.next
               PROVE  \E j \in 1 .. Len(r) : r[j].id = id /\ r[j].sequence = n
    BY <1>3
  <2>1. CASE n = c.next
    BY <1>1, <1>3, <2>1
  <2>2. CASE n # c.next
    <3>1. n \in h + 1 .. c.next - 1
      BY <1>4, <2>2
    <3>2. PICK j \in 1 .. Len(q) : q[j].id = id /\ q[j].sequence = n
      BY <1>4, <3>1
    <3> QED
      BY <1>1, <3>2
  <2> QED
    BY <2>1, <2>2
<1>7. ASSUME NEW i \in 1 .. Len(r), r[i].id = id
      PROVE  /\ r[i].sequence > h
             /\ \A n \in h + 1 .. r[i].sequence :
                  \E j \in 1 .. i : r[j].id = id /\ r[j].sequence = n
             /\ \A j \in 1 .. Len(r) : r[j].id = id /\ i < j => r[i].sequence < r[j].sequence
             /\ (r[i].type = "subscribed") = (r[i].sequence = 0)
             /\ r[i].type = "end" =>
                  d.at = "closed" /\ \A j \in 1 .. Len(r) : r[j].id = id => j <= i
             /\ d.at # "closed" => r[i].sequence < d.next
  <2>1. CASE i \in 1 .. Len(q)
    <3>1. r[i] = q[i] /\ q[i].id = id
      BY <1>1, <1>7, <2>1
    <3>2. /\ q[i].sequence > h /\ q[i].sequence < c.next /\ q[i].sequence \in Nat
          /\ q[i].type # "end"
          /\ \A n \in h + 1 .. q[i].sequence :
               \E j \in 1 .. i : q[j].id = id /\ q[j].sequence = n
          /\ \A j \in 1 .. Len(q) : q[j].id = id /\ i < j => q[i].sequence < q[j].sequence
          /\ (q[i].type = "subscribed") = (q[i].sequence = 0)
      BY <1>5, <2>1, <3>1
    <3>3. \A n \in h + 1 .. r[i].sequence :
            \E j \in 1 .. i : r[j].id = id /\ r[j].sequence = n
      BY <1>1, <1>2, <2>1, <3>1, <3>2
    <3>4. \A j \in 1 .. Len(r) : r[j].id = id /\ i < j => r[i].sequence < r[j].sequence
      BY <1>1, <1>3, <3>1, <3>2
    <3>5. d.at # "closed" => r[i].sequence < d.next
      BY <1>4, <3>1, <3>2 DEF Follows
    <3> QED
      BY <3>1, <3>2, <3>3, <3>4, <3>5
  <2>2. CASE i = Len(r)
    <3>1. r[i] = e
      BY <1>1, <2>2
    <3>2. \A j \in 1 .. Len(r) : j <= i
      BY <1>1, <2>2
    <3>3. \A j \in 1 .. Len(r) : ~(i < j)
      BY <1>1, <2>2
    <3>4. d.at # "closed" => e.sequence < d.next
      BY <1>3, <1>4 DEF Follows
    <3>5. e.type = "end" => d.at = "closed"
      BY DEF Follows
    <3> QED
      BY <1>3, <1>4, <1>6, <2>2, <3>1, <3>2, <3>3, <3>4, <3>5
  <2> QED
    BY <1>1, <2>1, <2>2
<1>8. d.at # "closed" =>
        /\ h < d.next
        /\ \A n \in h + 1 .. d.next - 1 :
             \E j \in 1 .. Len(r) : r[j].id = id /\ r[j].sequence = n
  <2> SUFFICES ASSUME d.at # "closed"
               PROVE  /\ h < d.next
                      /\ \A n \in h + 1 .. d.next - 1 :
                           \E j \in 1 .. Len(r) : r[j].id = id /\ r[j].sequence = n
    OBVIOUS
  <2>1. d.next = c.next + 1
    BY DEF Follows
  <2>2. d.next - 1 = c.next /\ h < d.next
    BY <1>4, <2>1
  <2> QED
    BY <1>3, <1>6, <2>2
<1>9. d.at = "closed" => \E j \in 1 .. Len(r) : r[j].id = id /\ r[j].type = "end"
  BY <1>1, <1>3 DEF Follows
<1> QED
  BY <1>7, <1>8, <1>9 DEF Streamed

\* A change of the consumer that the messages do not show.
LEMMA StreamedAs ==
  ASSUME NEW q, NEW id, NEW h, NEW c, NEW d, Streamed(q, id, h, c),
         d.at = "closed" <=> c.at = "closed", d.next = c.next
  PROVE  Streamed(q, id, h, d)
BY DEF Streamed

\* No messages for a consumer that is not known.
LEMMA StreamedNone ==
  ASSUME NEW q \in Seq(MessageSet), NEW id \in Ids, Absent(q, id)
  PROVE  Streamed(q, id, -1, Unknown)
BY DEF Streamed, Unknown, Absent

\* The next message for a generation is the one after those it has heard.
LEMMA StreamedHead ==
  ASSUME NEW q \in Seq(MessageSet), NEW r, NEW f, Dropped(q, r, f),
         NEW id \in Ids, NEW h \in Nat \cup {-1}, NEW c, Streamed(q, id, h, c), f.id = id
  PROVE  /\ f.sequence = h + 1 /\ ((f.type = "subscribed") = (f.sequence = 0))
         /\ f.type = "end" => c.at = "closed"
<1>1. f \in MessageSet /\ 1 \in 1 .. Len(q) /\ q[1] = f
  BY PlacesTail
<1>2. h \in Int /\ f.sequence \in Nat
  BY <1>1, MessageParts
<1>3. /\ f.sequence > h
      /\ \A n \in h + 1 .. f.sequence : \E j \in 1 .. 1 : q[j].id = id /\ q[j].sequence = n
      /\ (f.type = "subscribed") = (f.sequence = 0)
      /\ f.type = "end" => c.at = "closed"
  BY <1>1 DEF Streamed
<1>4. h + 1 \in h + 1 .. f.sequence
  BY <1>2, <1>3
<1>5. q[1].sequence = h + 1
  BY <1>3, <1>4
<1> QED
  BY <1>1, <1>3, <1>5

\* The Renderer takes it, or one for another generation.
LEMMA StreamedRest ==
  ASSUME NEW q \in Seq(MessageSet), NEW r, NEW f, Dropped(q, r, f),
         NEW id \in Ids, NEW h \in Nat \cup {-1}, NEW c \in ConsumerSet,
         Streamed(q, id, h, c),
         NEW g \in Nat \cup {-1},
         \/ f.id # id /\ g = h
         \/ f.id = id /\ g = f.sequence /\ f.type # "end"
  PROVE  Streamed(r, id, g, c)
<1>1. /\ r \in Seq(MessageSet) /\ Len(r) \in Nat /\ Len(q) = Len(r) + 1
      /\ f \in MessageSet /\ 1 \in 1 .. Len(q) /\ q[1] = f
      /\ \A i \in 1 .. Len(r) : i + 1 \in 1 .. Len(q) /\ r[i] = q[i + 1] /\ r[i] \in MessageSet
      /\ \A i \in 1 .. Len(q) : i = 1 \/ (i - 1 \in 1 .. Len(r) /\ q[i] = r[i - 1])
  BY PlacesTail
<1>2. h \in Int /\ g \in Int /\ f.sequence \in Nat
  BY <1>1, MessageParts
<1>3. \A i \in 1 .. Len(r) : r[i].sequence \in Nat
  BY <1>1, MessageParts
<1>4. f.id = id => g = h + 1
  BY StreamedHead
<1>5. ASSUME NEW j \in 1 .. Len(q), NEW n \in Int, q[j].id = id, q[j].sequence = n, n > g
      PROVE  j # 1 /\ j - 1 \in 1 .. Len(r) /\ r[j - 1].id = id /\ r[j - 1].sequence = n
  <2>1. j # 1
    BY <1>1, <1>2, <1>5
  <2> QED
    BY <1>1, <1>5, <2>1
<1>6. ASSUME NEW i \in 1 .. Len(r), r[i].id = id
      PROVE  /\ r[i].sequence > g
             /\ \A n \in g + 1 .. r[i].sequence :
                  \E j \in 1 .. i : r[j].id = id /\ r[j].sequence = n
             /\ \A j \in 1 .. Len(r) : r[j].id = id /\ i < j => r[i].sequence < r[j].sequence
             /\ (r[i].type = "subscribed") = (r[i].sequence = 0)
             /\ r[i].type = "end" =>
                  c.at = "closed" /\ \A j \in 1 .. Len(r) : r[j].id = id => j <= i
             /\ c.at # "closed" => r[i].sequence < c.next
  <2> DEFINE k == i + 1
  <2>1. k \in 1 .. Len(q) /\ r[i] = q[k] /\ q[k].id = id /\ k \in Int /\ i \in Int /\ 1 < k
    BY <1>1, <1>6
  <2>2. /\ q[k].sequence > h
        /\ \A n \in h + 1 .. q[k].sequence :
             \E j \in 1 .. k : q[j].id = id /\ q[j].sequence = n
        /\ \A j \in 1 .. Len(q) : q[j].id = id /\ k < j => q[k].sequence < q[j].sequence
        /\ (q[k].type = "subscribed") = (q[k].sequence = 0)
        /\ q[k].type = "end" =>
             c.at = "closed" /\ \A j \in 1 .. Len(q) : q[j].id = id => j <= k
        /\ c.at # "closed" => q[k].sequence < c.next
    BY <2>1 DEF Streamed
  <2>3. q[k].sequence > g
    <3>1. CASE f.id # id
      BY <2>2, <3>1
    <3>2. CASE f.id = id
      BY <1>1, <2>1, <3>2 DEF Streamed
    <3> QED
      BY <3>1, <3>2
  <2>4. ASSUME NEW n \in g + 1 .. q[k].sequence
        PROVE  \E j \in 1 .. i : r[j].id = id /\ r[j].sequence = n
    <3>1. n \in h + 1 .. q[k].sequence /\ n > g /\ n \in Int
      BY <1>2, <1>3, <1>4, <2>1
    <3>2. PICK j \in 1 .. k : q[j].id = id /\ q[j].sequence = n
      BY <2>2, <3>1
    <3>3. j \in 1 .. Len(q)
      BY <1>1, <2>1
    <3>4. j # 1 /\ j - 1 \in 1 .. Len(r) /\ r[j - 1].id = id /\ r[j - 1].sequence = n
      BY <1>5, <3>1, <3>2, <3>3
    <3>5. j - 1 \in 1 .. i
      BY <2>1, <3>3, <3>4
    <3> QED
      BY <3>4, <3>5
  <2>5. ASSUME NEW j \in 1 .. Len(r), r[j].id = id
        PROVE  /\ i < j => r[i].sequence < r[j].sequence
               /\ q[k].type = "end" => j <= i
    <3>1. j + 1 \in 1 .. Len(q) /\ r[j] = q[j + 1] /\ j \in Int
      BY <1>1
    <3>2. i < j => k < j + 1
      BY <2>1, <3>1
    <3>3. j + 1 <= k => j <= i
      BY <2>1, <3>1
    <3> QED
      BY <2>1, <2>2, <2>5, <3>1, <3>2, <3>3
  <2> HIDE DEF k
  <2> QED
    BY <2>1, <2>2, <2>3, <2>4, <2>5
<1>7. c.at # "closed" =>
        /\ g < c.next
        /\ \A n \in g + 1 .. c.next - 1 :
             \E j \in 1 .. Len(r) : r[j].id = id /\ r[j].sequence = n
  <2> SUFFICES ASSUME c.at # "closed"
               PROVE  /\ g < c.next
                      /\ \A n \in g + 1 .. c.next - 1 :
                           \E j \in 1 .. Len(r) : r[j].id = id /\ r[j].sequence = n
    OBVIOUS
  <2>1. /\ h < c.next /\ c.next \in Nat
        /\ \A n \in h + 1 .. c.next - 1 :
             \E j \in 1 .. Len(q) : q[j].id = id /\ q[j].sequence = n
    BY ConsumerParts DEF Streamed
  <2>2. f.id = id => f.sequence < c.next
    BY <1>1 DEF Streamed
  <2>3. g < c.next
    BY <2>1, <2>2
  <2>4. ASSUME NEW n \in g + 1 .. c.next - 1
        PROVE  \E j \in 1 .. Len(r) : r[j].id = id /\ r[j].sequence = n
    <3>1. n \in h + 1 .. c.next - 1 /\ n > g /\ n \in Int
      BY <1>2, <1>4, <2>1
    <3>2. PICK j \in 1 .. Len(q) : q[j].id = id /\ q[j].sequence = n
      BY <2>1, <3>1
    <3>3. j - 1 \in 1 .. Len(r) /\ r[j - 1].id = id /\ r[j - 1].sequence = n
      BY <1>5, <3>1, <3>2
    <3> QED
      BY <3>3
  <2> QED
    BY <2>3, <2>4
<1>8. c.at = "closed" => \E j \in 1 .. Len(r) : r[j].id = id /\ r[j].type = "end"
  <2> SUFFICES ASSUME c.at = "closed"
               PROVE  \E j \in 1 .. Len(r) : r[j].id = id /\ r[j].type = "end"
    OBVIOUS
  <2>1. PICK j \in 1 .. Len(q) : q[j].id = id /\ q[j].type = "end"
    BY DEF Streamed
  <2>2. j # 1
    BY <1>1, <2>1
  <2> QED
    BY <1>1, <2>1, <2>2
<1> QED
  BY <1>6, <1>7, <1>8 DEF Streamed

-----------------------------------------------------------------------------
(* The commands about a generation *)

\* The commands on r about id are those on q.
SameFor(q, r, id) ==
  /\ Asks(r, id) <=> Asks(q, id)
  /\ Leaves(r, id) <=> Leaves(q, id)
  /\ \A c : Left(q, id, c) => Left(r, id, c)

\* One more command about another id, or one that asks and leaves nothing.
LEMMA CommandedOther ==
  ASSUME NEW q \in Seq(CommandSet), NEW e \in CommandSet, NEW r, Pushed(q, r, e),
         NEW id \in Ids, e.id # id \/ e.type = "acknowledge"
  PROVE  SameFor(q, r, id)
<1>1. /\ Len(q) \in Nat /\ Len(r) = Len(q) + 1
      /\ \A i \in 1 .. Len(q) : i \in 1 .. Len(r) /\ r[i] = q[i]
      /\ r[Len(r)] = e
      /\ \A i \in 1 .. Len(r) : i \in 1 .. Len(q) \/ i = Len(r)
  BY Places
<1>2. /\ ~(e.type = "subscribe" /\ e.id = id)
      /\ ~(e.type = "unsubscribe" /\ e.id = id)
  OBVIOUS
<1>3. Asks(r, id) <=> Asks(q, id)
  BY <1>1, <1>2 DEF Asks
<1>4. Leaves(r, id) <=> Leaves(q, id)
  BY <1>1, <1>2 DEF Leaves
<1>5. ASSUME NEW c, Left(q, id, c)
      PROVE  Left(r, id, c)
  <2>1. ASSUME NEW i \in 1 .. Len(r), r[i].type = "subscribe", r[i].id = id
        PROVE  \E j \in 1 .. Len(r) : i < j /\ r[j].type = "unsubscribe" /\ r[j].id = id
    <3>1. i \in 1 .. Len(q) /\ q[i].type = "subscribe" /\ q[i].id = id
      BY <1>1, <1>2, <2>1
    <3>2. PICK j \in 1 .. Len(q) : i < j /\ q[j].type = "unsubscribe" /\ q[j].id = id
      BY <1>5, <3>1 DEF Left
    <3> QED
      BY <1>1, <3>2
  <2> QED
    BY <1>4, <1>5, <2>1 DEF Left
<1> QED
  BY <1>3, <1>4, <1>5 DEF SameFor

\* subscribe is sent.
LEMMA CommandedSubscribe ==
  ASSUME NEW q \in Seq(CommandSet), NEW e \in CommandSet, NEW r, Pushed(q, r, e),
         NEW id \in Ids, e.type = "subscribe", e.id = id
  PROVE  Asks(r, id) /\ (Leaves(r, id) <=> Leaves(q, id))
<1>1. /\ Len(q) \in Nat /\ Len(r) = Len(q) + 1
      /\ \A i \in 1 .. Len(q) : i \in 1 .. Len(r) /\ r[i] = q[i]
      /\ Len(r) \in 1 .. Len(r) /\ r[Len(r)] = e
      /\ \A i \in 1 .. Len(r) : i \in 1 .. Len(q) \/ i = Len(r)
  BY Places
<1> QED
  BY <1>1 DEF Asks, Leaves

\* More unsubscribes, at the end.
Unsubscribed(q, r, U) ==
  /\ Len(q) \in Nat /\ Len(r) \in Nat /\ Len(q) <= Len(r)
  /\ \A i \in 1 .. Len(q) : r[i] = q[i]
  /\ \A i \in 1 .. Len(r) : i \in 1 .. Len(q) \/ (r[i].type = "unsubscribe" /\ r[i].id \in U)
  /\ \A id \in U : \E i \in 1 .. Len(r) :
       Len(q) < i /\ r[i].type = "unsubscribe" /\ r[i].id = id

LEMMA CommandedUnsubscribed ==
  ASSUME NEW q, NEW r, NEW U, Unsubscribed(q, r, U), NEW id
  PROVE  /\ Asks(r, id) <=> Asks(q, id)
         /\ id \notin U => SameFor(q, r, id)
         /\ id \in U => \A c : Left(r, id, c)
<1>1. /\ Len(q) \in Nat /\ Len(r) \in Nat /\ Len(q) <= Len(r)
      /\ \A i \in 1 .. Len(q) : i \in 1 .. Len(r) /\ r[i] = q[i]
      /\ \A i \in 1 .. Len(r) : i \in 1 .. Len(q) \/ (r[i].type = "unsubscribe" /\ r[i].id \in U)
  BY DEF Unsubscribed
<1>2. Asks(r, id) <=> Asks(q, id)
  BY <1>1 DEF Asks
<1>3. ASSUME id \notin U
      PROVE  SameFor(q, r, id)
  <2>1. Leaves(r, id) <=> Leaves(q, id)
    BY <1>1, <1>3 DEF Leaves
  <2>2. ASSUME NEW c, Left(q, id, c)
        PROVE  Left(r, id, c)
    <3>1. ASSUME NEW i \in 1 .. Len(r), r[i].type = "subscribe", r[i].id = id
          PROVE  \E j \in 1 .. Len(r) : i < j /\ r[j].type = "unsubscribe" /\ r[j].id = id
      <4>1. i \in 1 .. Len(q) /\ q[i].type = "subscribe" /\ q[i].id = id
        BY <1>1, <3>1
      <4>2. PICK j \in 1 .. Len(q) : i < j /\ q[j].type = "unsubscribe" /\ q[j].id = id
        BY <2>2, <4>1 DEF Left
      <4> QED
        BY <1>1, <4>2
    <3> QED
      BY <2>1, <2>2, <3>1 DEF Left
  <2> QED
    BY <1>2, <2>1, <2>2 DEF SameFor
<1>4. ASSUME id \in U, NEW c
      PROVE  Left(r, id, c)
  <2>1. PICK j \in 1 .. Len(r) : Len(q) < j /\ r[j].type = "unsubscribe" /\ r[j].id = id
    BY <1>4 DEF Unsubscribed
  <2>2. \A i \in 1 .. Len(r) : r[i].type = "subscribe" => i < j
    BY <1>1, <2>1
  <2> QED
    BY <2>1, <2>2 DEF Left, Leaves
<1> QED
  BY <1>2, <1>3, <1>4

\* One unsubscribe, and the unsubscribes of a sequence of ids.
LEMMA UnsubscribedOne ==
  ASSUME NEW q \in Seq(CommandSet), NEW e \in CommandSet, NEW r, Pushed(q, r, e),
         e.type = "unsubscribe"
  PROVE  Unsubscribed(q, r, {e.id})
<1>1. /\ Len(q) \in Nat /\ Len(r) = Len(q) + 1
      /\ \A i \in 1 .. Len(q) : i \in 1 .. Len(r) /\ r[i] = q[i]
      /\ Len(r) \in 1 .. Len(r) /\ r[Len(r)] = e
      /\ \A i \in 1 .. Len(r) : i \in 1 .. Len(q) \/ i = Len(r)
  BY Places
<1>2. Len(r) \in Nat /\ Len(q) <= Len(r) /\ Len(q) < Len(r)
  BY <1>1
<1> QED
  BY <1>1, <1>2 DEF Unsubscribed

LEMMA UnsubscribedAll ==
  ASSUME NEW q \in Seq(CommandSet), NEW U \in SUBSET Ids, NEW seq \in Seq(U),
         \A id \in U : \E i \in 1 .. Len(seq) : seq[i] = id,
         NEW r, r = q \o Unsubscribes(seq)
  PROVE  r \in Seq(CommandSet) /\ Unsubscribed(q, r, U)
<1> DEFINE u == Unsubscribes(seq)
<1>1. Len(q) \in Nat /\ Len(seq) \in Nat
  OBVIOUS
<1>2. \A i \in 1 .. Len(seq) : seq[i] \in U /\ seq[i] \in Ids
  OBVIOUS
<1>3. /\ u \in Seq(CommandSet) /\ Len(u) = Len(seq)
      /\ \A i \in 1 .. Len(seq) : u[i] = Command("unsubscribe", seq[i], None)
  <2>1. \A i \in 1 .. Len(seq) : Command("unsubscribe", seq[i], None) \in CommandSet
    BY <1>2, CommandMade DEF None
  <2>2. u = [i \in 1 .. Len(seq) |-> Command("unsubscribe", seq[i], None)]
    BY DEF Unsubscribes
  <2> HIDE DEF u
  <2> QED
    BY <1>1, <2>1, <2>2
<1>4. \A i \in 1 .. Len(seq) : u[i].type = "unsubscribe" /\ u[i].id = seq[i]
  BY <1>2, <1>3, CommandMade DEF None
<1> HIDE DEF u
<1>5. r = q \o u
  BY DEF u
<1> DEFINE m == Len(q)
           n == Len(seq)
<1>6. m \in Nat /\ n \in Nat /\ Len(u) = n
  BY <1>1, <1>3
<1>7. /\ q \o u \in Seq(CommandSet) /\ Len(q \o u) = Len(q) + Len(u)
      /\ \A i \in 1 .. Len(q) + Len(u) :
           (q \o u)[i] = IF i <= Len(q) THEN q[i] ELSE u[i - Len(q)]
  <2>1. u \in Seq(CommandSet)
    BY <1>3
  <2> QED
    BY ONLY <2>1, q \in Seq(CommandSet), ConcatProperties
<1>8. /\ r \in Seq(CommandSet) /\ Len(r) = m + n
      /\ \A i \in 1 .. m + n : r[i] = IF i <= m THEN q[i] ELSE u[i - m]
  BY <1>5, <1>6, <1>7
<1>9. \A i \in 1 .. n : u[i].type = "unsubscribe" /\ u[i].id = seq[i] /\ seq[i] \in U
  BY <1>2, <1>4
<1> HIDE DEF m, n
<1>10. \A i \in 1 .. m : i \in 1 .. m + n /\ i <= m
  BY <1>6
<1>11. \A i \in 1 .. m : r[i] = q[i]
  BY <1>8, <1>10
<1>12. \A i \in 1 .. m + n : i \in 1 .. m \/ (i - m \in 1 .. n /\ ~(i <= m))
  BY <1>6
<1>13. ASSUME NEW i \in 1 .. m + n, i \notin 1 .. m
       PROVE  r[i].type = "unsubscribe" /\ r[i].id \in U
  <2>1. i - m \in 1 .. n /\ ~(i <= m)
    BY <1>12, <1>13
  <2>2. r[i] = u[i - m]
    BY <1>8, <2>1
  <2> QED
    BY <1>9, <2>1, <2>2
<1>14. \A k \in 1 .. n :
         m + k \in 1 .. m + n /\ m < m + k /\ (m + k) - m = k /\ ~(m + k <= m)
  BY <1>6
<1>15. ASSUME NEW id \in U
       PROVE  \E i \in 1 .. m + n : m < i /\ r[i].type = "unsubscribe" /\ r[i].id = id
  <2>1. PICK k \in 1 .. n : seq[k] = id
    BY DEF n
  <2>2. r[m + k] = u[k]
    BY <1>8, <1>14
  <2> QED
    BY <1>9, <1>14, <2>1, <2>2
<1>16. m + n \in Nat /\ m <= m + n
  BY <1>6
<1> QED
  BY <1>6, <1>8, <1>11, <1>13, <1>15, <1>16 DEF Unsubscribed, m

\* The ids of a set in order are all of them.
LEMMA OrderedIds ==
  ASSUME NEW U \in SUBSET Ids, NEW seq \in InOrder(U)
  PROVE  seq \in Seq(U) /\ \A id \in U : \E i \in 1 .. Len(seq) : seq[i] = id
<1>1. IsFiniteSet(U) /\ Cardinality(U) \in Nat
  <2>1. IsFiniteSet(Ids)
    BY BoundAssumption, FS_Interval DEF Ids
  <2> QED
    BY <2>1, FS_Subset, FS_CardinalityType
<1>2. seq \in [1 .. Cardinality(U) -> U] /\
      \A i, j \in 1 .. Cardinality(U) : i # j => seq[i] # seq[j]
  BY DEF InOrder, SetToSeqs
<1>3. seq \in Seq(U) /\ Len(seq) = Cardinality(U)
  BY <1>1, <1>2
<1>4. Once(seq)
  BY <1>2, <1>3 DEF Once
<1>5. ToSet(seq) \subseteq U /\ Cardinality(ToSet(seq)) = Cardinality(U)
  BY <1>3, <1>4, Values, ValuesCounted
<1>6. ToSet(seq) = U
  BY <1>1, <1>5, FS_Subset
<1> QED
  BY <1>3, <1>6, Values

\* Main takes a command.
LEMMA CommandedRest ==
  ASSUME NEW q \in Seq(CommandSet), NEW r, NEW f, Dropped(q, r, f), NEW id \in Ids
  PROVE  /\ f.id # id \/ f.type = "acknowledge" => SameFor(q, r, id)
         /\ Leaves(r, id) => Leaves(q, id)
         /\ Asks(r, id) => Asks(q, id)
         /\ f.type # "unsubscribe" /\ Leaves(q, id) => Leaves(r, id)
         /\ \A c, d : Left(q, id, c) /\ f.type = "unsubscribe" /\ ~Holds(d) => Left(r, id, d)
         /\ \A c, d : Left(q, id, c) /\ f.type = "subscribe" /\ f.id = id => Left(r, id, d)
<1>1. /\ Len(r) \in Nat /\ Len(q) = Len(r) + 1
      /\ f \in CommandSet /\ 1 \in 1 .. Len(q) /\ q[1] = f
      /\ \A i \in 1 .. Len(r) : i + 1 \in 1 .. Len(q) /\ r[i] = q[i + 1]
      /\ \A i \in 1 .. Len(q) : i = 1 \/ (i - 1 \in 1 .. Len(r) /\ q[i] = r[i - 1])
  BY PlacesTail
<1>2. Leaves(r, id) => Leaves(q, id)
  BY <1>1 DEF Leaves
<1>3. Asks(r, id) => Asks(q, id)
  BY <1>1 DEF Asks
<1>4. ~(f.type = "unsubscribe" /\ f.id = id) /\ Leaves(q, id) => Leaves(r, id)
  <2> SUFFICES ASSUME ~(f.type = "unsubscribe" /\ f.id = id), Leaves(q, id)
               PROVE  Leaves(r, id)
    OBVIOUS
  <2>1. PICK i \in 1 .. Len(q) : q[i].type = "unsubscribe" /\ q[i].id = id
    BY DEF Leaves
  <2>2. i # 1
    BY <1>1, <2>1
  <2> QED
    BY <1>1, <2>1, <2>2 DEF Leaves
<1>5. ~(f.type = "subscribe" /\ f.id = id) /\ Asks(q, id) => Asks(r, id)
  <2> SUFFICES ASSUME ~(f.type = "subscribe" /\ f.id = id), Asks(q, id)
               PROVE  Asks(r, id)
    OBVIOUS
  <2>1. PICK i \in 1 .. Len(q) : q[i].type = "subscribe" /\ q[i].id = id
    BY DEF Asks
  <2>2. i # 1
    BY <1>1, <2>1
  <2> QED
    BY <1>1, <2>1, <2>2 DEF Asks
<1>6. ASSUME NEW c, Left(q, id, c), NEW i \in 1 .. Len(r), r[i].type = "subscribe", r[i].id = id
      PROVE  \E j \in 1 .. Len(r) : i < j /\ r[j].type = "unsubscribe" /\ r[j].id = id
  <2>1. i + 1 \in 1 .. Len(q) /\ q[i + 1].type = "subscribe" /\ q[i + 1].id = id /\ i \in Nat
    BY <1>1, <1>6
  <2>2. PICK j \in 1 .. Len(q) : i + 1 < j /\ q[j].type = "unsubscribe" /\ q[j].id = id
    BY <1>6, <2>1 DEF Left
  <2>3. j # 1 /\ i < j - 1
    BY <1>1, <2>1, <2>2
  <2> QED
    BY <1>1, <2>2, <2>3
<1>7. ASSUME NEW c, NEW d, Left(q, id, c), Holds(d) => Leaves(r, id)
      PROVE  Left(r, id, d)
  BY <1>6, <1>7 DEF Left
<1>8. f.id # id \/ f.type = "acknowledge" => SameFor(q, r, id)
  <2> SUFFICES ASSUME f.id # id \/ f.type = "acknowledge" PROVE SameFor(q, r, id)
    OBVIOUS
  <2>1. ~(f.type = "unsubscribe" /\ f.id = id) /\ ~(f.type = "subscribe" /\ f.id = id)
    OBVIOUS
  <2>2. \A c : Left(q, id, c) => (Holds(c) => Leaves(r, id))
    BY <1>4, <2>1 DEF Left
  <2> QED
    BY <1>2, <1>3, <1>4, <1>5, <1>7, <2>1, <2>2 DEF SameFor
<1>9. ASSUME NEW c, NEW d, Left(q, id, c), f.type = "subscribe", f.id = id
      PROVE  Left(r, id, d)
  <2>1. PICK j \in 1 .. Len(q) : 1 < j /\ q[j].type = "unsubscribe" /\ q[j].id = id
    BY <1>1, <1>9 DEF Left
  <2>2. Leaves(q, id)
    BY <2>1 DEF Leaves
  <2>3. ~(f.type = "unsubscribe" /\ f.id = id)
    BY <1>9
  <2> QED
    BY <1>4, <1>7, <1>9, <2>2, <2>3
<1>10. f.type # "unsubscribe" /\ Leaves(q, id) => Leaves(r, id)
  BY <1>4
<1>11. \A c, d : Left(q, id, c) /\ f.type = "unsubscribe" /\ ~Holds(d) => Left(r, id, d)
  BY <1>7
<1>12. \A c, d : Left(q, id, c) /\ f.type = "subscribe" /\ f.id = id => Left(r, id, d)
  BY <1>9
<1> QED
  BY <1>2, <1>3, <1>8, <1>10, <1>11, <1>12

-----------------------------------------------------------------------------
(* The order of the ids *)

LEMMA SequenceMore ==
  ASSUME NEW q \in Seq(CommandSet), NEW e \in CommandSet, NEW r, Pushed(q, r, e),
         NEW w \in Nat, InSequence(q, w),
         e.type = "subscribe" =>
           w < e.id /\ \A i \in 1 .. Len(q) : q[i].type = "subscribe" => q[i].id < e.id
  PROVE  InSequence(r, w)
<1>1. /\ Len(q) \in Nat /\ Len(r) = Len(q) + 1
      /\ \A i \in 1 .. Len(q) : i \in 1 .. Len(r) /\ r[i] = q[i]
      /\ Len(r) \in 1 .. Len(r) /\ r[Len(r)] = e
      /\ \A i \in 1 .. Len(r) : i \in 1 .. Len(q) \/ i = Len(r)
  BY Places
<1>2. e.id \in Nat
  BY CommandParts DEF Ids
<1>3. ASSUME NEW i \in 1 .. Len(r), r[i].type = "subscribe"
      PROVE  /\ r[i].id > w
             /\ \A j \in 1 .. Len(r) : r[j].type = "subscribe" /\ i < j => r[i].id < r[j].id
  <2>1. CASE i \in 1 .. Len(q)
    <3>1. /\ q[i].id > w
          /\ \A j \in 1 .. Len(q) : q[j].type = "subscribe" /\ i < j => q[i].id < q[j].id
          /\ e.type = "subscribe" => q[i].id < e.id
      BY <1>1, <1>3, <2>1 DEF InSequence
    <3> QED
      BY <1>1, <2>1, <3>1
  <2>2. CASE i = Len(r)
    <3>1. r[i] = e /\ \A j \in 1 .. Len(r) : ~(i < j)
      BY <1>1, <2>2
    <3> QED
      BY <1>2, <1>3, <3>1
  <2> QED
    BY <1>1, <2>1, <2>2
<1> QED
  BY <1>3 DEF InSequence

LEMMA SequenceUnsubscribed ==
  ASSUME NEW q, NEW r, NEW U, Unsubscribed(q, r, U), NEW w, InSequence(q, w)
  PROVE  InSequence(r, w)
<1>1. /\ \A i \in 1 .. Len(q) : r[i] = q[i]
      /\ \A i \in 1 .. Len(r) : r[i].type = "subscribe" => i \in 1 .. Len(q)
  BY DEF Unsubscribed
<1> QED
  BY <1>1 DEF InSequence

\* A subscription that is asked for is asked for once.
LEMMA SequenceRest ==
  ASSUME NEW q \in Seq(CommandSet), NEW r, NEW f, Dropped(q, r, f),
         NEW w \in Nat, InSequence(q, w)
  PROVE  /\ InSequence(r, w)
         /\ f.type = "subscribe" => f.id > w /\ InSequence(r, f.id) /\ ~Asks(r, f.id)
<1>1. /\ Len(r) \in Nat /\ Len(q) = Len(r) + 1
      /\ f \in CommandSet /\ 1 \in 1 .. Len(q) /\ q[1] = f
      /\ \A i \in 1 .. Len(r) : i + 1 \in 1 .. Len(q) /\ r[i] = q[i + 1] /\ r[i] \in CommandSet
  BY PlacesTail
<1>2. \A i \in 1 .. Len(r) : 1 < i + 1
  OBVIOUS
<1>3. \A i, j \in 1 .. Len(r) : i < j => i + 1 < j + 1
  OBVIOUS
<1>4. \A i \in 1 .. Len(r) : r[i].id \in Nat
  BY <1>1, CommandParts DEF Ids
<1>5. f.id \in Nat
  BY <1>1, CommandParts DEF Ids
<1>6. ASSUME NEW i \in 1 .. Len(r), r[i].type = "subscribe"
      PROVE  /\ r[i].id > w /\ (f.type = "subscribe" => r[i].id > f.id)
             /\ \A j \in 1 .. Len(r) : r[j].type = "subscribe" /\ i < j => r[i].id < r[j].id
  <2>1. i + 1 \in 1 .. Len(q) /\ q[i + 1].type = "subscribe" /\ r[i] = q[i + 1]
    BY <1>1, <1>6
  <2>2. /\ q[i + 1].id > w
        /\ \A j \in 1 .. Len(q) : q[j].type = "subscribe" /\ i + 1 < j => q[i + 1].id < q[j].id
    BY <2>1 DEF InSequence
  <2>3. f.type = "subscribe" => f.id < q[i + 1].id
    BY <1>1, <1>2, <2>1 DEF InSequence
  <2>4. ASSUME NEW j \in 1 .. Len(r), r[j].type = "subscribe", i < j
        PROVE  r[i].id < r[j].id
    <3>1. j + 1 \in 1 .. Len(q) /\ q[j + 1] = r[j] /\ i + 1 < j + 1
      BY <1>1, <1>3, <2>4
    <3> QED
      BY <2>1, <2>2, <2>4, <3>1
  <2> QED
    BY <1>4, <1>5, <2>1, <2>2, <2>3, <2>4
<1>7. f.type = "subscribe" => f.id > w
  BY <1>1 DEF InSequence
<1>8. InSequence(r, w)
  BY <1>6 DEF InSequence
<1>9. f.type = "subscribe" => InSequence(r, f.id)
  BY <1>6 DEF InSequence
<1>10. f.type = "subscribe" => ~Asks(r, f.id)
  <2> SUFFICES ASSUME f.type = "subscribe", Asks(r, f.id) PROVE FALSE
    OBVIOUS
  <2>1. PICK i \in 1 .. Len(r) : r[i].type = "subscribe" /\ r[i].id = f.id
    BY DEF Asks
  <2>2. r[i].id > f.id
    BY <1>6, <2>1
  <2> QED
    BY <1>5, <2>1, <2>2
<1> QED
  BY <1>7, <1>8, <1>9, <1>10

-----------------------------------------------------------------------------
(* The answer to a batch *)

Within(q, r) == \A i \in 1 .. Len(q) : \E j \in 1 .. Len(r) : r[j] = q[i]

LEMMA WithinSame == ASSUME NEW q PROVE Within(q, q)
BY DEF Within

LEMMA WithinMore ==
  ASSUME NEW S, NEW q \in Seq(S), NEW e \in S, NEW r, Pushed(q, r, e)
  PROVE  Within(q, r) /\ \E j \in 1 .. Len(r) : r[j] = e
BY Places DEF Within

LEMMA WithinUnsubscribed ==
  ASSUME NEW q, NEW r, NEW U, Unsubscribed(q, r, U)
  PROVE  Within(q, r)
<1>1. \A i \in 1 .. Len(q) : i \in 1 .. Len(r) /\ r[i] = q[i]
  BY DEF Unsubscribed
<1> QED
  BY <1>1 DEF Within

\* More is on its way, or another command is gone.
LEMMA AnswersMore ==
  ASSUME NEW s, NEW t, NEW h, NEW q, NEW r, NEW id, NEW c,
         Within(s, t), Within(q, r), Answers(s, h, q, id, c)
  PROVE  Answers(t, h, r, id, c)
BY DEF Within, Answers

LEMMA AnswersRest ==
  ASSUME NEW s, NEW h, NEW q \in Seq(CommandSet), NEW r, NEW f, Dropped(q, r, f),
         NEW id, NEW c, Answers(s, h, q, id, c),
         f # Command("acknowledge", id, c.inFlight)
  PROVE  Answers(s, h, r, id, c)
<1>1. \A i \in 1 .. Len(q) : q[i] = f \/ \E j \in 1 .. Len(r) : r[j] = q[i]
  BY PlacesTail
<1> QED
  BY <1>1 DEF Answers

\* The next message goes to the Renderer.
LEMMA AnswersReceived ==
  ASSUME NEW s \in Seq(MessageSet), NEW t, NEW f, Dropped(s, t, f), NEW h,
         NEW q, NEW id, NEW c, Answers(s, <<>>, q, id, c),
         f.type = "batch" /\ f.id = id => h = <<f>>
  PROVE  Answers(t, h, q, id, c)
<1>1. \A i \in 1 .. Len(s) : s[i] = f \/ \E j \in 1 .. Len(t) : t[j] = s[i]
  BY PlacesTail
<1>2. <<>> # <<Message("batch", id, c.inFlight)>>
  OBVIOUS
<1>3. f = Message("batch", id, c.inFlight) => h = <<Message("batch", id, c.inFlight)>>
  BY DEF Message
<1> QED
  BY <1>1, <1>2, <1>3 DEF Answers

\* The subscribers have had the batch.
LEMMA AnswersHandled ==
  ASSUME NEW s, NEW f \in MessageSet, NEW q \in Seq(CommandSet), NEW r,
         Pushed(q, r, Command("acknowledge", f.id, f.sequence)),
         NEW id, NEW c, Answers(s, <<f>>, q, id, c)
  PROVE  Answers(s, <<>>, r, id, c)
<1>1. Command("acknowledge", f.id, f.sequence) \in CommandSet
  BY MessageParts, CommandMade
<1>2. /\ Within(q, r)
      /\ \E j \in 1 .. Len(r) : r[j] = Command("acknowledge", f.id, f.sequence)
  BY <1>1, WithinMore
<1>3. \A m : <<f>> = <<m>> => f = m
  OBVIOUS
<1>4. f = Message("batch", id, c.inFlight) => f.id = id /\ f.sequence = c.inFlight
  BY DEF Message
<1>5. <<f>> = <<Message("batch", id, c.inFlight)>> =>
        \E j \in 1 .. Len(r) : r[j] = Command("acknowledge", id, c.inFlight)
  BY <1>2, <1>3, <1>4
<1>6. (\E i \in 1 .. Len(q) : q[i] = Command("acknowledge", id, c.inFlight)) =>
        \E j \in 1 .. Len(r) : r[j] = Command("acknowledge", id, c.inFlight)
  BY <1>2 DEF Within
<1> QED
  BY <1>5, <1>6 DEF Answers

-----------------------------------------------------------------------------
(* Subscriptions of Main *)

LEMMA UnknownConsumer ==
  /\ Unknown \in ConsumerSet /\ Counted(Unknown) /\ ~Holds(Unknown)
  /\ Unknown.at = "unknown" /\ Unknown.next = 0 /\ Unknown.inFlight = 0
  /\ Unknown.value = FALSE /\ Unknown.values = 0 /\ Unknown.ended = FALSE
BY BoundAssumption DEF Unknown, ConsumerSet, Counted, Holds, None

\* What flushing the window of c, of which a batch may have become due, makes of it,
\* and of the stream s.
Flush(id, c, d, s, t) ==
  /\ d \in ConsumerSet
  /\ \/ d = c /\ t = s
     \/ /\ d.at = "open" /\ d.next = c.next + 1 /\ d.inFlight = c.next
        /\ Pushed(s, t, Message("batch", id, c.next))
     \/ /\ d.at = "closed"
        /\ Pushed(s, t, Message("end", id, c.next))

LEMMA FlushedAs ==
  ASSUME NEW id \in Ids, NEW c \in ConsumerSet, c.at = "open", Flushed(id, c),
         c.next >= 1, c.next <= c.values + 1, c.value => c.next <= c.values,
         c.inFlight < c.next
  PROVE  \E d \in ConsumerSet :
           /\ consumers' = [consumers EXCEPT ![id] = d]
           /\ Counted(d) /\ Flush(id, c, d, stream, stream')
<1>1. /\ c.next \in Nat /\ c.inFlight \in Nat /\ c.values \in Nat /\ c.values <= MaxValues
      /\ MaxValues \in Nat /\ c.value \in BOOLEAN
  BY ConsumerParts, BoundAssumption
<1>2. CASE c.inFlight # None \/ ~(c.value \/ c.ended)
  <2>1. consumers' = [consumers EXCEPT ![id] = c] /\ stream' = stream
    BY <1>2 DEF Flushed
  <2>2. Counted(c)
    BY <1>1 DEF Counted
  <2>3. Flush(id, c, c, stream, stream')
    BY <2>1 DEF Flush
  <2> QED
    BY <2>1, <2>2, <2>3
<1>3. CASE ~(c.inFlight # None \/ ~(c.value \/ c.ended)) /\ c.value
  <2> DEFINE d == [c EXCEPT !.value = FALSE, !.inFlight = c.next, !.next = @ + 1]
  <2>1. /\ consumers' = [consumers EXCEPT ![id] = d]
        /\ stream' = Append(stream, Message("batch", id, c.next))
    BY <1>3 DEF Flushed
  <2>2. /\ d \in ConsumerSet /\ d.at = "open" /\ d.next = c.next + 1 /\ d.inFlight = c.next
        /\ d.value = FALSE /\ d.values = c.values
    <3>1. c.next + 1 \in Nat
      BY <1>1
    <3>2. d \in ConsumerSet
      BY <1>1, <3>1 DEF ConsumerSet
    <3>3. /\ d.at = c.at /\ d.next = c.next + 1 /\ d.inFlight = c.next
          /\ d.value = FALSE /\ d.values = c.values
      BY DEF ConsumerSet
    <3> QED
      BY <3>2, <3>3
  <2> HIDE DEF d
  <2>3. Counted(d)
    BY <1>1, <1>3, <2>2 DEF Counted
  <2>4. Flush(id, c, d, stream, stream')
    BY <2>1, <2>2 DEF Flush, Pushed
  <2> QED
    BY <2>1, <2>2, <2>3, <2>4
<1>4. CASE ~(c.inFlight # None \/ ~(c.value \/ c.ended)) /\ ~c.value
  <2> DEFINE d == [c EXCEPT !.at = "closed", !.next = @ + 1]
  <2>1. /\ consumers' = [consumers EXCEPT ![id] = d]
        /\ stream' = Append(stream, Message("end", id, c.next))
    BY <1>4 DEF Flushed
  <2>2. /\ d \in ConsumerSet /\ d.at = "closed" /\ d.next = c.next + 1
        /\ d.inFlight = c.inFlight
    <3>1. c.next + 1 \in Nat
      BY <1>1
    <3>2. d \in ConsumerSet
      BY <1>1, <3>1 DEF ConsumerSet
    <3>3. d.at = "closed" /\ d.next = c.next + 1 /\ d.inFlight = c.inFlight
      BY DEF ConsumerSet
    <3> QED
      BY <3>2, <3>3
  <2> HIDE DEF d
  <2>3. Counted(d)
    BY <1>1, <1>4, <2>2 DEF Counted
  <2>4. Flush(id, c, d, stream, stream')
    BY <2>1, <2>2 DEF Flush, Pushed
  <2> QED
    BY <2>1, <2>2, <2>3, <2>4
<1> QED
  BY <1>2, <1>3, <1>4

-----------------------------------------------------------------------------
(* What Main sends *)

\* Nothing was sent to id.
Elsewhere(s, t, id) ==
  /\ Within(s, t) /\ (Absent(s, id) => Absent(t, id))
  /\ \A h \in Nat \cup {-1}, c \in ConsumerSet : Streamed(s, id, h, c) => Streamed(t, id, h, c)

\* What was sent was sent to id.
Only(s, t, id) ==
  /\ t \in Seq(MessageSet)
  /\ Within(s, t)
  /\ \A other \in Ids : other # id => Elsewhere(s, t, other)

\* What the consumer of id sent while it went from c to d, and nothing to the others.
Told(s, t, id, c, d) ==
  /\ Only(s, t, id)
  /\ \A h \in Nat \cup {-1} : Streamed(s, id, h, c) => Streamed(t, id, h, d)

LEMMA ToldNothing ==
  ASSUME NEW s \in Seq(MessageSet), NEW id \in Ids, NEW c, NEW d,
         d.at = "closed" <=> c.at = "closed", d.next = c.next
  PROVE  Told(s, s, id, c, d)
BY WithinSame, StreamedAs DEF Told, Only, Elsewhere

LEMMA ToldNext ==
  ASSUME NEW s \in Seq(MessageSet), NEW e \in MessageSet, NEW t, Pushed(s, t, e),
         NEW id \in Ids, NEW c \in ConsumerSet, NEW d \in ConsumerSet, Follows(e, id, c, d)
  PROVE  Told(s, t, id, c, d)
<1>1. t \in Seq(MessageSet) /\ Within(s, t)
  BY Places, WithinMore
<1>2. e.id = id
  BY DEF Follows
<1>3. ASSUME NEW other \in Ids, other # id
      PROVE  Elsewhere(s, t, other)
  <2>1. e.id # other
    BY <1>2, <1>3
  <2>2. Absent(s, other) => Absent(t, other)
    BY <2>1, Places DEF Absent
  <2>3. ASSUME NEW h \in Nat \cup {-1}, NEW b \in ConsumerSet, Streamed(s, other, h, b)
        PROVE  Streamed(t, other, h, b)
    BY <2>1, <2>3, StreamedOther
  <2> QED
    BY <1>1, <2>2, <2>3 DEF Elsewhere
<1>4. ASSUME NEW h \in Nat \cup {-1}, Streamed(s, id, h, c)
      PROVE  Streamed(t, id, h, d)
  BY <1>4, StreamedNext
<1> QED
  BY <1>1, <1>3, <1>4 DEF Told, Only

LEMMA ToldTwice ==
  ASSUME NEW s, NEW t, NEW u, NEW id \in Ids, NEW c, NEW d, NEW e,
         Told(s, t, id, c, d), Told(t, u, id, d, e)
  PROVE  Told(s, u, id, c, e)
<1>1. Within(s, u)
  <2>1. Within(s, t) /\ Within(t, u)
    BY DEF Told, Only
  <2>2. ASSUME NEW i \in 1 .. Len(s)
        PROVE  \E j \in 1 .. Len(u) : u[j] = s[i]
    <3>1. PICK k \in 1 .. Len(t) : t[k] = s[i]
      BY <2>1 DEF Within
    <3>2. PICK j \in 1 .. Len(u) : u[j] = t[k]
      BY <2>1 DEF Within
    <3> QED
      BY <3>1, <3>2
  <2> QED
    BY <2>2 DEF Within
<1>2. ASSUME NEW other \in Ids, other # id
      PROVE  Elsewhere(s, u, other)
  <2>1. Elsewhere(s, t, other) /\ Elsewhere(t, u, other)
    BY <1>2 DEF Told, Only
  <2> QED
    BY <1>1, <2>1 DEF Elsewhere
<1>3. u \in Seq(MessageSet)
  BY DEF Told, Only
<1>4. \A h \in Nat \cup {-1} : Streamed(s, id, h, c) => Streamed(u, id, h, e)
  BY DEF Told, Only
<1> QED
  BY <1>1, <1>2, <1>3, <1>4 DEF Told, Only

\* `subscribed', and a terminal.
LEMMA ToldStart ==
  ASSUME NEW s \in Seq(MessageSet), NEW t, NEW id \in Ids, Pushed(s, t, Message("subscribed", id, 0)),
         NEW c \in ConsumerSet, NEW d \in ConsumerSet,
         c.at # "closed", c.next = 0, d.at # "closed", d.next = 1
  PROVE  Told(s, t, id, c, d)
<1>1. /\ Message("subscribed", id, 0) \in MessageSet
      /\ Message("subscribed", id, 0).id = id /\ Message("subscribed", id, 0).sequence = 0
      /\ Message("subscribed", id, 0).type = "subscribed"
  BY MessageMade
<1>2. Follows(Message("subscribed", id, 0), id, c, d)
  BY <1>1 DEF Follows
<1> QED
  BY <1>1, <1>2, ToldNext

LEMMA ToldEnd ==
  ASSUME NEW s \in Seq(MessageSet), NEW t, NEW id \in Ids, NEW n \in Nat \ {0},
         Pushed(s, t, Message("end", id, n)),
         NEW c \in ConsumerSet, NEW d \in ConsumerSet,
         c.at # "closed", c.next = n, d.at = "closed"
  PROVE  Told(s, t, id, c, d)
<1>1. /\ Message("end", id, n) \in MessageSet
      /\ Message("end", id, n).id = id /\ Message("end", id, n).sequence = n
      /\ Message("end", id, n).type = "end"
  BY MessageMade
<1>2. Follows(Message("end", id, n), id, c, d)
  BY <1>1 DEF Follows
<1> QED
  BY <1>1, <1>2, ToldNext

LEMMA ToldRefusal ==
  ASSUME NEW s \in Seq(MessageSet), NEW t, NEW id \in Ids, t = s \o Refusal(id),
         NEW c \in ConsumerSet, NEW d \in ConsumerSet,
         c.at # "closed", c.next = 0, d.at = "closed"
  PROVE  Told(s, t, id, c, d)
<1> DEFINE a == Message("subscribed", id, 0)
           z == Message("end", id, 1)
           u == Append(s, a)
           b == [c EXCEPT !.next = 1]
<1>1. a \in MessageSet /\ z \in MessageSet
  BY MessageMade
<1>2. t = s \o <<a, z>>
  BY DEF Refusal
<1>3. b \in ConsumerSet /\ b.at = c.at /\ b.next = 1
  BY DEF ConsumerSet
<1> HIDE DEF a, z, b
<1>4. t = Append(u, z) /\ u \in Seq(MessageSet)
  BY <1>1, <1>2, TwoAppended
<1> HIDE DEF u
<1>5. Pushed(s, u, Message("subscribed", id, 0))
  BY DEF Pushed, u, a
<1>6. Pushed(u, t, Message("end", id, 1))
  BY <1>4 DEF Pushed, z
<1>7. Told(s, u, id, c, b)
  BY <1>3, <1>5, ToldStart
<1>8. Told(u, t, id, b, d)
  BY <1>3, <1>4, <1>6, ToldEnd
<1> QED
  BY <1>7, <1>8, ToldTwice

LEMMA ToldFlush ==
  ASSUME NEW s \in Seq(MessageSet), NEW t, NEW id \in Ids, NEW c \in ConsumerSet, NEW d,
         Flush(id, c, d, s, t), c.at = "open", c.next >= 1
  PROVE  Told(s, t, id, c, d)
<1>1. d \in ConsumerSet /\ c.next \in Nat /\ c.next # 0 /\ c.next \in Nat \ {0}
  BY ConsumerParts DEF Flush
<1>2. CASE d = c /\ t = s
  BY <1>2, ToldNothing
<1>3. CASE /\ d.at = "open" /\ d.next = c.next + 1
           /\ Pushed(s, t, Message("batch", id, c.next))
  <2>1. /\ Message("batch", id, c.next) \in MessageSet
        /\ Message("batch", id, c.next).id = id /\ Message("batch", id, c.next).sequence = c.next
        /\ Message("batch", id, c.next).type = "batch"
    BY <1>1, MessageMade
  <2>2. Follows(Message("batch", id, c.next), id, c, d)
    BY <1>1, <1>3, <2>1 DEF Follows
  <2> QED
    BY <1>1, <1>3, <2>1, <2>2, ToldNext
<1>4. CASE d.at = "closed" /\ Pushed(s, t, Message("end", id, c.next))
  BY <1>1, <1>4, ToldEnd
<1> QED
  BY <1>2, <1>3, <1>4 DEF Flush

-----------------------------------------------------------------------------
(* Links under a step of Main *)

\* What is known of a subscription that Main holds.
LEMMA HeldLinks ==
  ASSUME NEW gs, NEW op, NEW q, NEW s, NEW h, NEW id, NEW c,
         Links(gs, op, q, s, h, id, c), c # Unknown
  PROVE  ~(id > Len(gs)) /\ op # <<id>> /\ ~Asks(q, id)
BY DEF Links

\* The subscription of id goes from c to d.
LEMMA LinksTold ==
  ASSUME NEW gs, NEW op, NEW q, NEW r, NEW s, NEW t, NEW h, NEW id \in Ids, NEW c, NEW d,
         Links(gs, op, q, s, h, id, c), Holds(c), Counted(d), d.at # "unknown",
         Told(s, t, id, c, d), SameFor(q, r, id),
         InMap(gs, id) => gs[id].heard \in Nat \cup {-1},
         InMap(gs, id) /\ Holds(d) => Answers(t, h, r, id, d)
  PROVE  Links(gs, op, r, t, h, id, d)
<1>1. c # Unknown
  BY UnknownConsumer
<1>2. ~(id > Len(gs)) /\ op # <<id>> /\ ~Asks(q, id)
  BY <1>1, HeldLinks
<1>3. ~Asks(r, id)
  BY <1>2 DEF SameFor
<1>4. ~InMap(gs, id) => Left(r, id, d)
  <2> SUFFICES ASSUME ~InMap(gs, id) PROVE Left(r, id, d)
    OBVIOUS
  <2>1. Left(q, id, c)
    BY DEF Links
  <2>2. Left(r, id, c)
    BY <2>1 DEF SameFor
  <2> QED
    BY <2>2 DEF Left
<1>5. InMap(gs, id) => Joined(gs[id], r, t, h, id, d)
  <2> SUFFICES ASSUME InMap(gs, id) PROVE Joined(gs[id], r, t, h, id, d)
    OBVIOUS
  <2>1. Joined(gs[id], q, s, h, id, c)
    BY DEF Links
  <2>2. ~Leaves(r, id)
    BY <2>1 DEF Joined, SameFor
  <2>3. Streamed(t, id, gs[id].heard, d)
    BY <2>1 DEF Joined, Told
  <2> QED
    BY <2>2, <2>3 DEF Joined
<1> QED
  BY <1>2, <1>3, <1>4, <1>5 DEF Links

\* The other subscriptions.
LEMMA LinksElsewhere ==
  ASSUME NEW gs, NEW op, NEW q, NEW r, NEW s, NEW t, NEW h, NEW id \in Ids, NEW c \in ConsumerSet,
         Links(gs, op, q, s, h, id, c),
         Elsewhere(s, t, id), SameFor(q, r, id), Absent(q, id) => Absent(r, id),
         Holds(c) /\ Answers(s, h, q, id, c) => Answers(s, h, r, id, c),
         InMap(gs, id) => gs[id].heard \in Nat \cup {-1}
  PROVE  Links(gs, op, r, t, h, id, c)
<1>1. Within(s, t) /\ (Absent(s, id) => Absent(t, id))
  BY DEF Elsewhere
<1>2. Holds(c) /\ Answers(s, h, q, id, c) => Answers(t, h, r, id, c)
  BY <1>1, WithinSame, AnswersMore
<1>3. Asks(r, id) <=> Asks(q, id)
  BY DEF SameFor
<1>4. ~InMap(gs, id) => Left(r, id, c)
  BY DEF Links, SameFor
<1>5. InMap(gs, id) => Joined(gs[id], r, t, h, id, c)
  <2> SUFFICES ASSUME InMap(gs, id) PROVE Joined(gs[id], r, t, h, id, c)
    OBVIOUS
  <2>1. Joined(gs[id], q, s, h, id, c)
    BY DEF Links
  <2>2. ~Leaves(r, id)
    BY <2>1 DEF Joined, SameFor
  <2>3. Streamed(t, id, gs[id].heard, c)
    BY <2>1 DEF Joined, Elsewhere
  <2> QED
    BY <1>2, <1>3, <2>1, <2>2, <2>3 DEF Joined
<1> QED
  BY <1>1, <1>3, <1>4, <1>5 DEF Links

\* Main takes subscribe, of a consumer it did not know.
LEMMA LinksSubscribed ==
  ASSUME NEW gs, NEW op, NEW q \in Seq(CommandSet), NEW r, NEW f, Dropped(q, r, f),
         NEW s, NEW t, NEW h, NEW id \in Ids, NEW d \in ConsumerSet,
         Links(gs, op, q, s, h, id, Unknown), f.type = "subscribe", f.id = id,
         ~Asks(r, id), Counted(d), d.at # "unknown", d.inFlight = 0,
         Told(s, t, id, Unknown, d),
         InMap(gs, id) => gs[id].heard \in Nat \cup {-1}
  PROVE  Links(gs, op, r, t, h, id, d)
<1>1. Asks(q, id) /\ ~Absent(q, id)
  <2>1. 1 \in 1 .. Len(q) /\ q[1] = f
    BY PlacesTail
  <2> QED
    BY <2>1 DEF Asks, Absent
<1>2. ~(id > Len(gs)) /\ op # <<id>>
  BY <1>1 DEF Links
<1>3. ~InMap(gs, id) => Left(r, id, d)
  BY CommandedRest DEF Links
<1>4. InMap(gs, id) => Joined(gs[id], r, t, h, id, d)
  <2> SUFFICES ASSUME InMap(gs, id) PROVE Joined(gs[id], r, t, h, id, d)
    OBVIOUS
  <2>1. Joined(gs[id], q, s, h, id, Unknown)
    BY DEF Links
  <2>2. ~Leaves(r, id)
    BY <2>1, CommandedRest DEF Joined
  <2>3. Streamed(t, id, gs[id].heard, d)
    BY <2>1 DEF Joined, Told
  <2>4. Answers(t, h, r, id, d)
    BY DEF Answers, None
  <2> QED
    BY <2>2, <2>3, <2>4 DEF Joined
<1> QED
  BY <1>2, <1>3, <1>4 DEF Links

\* Main takes unsubscribe.
LEMMA LinksUnsubscribed ==
  ASSUME NEW gs, NEW op, NEW q \in Seq(CommandSet), NEW r, NEW f, Dropped(q, r, f),
         NEW s, NEW h, NEW id \in Ids, NEW c, NEW d,
         Links(gs, op, q, s, h, id, c), f.type = "unsubscribe", f.id = id,
         Counted(d), ~Holds(d), d = c \/ Holds(c)
  PROVE  Links(gs, op, r, s, h, id, d)
<1>1. Leaves(q, id) /\ ~Absent(q, id)
  <2>1. 1 \in 1 .. Len(q) /\ q[1] = f
    BY PlacesTail
  <2> QED
    BY <2>1 DEF Leaves, Absent
<1>2. ~(id > Len(gs)) /\ ~InMap(gs, id)
  BY <1>1 DEF Links, Joined
<1>3. Left(r, id, d)
  BY <1>2, CommandedRest DEF Links
<1>4. Asks(r, id) => Asks(q, id)
  BY CommandedRest
<1>5. Asks(q, id) \/ op = <<id>> => d = Unknown
  BY UnknownConsumer DEF Links
<1> QED
  BY <1>2, <1>3, <1>4, <1>5 DEF Links

-----------------------------------------------------------------------------
(* Steps of Main that take no command *)

LEMMA GenerationParts ==
  ASSUME Types, NEW id \in 1 .. Len(generations)
  PROVE  /\ id \in Ids /\ Len(generations) \in Nat
         /\ generations[id] \in GenerationSet
         /\ generations[id].at \in {"opening", "waiting", "active", "ended"}
         /\ generations[id].key \in Keys
         /\ generations[id].heard \in Nat \cup {-1}
<1>1. generations \in Seq(GenerationSet) /\ Len(generations) <= NumSubscriptions
  BY DEF Types
<1>2. generations[id] \in GenerationSet
  BY <1>1
<1> QED
  BY <1>1, <1>2, BoundAssumption DEF GenerationSet, Ids

\* Main changes the subscription of id, and what is on its way to Main.
LEMMA LinksMain ==
  ASSUME Inv, NEW id \in Ids, NEW d \in ConsumerSet,
         consumers' = [consumers EXCEPT ![id] = d],
         UNCHANGED rendererVars,
         Only(stream, stream', id),
         \A other \in Ids : other # id =>
           /\ SameFor(control, control', other)
           /\ Absent(control, other) => Absent(control', other)
           /\ Holds(consumers[other]) /\ Answers(stream, handling, control, other, consumers[other]) =>
                Answers(stream, handling, control', other, consumers[other]),
         Links(generations, opening, control', stream', handling, id, d)
  PROVE  /\ \A other \in Ids : Linked(other)'
         /\ consumers' \in [Ids -> ConsumerSet] /\ stream' \in Seq(MessageSet)
<1>1. consumers \in [Ids -> ConsumerSet]
  BY DEF Inv, Types
<1>2. /\ consumers' \in [Ids -> ConsumerSet] /\ consumers'[id] = d
      /\ \A other \in Ids : other # id => consumers'[other] = consumers[other]
  BY <1>1
<1>3. generations' = generations /\ opening' = opening /\ handling' = handling
  BY DEF rendererVars
<1>4. ASSUME NEW other \in Ids, other # id
      PROVE  Links(generations, opening, control', stream', handling, other, consumers[other])
  <2>1. Links(generations, opening, control, stream, handling, other, consumers[other])
    BY DEF Inv, Linked
  <2>2. InMap(generations, other) => generations[other].heard \in Nat \cup {-1}
    BY GenerationParts DEF Inv, InMap
  <2>3. Elsewhere(stream, stream', other)
    BY <1>4 DEF Only
  <2>4. consumers[other] \in ConsumerSet
    BY <1>1
  <2>5. /\ SameFor(control, control', other)
        /\ Absent(control, other) => Absent(control', other)
        /\ Holds(consumers[other]) /\ Answers(stream, handling, control, other, consumers[other]) =>
             Answers(stream, handling, control', other, consumers[other])
    BY <1>4
  <2> QED
    BY <2>1, <2>2, <2>3, <2>4, <2>5, LinksElsewhere
<1>5. ASSUME NEW other \in Ids
      PROVE  Linked(other)'
  <2>1. Links(generations', opening', control', stream', handling', other, consumers'[other])
    BY <1>2, <1>3, <1>4
  <2> QED
    BY <2>1 DEF Linked
<1>6. stream' \in Seq(MessageSet)
  BY DEF Only
<1> QED
  BY <1>2, <1>5, <1>6

\* The rest of the invariant does not see such a step.
LEMMA RestMain ==
  ASSUME Inv, UNCHANGED rendererVars, UNCHANGED control, UNCHANGED watermark,
         retired' \in BOOLEAN, consumers' \in [Ids -> ConsumerSet], stream' \in Seq(MessageSet)
  PROVE  Types' /\ OpensLast' /\ Heard' /\ Ordered'
<1>1. /\ generations' = generations /\ opening' = opening /\ handling' = handling
      /\ disposed' = disposed /\ control' = control /\ watermark' = watermark
  BY DEF rendererVars
<1>2. Types'
  BY <1>1 DEF Inv, Types
<1>3. OpensLast'
  BY <1>1 DEF Inv, OpensLast
<1>4. Heard'
  BY <1>1 DEF Inv, Heard
<1>5. Ordered'
  BY <1>1 DEF Inv, Ordered
<1> QED
  BY <1>2, <1>3, <1>4, <1>5

LEMMA SameForItself == \A q, id : SameFor(q, q, id)
BY DEF SameFor

LEMMA MainStep ==
  ASSUME Inv, NEW id \in Ids, NEW d \in ConsumerSet,
         consumers' = [consumers EXCEPT ![id] = d],
         UNCHANGED rendererVars, UNCHANGED control, UNCHANGED watermark, UNCHANGED retired,
         Holds(consumers[id]), Counted(d), d.at # "unknown",
         Told(stream, stream', id, consumers[id], d),
         InMap(generations, id) /\ Holds(d) => Answers(stream', handling, control, id, d)
  PROVE  Inv'
<1>1. Links(generations, opening, control, stream, handling, id, consumers[id])
  BY DEF Inv, Linked
<1>2. InMap(generations, id) => generations[id].heard \in Nat \cup {-1}
  BY GenerationParts DEF Inv, InMap
<1>3. SameFor(control, control, id)
  BY SameForItself
<1>4. Links(generations, opening, control, stream', handling, id, d)
  BY <1>1, <1>2, <1>3, LinksTold
<1>5. control' = control
  OBVIOUS
<1>6. Links(generations, opening, control', stream', handling, id, d)
  BY <1>4, <1>5
<1>7. \A other \in Ids : other # id =>
           /\ SameFor(control, control', other)
           /\ Absent(control, other) => Absent(control', other)
           /\ Holds(consumers[other]) /\ Answers(stream, handling, control, other, consumers[other]) =>
                Answers(stream, handling, control', other, consumers[other])
  BY <1>5, SameForItself
<1>a. Only(stream, stream', id)
  BY DEF Told
<1>8. /\ \A other \in Ids : Linked(other)'
      /\ consumers' \in [Ids -> ConsumerSet] /\ stream' \in Seq(MessageSet)
  BY <1>6, <1>7, <1>a, LinksMain
<1>9. retired' \in BOOLEAN
  BY DEF Inv, Types
<1>10. Types' /\ OpensLast' /\ Heard' /\ Ordered'
  BY <1>8, <1>9, RestMain
<1> QED
  BY <1>8, <1>10 DEF Inv

\* The batch is on its way when the window is flushed, or as it was before.
LEMMA FlushAnswers ==
  ASSUME NEW s \in Seq(MessageSet), NEW t, NEW id \in Ids, NEW c \in ConsumerSet, NEW d,
         Flush(id, c, d, s, t), NEW h, NEW q, d = c => Answers(s, h, q, id, c)
  PROVE  Holds(d) => Answers(t, h, q, id, d)
<1>1. CASE d = c /\ t = s
  BY <1>1
<1>2. CASE d.inFlight = c.next /\ Pushed(s, t, Message("batch", id, c.next))
  <2>1. c.next \in Nat
    BY ConsumerParts
  <2>2. Message("batch", id, c.next) \in MessageSet
    BY <2>1, MessageMade
  <2>3. \E j \in 1 .. Len(t) : t[j] = Message("batch", id, c.next)
    BY <1>2, <2>2, WithinMore
  <2> QED
    BY <1>2, <2>3 DEF Answers
<1>3. CASE d.at = "closed"
  BY <1>3 DEF Holds
<1> QED
  BY <1>1, <1>2, <1>3 DEF Flush

LEMMA AnswersAs ==
  ASSUME NEW s, NEW h, NEW q, NEW id, NEW c, NEW d, d.inFlight = c.inFlight,
         Answers(s, h, q, id, c)
  PROVE  Answers(s, h, q, id, d)
BY DEF Answers

\* What Main knows of a subscription of the state.
LEMMA KnownConsumer ==
  ASSUME Inv, NEW id \in Ids
  PROVE  /\ consumers[id] \in ConsumerSet /\ Counted(consumers[id])
         /\ stream \in Seq(MessageSet)
         /\ InMap(generations, id) /\ Holds(consumers[id]) =>
              Answers(stream, handling, control, id, consumers[id])
BY DEF Inv, Types, Linked, Links, Joined

\* Emit and End: the window is filled, then flushed.
LEMMA FilledStep ==
  ASSUME Inv, NEW id \in Ids, NEW c \in ConsumerSet, consumers[id].at = "open",
         c.at = "open", c.next = consumers[id].next, c.inFlight = consumers[id].inFlight,
         c.next <= c.values + 1, c.value => c.next <= c.values,
         Flushed(id, c),
         UNCHANGED rendererVars, UNCHANGED control, UNCHANGED watermark, UNCHANGED retired
  PROVE  Inv'
<1> DEFINE b == consumers[id]
<1>1. /\ b \in ConsumerSet /\ Counted(b) /\ stream \in Seq(MessageSet)
      /\ InMap(generations, id) /\ Holds(b) => Answers(stream, handling, control, id, b)
  BY KnownConsumer
<1>2. b.next >= 1 /\ b.inFlight < b.next /\ Holds(b)
  BY <1>1 DEF Counted, Holds
<1>3. PICK d \in ConsumerSet :
        /\ consumers' = [consumers EXCEPT ![id] = d]
        /\ Counted(d) /\ Flush(id, c, d, stream, stream')
  BY <1>2, FlushedAs
<1>4. Told(stream, stream', id, c, d)
  BY <1>1, <1>2, <1>3, ToldFlush
<1>5. Told(stream, stream, id, b, c)
  BY <1>1, ToldNothing
<1>6. Told(stream, stream', id, b, d)
  BY <1>4, <1>5, ToldTwice
<1>7. InMap(generations, id) => Answers(stream, handling, control, id, c)
  <2> SUFFICES ASSUME InMap(generations, id) PROVE Answers(stream, handling, control, id, c)
    OBVIOUS
  <2>1. Answers(stream, handling, control, id, b)
    BY <1>1, <1>2
  <2>2. c.inFlight = b.inFlight
    OBVIOUS
  <2> HIDE DEF b
  <2> QED
    BY <2>1, <2>2, AnswersAs
<1>8. InMap(generations, id) /\ Holds(d) => Answers(stream', handling, control, id, d)
  BY <1>1, <1>3, <1>7, FlushAnswers
<1>9. d.at # "unknown"
  BY <1>3 DEF Flush
<1> QED
  BY <1>2, <1>3, <1>6, <1>8, <1>9, MainStep

LEMMA EmitStep ==
  ASSUME Inv, NEW id \in Ids, Emit(id)
  PROVE  Inv'
<1> DEFINE b == consumers[id]
           c == [b EXCEPT !.value = TRUE, !.values = @ + 1]
<1>1. b \in ConsumerSet /\ Counted(b)
  BY KnownConsumer
<1>2. /\ b.at = "open" /\ b.values < MaxValues /\ Flushed(id, c)
      /\ UNCHANGED rendererVars /\ UNCHANGED control /\ UNCHANGED watermark /\ UNCHANGED retired
  BY DEF Emit
<1>3. /\ b.next \in Nat /\ b.values \in Nat /\ b.values + 1 \in 0 .. MaxValues
      /\ b.next <= b.values + 1
  BY <1>1, <1>2, ConsumerParts, BoundAssumption DEF Counted
<1>4. c \in ConsumerSet
  BY <1>1, <1>3 DEF ConsumerSet
<1>5. /\ c.at = b.at /\ c.next = b.next /\ c.inFlight = b.inFlight
      /\ c.values = b.values + 1 /\ c.value = TRUE
  BY <1>1 DEF ConsumerSet
<1> HIDE DEF c
<1>6. c.next <= c.values + 1 /\ c.next <= c.values /\ c.at = "open"
  BY <1>2, <1>3, <1>5
<1> QED
  BY <1>2, <1>4, <1>5, <1>6, FilledStep

LEMMA EndStep ==
  ASSUME Inv, NEW id \in Ids, End(id)
  PROVE  Inv'
<1> DEFINE b == consumers[id]
           c == [b EXCEPT !.ended = TRUE]
<1>1. b \in ConsumerSet /\ Counted(b)
  BY KnownConsumer
<1>2. /\ b.at = "open" /\ Flushed(id, c)
      /\ UNCHANGED rendererVars /\ UNCHANGED control /\ UNCHANGED watermark /\ UNCHANGED retired
  BY DEF End
<1>3. b.next <= b.values + 1 /\ (b.value => b.next <= b.values)
  BY <1>1, <1>2 DEF Counted
<1>4. c \in ConsumerSet
  BY <1>1 DEF ConsumerSet
<1>5. /\ c.at = b.at /\ c.next = b.next /\ c.inFlight = b.inFlight
      /\ c.values = b.values /\ c.value = b.value
  BY <1>1 DEF ConsumerSet
<1> HIDE DEF c
<1> QED
  BY <1>2, <1>3, <1>4, <1>5, FilledStep

\* A subscription starts, or is refused: c and what becomes of it.
LEMMA StartedConsumer ==
  ASSUME NEW c \in ConsumerSet, c = Unknown \/ c = [Unknown EXCEPT !.at = "pending"]
  PROVE  /\ c.at # "closed" /\ c.next = 0 /\ c.inFlight = 0
         /\ [c EXCEPT !.at = "open", !.next = 1] \in ConsumerSet
         /\ Counted([c EXCEPT !.at = "open", !.next = 1])
         /\ [c EXCEPT !.at = "open", !.next = 1].at = "open"
         /\ [c EXCEPT !.at = "open", !.next = 1].next = 1
         /\ [c EXCEPT !.at = "open", !.next = 1].inFlight = 0
         /\ [c EXCEPT !.at = "closed"] \in ConsumerSet
         /\ Counted([c EXCEPT !.at = "closed"])
         /\ [c EXCEPT !.at = "closed"].at = "closed"
         /\ [c EXCEPT !.at = "closed"].inFlight = 0
<1> DEFINE d == [c EXCEPT !.at = "open", !.next = 1]
           e == [c EXCEPT !.at = "closed"]
<1>1. MaxValues \in Nat
  BY BoundAssumption
<1>2. c.at # "closed" /\ c.next = 0 /\ c.inFlight = 0 /\ c.values = 0 /\ c.value = FALSE
  BY DEF Unknown, None
<1>3. d \in ConsumerSet /\ e \in ConsumerSet
  BY DEF ConsumerSet
<1>4. /\ d.at = "open" /\ d.next = 1 /\ d.inFlight = c.inFlight /\ d.values = c.values
      /\ d.value = c.value
  BY DEF ConsumerSet
<1>5. e.at = "closed" /\ e.next = c.next /\ e.inFlight = c.inFlight
  BY DEF ConsumerSet
<1> HIDE DEF d, e
<1>6. Counted(d) /\ Counted(e)
  BY <1>1, <1>2, <1>4, <1>5 DEF Counted
<1> QED
  BY <1>2, <1>3, <1>4, <1>5, <1>6 DEF d, e

\* Start and Refuse of such a consumer, as a change of it and of the stream.
Opening(id, c, d) ==
  /\ d \in ConsumerSet /\ Counted(d) /\ d.at # "unknown" /\ d.inFlight = 0
  /\ consumers' = [consumers EXCEPT ![id] = d]
  /\ Told(stream, stream', id, c, d)

LEMMA StartAs ==
  ASSUME Inv, NEW id \in Ids, Start(id),
         consumers[id] = Unknown \/ consumers[id] = [Unknown EXCEPT !.at = "pending"]
  PROVE  \E d : Opening(id, consumers[id], d)
<1> DEFINE c == consumers[id]
           d == [c EXCEPT !.at = "open", !.next = 1]
<1>1. c \in ConsumerSet /\ stream \in Seq(MessageSet) /\ consumers \in [Ids -> ConsumerSet]
  BY KnownConsumer DEF Inv, Types
<1>2. /\ c.at # "closed" /\ c.next = 0
      /\ d \in ConsumerSet /\ Counted(d) /\ d.at = "open" /\ d.next = 1 /\ d.inFlight = 0
  BY <1>1, StartedConsumer
<1>3. consumers' = [consumers EXCEPT ![id] = d]
  BY <1>1 DEF Start
<1>4. Pushed(stream, stream', Message("subscribed", id, 0))
  BY DEF Start, Pushed
<1> HIDE DEF c, d
<1>5. Told(stream, stream', id, c, d)
  BY <1>1, <1>2, <1>4, ToldStart
<1>6. Opening(id, c, d)
  BY <1>2, <1>3, <1>5 DEF Opening
<1> QED
  BY <1>6 DEF c

LEMMA RefuseAs ==
  ASSUME Inv, NEW id \in Ids, Refuse(id),
         consumers[id] = Unknown \/ consumers[id] = [Unknown EXCEPT !.at = "pending"]
  PROVE  \E d : Opening(id, consumers[id], d)
<1> DEFINE c == consumers[id]
           d == [c EXCEPT !.at = "closed"]
<1>1. c \in ConsumerSet /\ stream \in Seq(MessageSet) /\ consumers \in [Ids -> ConsumerSet]
  BY KnownConsumer DEF Inv, Types
<1>2. /\ c.at # "closed" /\ c.next = 0
      /\ d \in ConsumerSet /\ Counted(d) /\ d.at = "closed" /\ d.inFlight = 0
  BY <1>1, StartedConsumer
<1>3. consumers' = [consumers EXCEPT ![id] = d]
  BY <1>1 DEF Refuse
<1>4. stream' = stream \o Refusal(id)
  BY DEF Refuse
<1> HIDE DEF c, d
<1>5. Told(stream, stream', id, c, d)
  BY <1>1, <1>2, <1>4, ToldRefusal
<1>6. Opening(id, c, d)
  BY <1>2, <1>3, <1>5 DEF Opening
<1> QED
  BY <1>6 DEF c

LEMMA DecideStep ==
  ASSUME Inv, NEW id \in Ids, Decide(id)
  PROVE  Inv'
<1>1. /\ consumers[id].at = "pending" /\ (Start(id) \/ Refuse(id))
      /\ UNCHANGED rendererVars /\ UNCHANGED control /\ UNCHANGED watermark /\ UNCHANGED retired
  BY DEF Decide
<1>2. consumers[id] = [Unknown EXCEPT !.at = "pending"] /\ Holds(consumers[id])
  BY <1>1, KnownConsumer DEF Counted, Holds
<1>3. PICK d : Opening(id, consumers[id], d)
  BY <1>1, <1>2, StartAs, RefuseAs
<1>4. Answers(stream', handling, control, id, d)
  BY <1>3 DEF Opening, Answers, None
<1>5. /\ d \in ConsumerSet /\ Counted(d) /\ d.at # "unknown"
      /\ consumers' = [consumers EXCEPT ![id] = d]
      /\ Told(stream, stream', id, consumers[id], d)
  BY <1>3 DEF Opening
<1> QED
  BY <1>1, <1>2, <1>4, <1>5, MainStep

LEMMA TellStep ==
  ASSUME Inv, NEW id \in Ids, Tell(id)
  PROVE  Inv'
<1> DEFINE c == consumers[id]
           d == [c EXCEPT !.at = "closed"]
<1>1. /\ c \in ConsumerSet /\ Counted(c) /\ stream \in Seq(MessageSet)
      /\ consumers \in [Ids -> ConsumerSet]
  BY KnownConsumer DEF Inv, Types
<1>2. /\ c.at \in {"pending", "open"} /\ stream' = stream \o Notice(id)
      /\ consumers' = [consumers EXCEPT ![id] = d]
      /\ UNCHANGED rendererVars /\ UNCHANGED control /\ UNCHANGED watermark /\ UNCHANGED retired
  BY <1>1 DEF Tell, Held
<1>3. /\ d \in ConsumerSet /\ d.at = "closed" /\ d.next = c.next /\ d.inFlight = c.inFlight
  BY <1>1 DEF ConsumerSet
<1>4. Counted(d) /\ ~Holds(d) /\ Holds(c)
  BY <1>1, <1>2, <1>3 DEF Counted, Holds
<1>5. Told(stream, stream', id, c, d)
  <2>1. CASE c.at = "pending"
    <3>1. stream' = stream \o Refusal(id)
      BY <1>2, <2>1 DEF Notice
    <3>2. c = [Unknown EXCEPT !.at = "pending"]
      BY <1>1, <2>1 DEF Counted
    <3>3. c.next = 0
      BY <1>1, <3>2, StartedConsumer
    <3> HIDE DEF c, d
    <3> QED
      BY <1>1, <1>3, <2>1, <3>1, <3>3, ToldRefusal
  <2>2. CASE c.at = "open"
    <3>1. c.next \in Nat /\ c.next >= 1
      BY <1>1, <2>2, ConsumerParts DEF Counted
    <3>2. c.next \in Nat \ {0} /\ Message("end", id, c.next) \in MessageSet
      BY <3>1, MessageMade
    <3>3. stream' = stream \o <<Message("end", id, c.next)>>
      BY <1>2, <2>2 DEF Notice
    <3>4. stream' = Append(stream, Message("end", id, c.next))
      BY <1>1, <3>2, <3>3, OneAppended
    <3>5. Pushed(stream, stream', Message("end", id, c.next))
      BY <3>4 DEF Pushed
    <3> HIDE DEF c, d
    <3> QED
      BY <1>1, <1>3, <2>2, <3>2, <3>5, ToldEnd
  <2> QED
    BY <1>2, <2>1, <2>2
<1> HIDE DEF d
<1> QED
  BY <1>2, <1>3, <1>4, <1>5, MainStep

LEMMA RetireStep ==
  ASSUME Inv, Retire
  PROVE  Inv'
<1>1. /\ generations' = generations /\ opening' = opening /\ handling' = handling
      /\ disposed' = disposed /\ control' = control /\ stream' = stream
      /\ watermark' = watermark /\ consumers' = consumers /\ retired' = TRUE
      /\ UNCHANGED rendererVars
  BY DEF Retire, rendererVars, channelVars
<1>2. consumers' \in [Ids -> ConsumerSet] /\ stream' \in Seq(MessageSet) /\ retired' \in BOOLEAN
  BY <1>1 DEF Inv, Types
<1>3. Types' /\ OpensLast' /\ Heard' /\ Ordered'
  BY <1>1, <1>2, RestMain
<1>4. \A id \in Ids : Linked(id)'
  BY <1>1 DEF Inv, Linked
<1> QED
  BY <1>3, <1>4 DEF Inv

-----------------------------------------------------------------------------
(* Main takes a command *)

LEMMA TakenParts ==
  ASSUME Inv, NEW f, Dropped(control, control', f)
  PROVE  /\ f \in CommandSet /\ f.id \in Ids /\ f.sequence \in Nat
         /\ f.type \in {"subscribe", "unsubscribe", "acknowledge"}
         /\ control \in Seq(CommandSet) /\ control' \in Seq(CommandSet)
         /\ ~Absent(control, f.id)
         /\ f.id \in 1 .. Len(generations)
         /\ f.type = "subscribe" => Asks(control, f.id)
<1>1. control \in Seq(CommandSet) /\ Len(generations) \in Nat
  BY DEF Inv, Types
<1>2. /\ f \in CommandSet /\ 1 \in 1 .. Len(control) /\ control[1] = f
      /\ control' \in Seq(CommandSet)
  BY <1>1, PlacesTail
<1>3. /\ f.id \in Ids /\ f.sequence \in Nat
      /\ f.type \in {"subscribe", "unsubscribe", "acknowledge"}
  BY <1>2, CommandParts
<1>4. ~Absent(control, f.id) /\ (f.type = "subscribe" => Asks(control, f.id))
  BY <1>2 DEF Absent, Asks
<1>5. ~(f.id > Len(generations))
  BY <1>3, <1>4 DEF Inv, Linked, Links
<1>6. f.id \in 1 .. Len(generations)
  BY <1>1, <1>3, <1>5 DEF Ids
<1> QED
  BY <1>1, <1>2, <1>3, <1>4, <1>6

\* The commands and answers of the other subscriptions stay.
LEMMA TakenOthers ==
  ASSUME Inv, NEW f, Dropped(control, control', f), NEW other \in Ids,
         other # f.id \/ f.type = "acknowledge",
         f # Command("acknowledge", other, consumers[other].inFlight)
  PROVE  /\ SameFor(control, control', other)
         /\ Absent(control, other) => Absent(control', other)
         /\ Answers(stream, handling, control, other, consumers[other]) =>
              Answers(stream, handling, control', other, consumers[other])
<1>1. control \in Seq(CommandSet)
  BY DEF Inv, Types
<1>2. SameFor(control, control', other)
  BY <1>1, CommandedRest
<1>3. Absent(control, other) => Absent(control', other)
  <2>1. \A i \in 1 .. Len(control') :
          i + 1 \in 1 .. Len(control) /\ control'[i] = control[i + 1]
    BY <1>1, PlacesTail
  <2> QED
    BY <2>1 DEF Absent
<1>4. Answers(stream, handling, control, other, consumers[other]) =>
        Answers(stream, handling, control', other, consumers[other])
  BY <1>1, AnswersRest
<1> QED
  BY <1>2, <1>3, <1>4

LEMMA NotItsCommand ==
  ASSUME NEW f, NEW other, NEW n, other # f.id
  PROVE  f # Command("acknowledge", other, n)
BY DEF Command

LEMMA RestTaken ==
  ASSUME Inv, NEW f, Dropped(control, control', f), UNCHANGED rendererVars, UNCHANGED retired,
         \/ watermark' = watermark
         \/ f.type = "subscribe" /\ watermark' = f.id,
         consumers' \in [Ids -> ConsumerSet], stream' \in Seq(MessageSet)
  PROVE  Types' /\ OpensLast' /\ Heard' /\ Ordered'
<1>1. /\ generations' = generations /\ opening' = opening /\ handling' = handling
      /\ disposed' = disposed /\ retired' = retired
  BY DEF rendererVars
<1>2. /\ f.id \in Ids /\ control' \in Seq(CommandSet) /\ control \in Seq(CommandSet)
      /\ f.id \in 1 .. Len(generations) /\ (f.type = "subscribe" => Asks(control, f.id))
  BY TakenParts
<1>3. /\ watermark \in 0 .. NumSubscriptions /\ watermark \in Nat /\ NumSubscriptions \in Nat
      /\ Len(generations) \in Nat
  BY BoundAssumption DEF Inv, Types
<1>4. watermark' \in 0 .. NumSubscriptions
  BY <1>2, <1>3 DEF Ids
<1>5. Types'
  BY <1>1, <1>2, <1>4 DEF Inv, Types
<1>6. OpensLast'
  BY <1>1 DEF Inv, OpensLast
<1>7. Heard'
  BY <1>1 DEF Inv, Heard
<1>8. InSequence(control, watermark) /\ watermark <= Len(generations)
      /\ (opening # <<>> => watermark < Len(generations))
  BY DEF Inv, Ordered
<1>9. /\ InSequence(control', watermark)
      /\ f.type = "subscribe" => InSequence(control', f.id)
  BY <1>2, <1>3, <1>8, SequenceRest
<1>10. f.type = "subscribe" /\ opening # <<>> => f.id < Len(generations)
  <2> SUFFICES ASSUME f.type = "subscribe", opening # <<>> PROVE f.id < Len(generations)
    OBVIOUS
  <2>1. opening = <<Len(generations)>>
    BY DEF Inv, OpensLast
  <2>2. opening # <<f.id>>
    BY <1>2 DEF Inv, Linked, Links
  <2>3. f.id # Len(generations)
    BY <2>1, <2>2
  <2> QED
    BY <1>2, <1>3, <2>3
<1>11. InSequence(control', watermark')
  BY <1>9
<1>12. /\ watermark' <= Len(generations)
       /\ opening # <<>> => watermark' < Len(generations)
  BY <1>2, <1>3, <1>8, <1>10
<1>13. Ordered'
  BY <1>1, <1>11, <1>12 DEF Ordered
<1> QED
  BY <1>5, <1>6, <1>7, <1>13

\* Main changes the subscription a command is about.
LEMMA TakenStep ==
  ASSUME Inv, NEW f, Dropped(control, control', f), UNCHANGED rendererVars, UNCHANGED retired,
         \/ watermark' = watermark
         \/ f.type = "subscribe" /\ watermark' = f.id,
         NEW d \in ConsumerSet, consumers' = [consumers EXCEPT ![f.id] = d],
         Only(stream, stream', f.id),
         Links(generations, opening, control', stream', handling, f.id, d)
  PROVE  Inv'
<1>1. f.id \in Ids
  BY TakenParts
<1>2. ASSUME NEW other \in Ids, other # f.id
      PROVE  /\ SameFor(control, control', other)
             /\ Absent(control, other) => Absent(control', other)
             /\ Holds(consumers[other]) /\ Answers(stream, handling, control, other, consumers[other]) =>
                  Answers(stream, handling, control', other, consumers[other])
  <2>1. f # Command("acknowledge", other, consumers[other].inFlight)
    BY <1>2, NotItsCommand
  <2> QED
    BY <1>2, <2>1, TakenOthers
<1>3. /\ \A other \in Ids : Linked(other)'
      /\ consumers' \in [Ids -> ConsumerSet] /\ stream' \in Seq(MessageSet)
  BY <1>1, <1>2, LinksMain
<1>4. Types' /\ OpensLast' /\ Heard' /\ Ordered'
  BY <1>3, RestTaken
<1> QED
  BY <1>3, <1>4 DEF Inv

LEMMA SubscribeStep ==
  ASSUME Inv, NEW f, Dropped(control, control', f), UNCHANGED rendererVars, UNCHANGED retired,
         f.type = "subscribe", Subscribe(f.id)
  PROVE  Inv'
<1>1. /\ f.id \in Ids /\ control \in Seq(CommandSet) /\ Asks(control, f.id)
      /\ f.id \in 1 .. Len(generations)
  BY TakenParts
<1>2. consumers[f.id] = Unknown
  BY <1>1 DEF Inv, Linked, Links
<1>3. /\ stream \in Seq(MessageSet) /\ consumers \in [Ids -> ConsumerSet]
      /\ watermark \in Nat
  BY BoundAssumption DEF Inv, Types
<1>4. InSequence(control, watermark)
  BY DEF Inv, Ordered
<1>5. f.id > watermark /\ ~Asks(control', f.id)
  BY <1>1, <1>3, <1>4, SequenceRest
<1>6. ~Late(f.id)
  BY <1>1, <1>3, <1>5 DEF Late, Ids
<1>7. /\ watermark' = watermark \/ watermark' = f.id
      /\ \/ Refuse(f.id) \/ Start(f.id)
         \/ /\ consumers' = [consumers EXCEPT ![f.id].at = "pending"]
            /\ UNCHANGED stream
  BY <1>6 DEF Subscribe
<1>8. \E d : Opening(f.id, Unknown, d)
  <2>1. CASE Refuse(f.id) \/ Start(f.id)
    BY <1>1, <1>2, <2>1, StartAs, RefuseAs
  <2>2. CASE consumers' = [consumers EXCEPT ![f.id].at = "pending"] /\ UNCHANGED stream
    <3> DEFINE d == [Unknown EXCEPT !.at = "pending"]
    <3>1. consumers' = [consumers EXCEPT ![f.id] = d]
      BY <1>1, <1>2, <1>3, <2>2
    <3>2. /\ d \in ConsumerSet /\ d.at = "pending" /\ d.next = 0 /\ d.inFlight = 0
      BY UnknownConsumer DEF Unknown, ConsumerSet, None
    <3>3. Counted(d)
      BY <3>2, BoundAssumption DEF Counted
    <3>4. Unknown.at # "closed" /\ Unknown.next = 0
      BY UnknownConsumer
    <3> HIDE DEF d
    <3>5. Told(stream, stream, f.id, Unknown, d)
      BY <1>1, <1>3, <3>2, <3>4, ToldNothing
    <3>6. stream' = stream
      BY <2>2
    <3>7. Told(stream, stream', f.id, Unknown, d)
      BY <3>5, <3>6
    <3>8. Opening(f.id, Unknown, d)
      BY <3>1, <3>2, <3>3, <3>7 DEF Opening
    <3> QED
      BY <3>8
  <2> QED
    BY <1>7, <2>1, <2>2
<1>9. PICK d : Opening(f.id, Unknown, d)
  BY <1>8
<1>10. /\ d \in ConsumerSet /\ Counted(d) /\ d.at # "unknown" /\ d.inFlight = 0
       /\ consumers' = [consumers EXCEPT ![f.id] = d]
       /\ Told(stream, stream', f.id, Unknown, d)
  BY <1>9 DEF Opening
<1>11. Links(generations, opening, control, stream, handling, f.id, Unknown)
  BY <1>1, <1>2 DEF Inv, Linked
<1>12. InMap(generations, f.id) => generations[f.id].heard \in Nat \cup {-1}
  BY <1>1, GenerationParts DEF Inv
<1>13. Links(generations, opening, control', stream', handling, f.id, d)
  BY <1>1, <1>5, <1>10, <1>11, <1>12, LinksSubscribed
<1>14. Only(stream, stream', f.id)
  BY <1>10 DEF Told
<1> QED
  BY <1>7, <1>10, <1>13, <1>14, TakenStep

LEMMA UnsubscribeStep ==
  ASSUME Inv, NEW f, Dropped(control, control', f), UNCHANGED rendererVars, UNCHANGED retired,
         f.type = "unsubscribe", Unsubscribe(f.id)
  PROVE  Inv'
<1> DEFINE c == consumers[f.id]
           d == IF f.id \in Held THEN [c EXCEPT !.at = "closed"] ELSE c
<1>1. f.id \in Ids /\ control \in Seq(CommandSet)
  BY TakenParts
<1>2. /\ c \in ConsumerSet /\ Counted(c) /\ stream \in Seq(MessageSet)
      /\ consumers \in [Ids -> ConsumerSet]
  BY <1>1, KnownConsumer DEF Inv, Types
<1>3. f.id \in Held <=> Holds(c)
  BY <1>1 DEF Held, Holds
<1>4. /\ consumers' = [consumers EXCEPT ![f.id] = d]
      /\ watermark' = watermark /\ stream' = stream
  BY <1>1, <1>2 DEF Unsubscribe
<1>5. Links(generations, opening, control, stream, handling, f.id, c)
  BY <1>1 DEF Inv, Linked
<1>6. Only(stream, stream', f.id)
  <2>1. Told(stream, stream, f.id, c, c)
    BY <1>1, <1>2, ToldNothing
  <2>2. stream' = stream
    BY <1>4
  <2> QED
    BY <2>1, <2>2 DEF Told
<1>7. d \in ConsumerSet /\ Counted(d) /\ ~Holds(d) /\ (d = c \/ Holds(c))
  <2>1. CASE ~Holds(c)
    BY <1>2, <1>3, <2>1
  <2>2. CASE Holds(c)
    <3>1. d = [c EXCEPT !.at = "closed"]
      BY <1>3, <2>2
    <3>2. /\ d \in ConsumerSet /\ d.at = "closed" /\ d.next = c.next
          /\ d.inFlight = c.inFlight
      BY <1>2, <3>1 DEF ConsumerSet
    <3> QED
      BY <1>2, <2>2, <3>2 DEF Counted, Holds
  <2> QED
    BY <2>1, <2>2
<1> HIDE DEF c, d
<1>8. Links(generations, opening, control', stream, handling, f.id, d)
  BY <1>1, <1>5, <1>7, LinksUnsubscribed
<1>9. Links(generations, opening, control', stream', handling, f.id, d)
  BY <1>4, <1>8
<1> QED
  BY <1>4, <1>6, <1>7, <1>9, TakenStep

\* The batch that is acknowledged is the one in flight.
LEMMA AcknowledgeStep ==
  ASSUME Inv, NEW f, Dropped(control, control', f), UNCHANGED rendererVars, UNCHANGED retired,
         f.type = "acknowledge", Acknowledge(f)
  PROVE  Inv'
<1> DEFINE b == consumers[f.id]
<1>1. /\ f.id \in Ids /\ control \in Seq(CommandSet) /\ f.sequence \in Nat
      /\ f.id \in 1 .. Len(generations)
  BY TakenParts
<1>2. /\ b \in ConsumerSet /\ Counted(b) /\ stream \in Seq(MessageSet)
      /\ consumers \in [Ids -> ConsumerSet]
  BY <1>1, KnownConsumer DEF Inv, Types
<1>3. Links(generations, opening, control, stream, handling, f.id, b)
  BY <1>1 DEF Inv, Linked
<1>4. InMap(generations, f.id) => generations[f.id].heard \in Nat \cup {-1}
  BY <1>1, GenerationParts DEF Inv
<1>5. SameFor(control, control', f.id)
  BY <1>1, CommandedRest
<1>6. watermark' = watermark
  BY DEF Acknowledge
<1>7. CASE b.at = "open" /\ b.inFlight = f.sequence
  <2> DEFINE c == [b EXCEPT !.inFlight = None]
  <2>1. Flushed(f.id, c)
    BY <1>7 DEF Acknowledge
  <2>2. c \in ConsumerSet
    BY <1>2 DEF ConsumerSet, None
  <2>3. /\ c.at = b.at /\ c.next = b.next /\ c.inFlight = None
        /\ c.values = b.values /\ c.value = b.value
    BY <1>2 DEF ConsumerSet
  <2> HIDE DEF c, b
  <2>4. /\ c.at = "open" /\ c.next >= 1 /\ c.next <= c.values + 1
        /\ (c.value => c.next <= c.values) /\ c.inFlight < c.next /\ Holds(b)
    BY <1>2, <1>7, <2>3, ConsumerParts DEF Counted, Holds, None
  <2>5. PICK d \in ConsumerSet :
          /\ consumers' = [consumers EXCEPT ![f.id] = d]
          /\ Counted(d) /\ Flush(f.id, c, d, stream, stream')
    BY <1>1, <2>1, <2>2, <2>4, FlushedAs
  <2>6. Told(stream, stream', f.id, c, d)
    BY <1>1, <1>2, <2>2, <2>4, <2>5, ToldFlush
  <2>7. Told(stream, stream, f.id, b, c)
    BY <1>1, <1>2, <2>3, ToldNothing
  <2>8. Told(stream, stream', f.id, b, d)
    BY <1>1, <2>6, <2>7, ToldTwice
  <2>9. Answers(stream, handling, control', f.id, c)
    BY <2>3 DEF Answers
  <2>10. Holds(d) => Answers(stream', handling, control', f.id, d)
    BY <1>1, <1>2, <2>2, <2>5, <2>9, FlushAnswers
  <2>11. d.at # "unknown"
    BY <2>4, <2>5 DEF Flush
  <2>12. Links(generations, opening, control', stream', handling, f.id, d)
    BY <1>1, <1>3, <1>4, <1>5, <2>4, <2>5, <2>8, <2>10, <2>11, LinksTold
  <2>13. Only(stream, stream', f.id)
    BY <2>8 DEF Told
  <2> QED
    BY <1>6, <2>5, <2>12, <2>13, TakenStep
<1>8. CASE ~(b.at = "open" /\ b.inFlight = f.sequence)
  <2>1. stream' = stream /\ consumers' = consumers
    BY <1>8 DEF Acknowledge
  <2>2. consumers' = [consumers EXCEPT ![f.id] = b]
    BY <1>1, <1>2, <2>1
  <2> HIDE DEF b
  <2>3. Told(stream, stream, f.id, b, b)
    BY <1>1, <1>2, ToldNothing
  <2>4. Only(stream, stream', f.id) /\ Elsewhere(stream, stream, f.id)
    BY <2>1, <2>3, WithinSame DEF Told, Elsewhere
  <2>5. Holds(b) /\ Answers(stream, handling, control, f.id, b) =>
          Answers(stream, handling, control', f.id, b)
    <3> SUFFICES ASSUME Holds(b), Answers(stream, handling, control, f.id, b)
                 PROVE  Answers(stream, handling, control', f.id, b)
      OBVIOUS
    <3>1. CASE b.at = "pending"
      <4>1. b.inFlight = None
        BY <1>2, <3>1 DEF Counted, Unknown
      <4> QED
        BY <4>1 DEF Answers
    <3>2. CASE b.at = "open"
      <4>1. f # Command("acknowledge", f.id, b.inFlight)
        BY <1>8, <3>2 DEF Command
      <4> QED
        BY <1>1, <4>1, AnswersRest
    <3> QED
      BY <3>1, <3>2 DEF Holds
  <2>6. Absent(control, f.id) => Absent(control', f.id)
    BY TakenParts
  <2>7. Links(generations, opening, control', stream, handling, f.id, b)
    BY <1>1, <1>2, <1>3, <1>4, <1>5, <2>4, <2>5, <2>6, LinksElsewhere
  <2>8. Links(generations, opening, control', stream', handling, f.id, b)
    BY <2>1, <2>7
  <2> QED
    BY <1>2, <1>6, <2>2, <2>4, <2>8, TakenStep
<1> QED
  BY <1>7, <1>8

LEMMA ArriveStep ==
  ASSUME Inv, Arrive
  PROVE  Inv'
<1> DEFINE f == Head(control)
<1>1. /\ control # <<>> /\ control' = Tail(control)
      /\ \/ f.type = "subscribe" /\ Subscribe(f.id)
         \/ f.type = "unsubscribe" /\ Unsubscribe(f.id)
         \/ f.type = "acknowledge" /\ Acknowledge(f)
      /\ UNCHANGED rendererVars /\ UNCHANGED retired
  BY DEF Arrive
<1>2. Dropped(control, control', f)
  BY <1>1 DEF Dropped
<1> HIDE DEF f
<1> QED
  BY <1>1, <1>2, SubscribeStep, UnsubscribeStep, AcknowledgeStep

-----------------------------------------------------------------------------
(* Steps of the Renderer *)

\* A generation that did not change, under a sink that does not tell of it.
LEMMA LinksGeneration ==
  ASSUME NEW gs, NEW op, NEW q, NEW s, NEW h, NEW id, NEW c, NEW gt, NEW oq,
         Links(gs, op, q, s, h, id, c),
         id > Len(gt) => id > Len(gs),
         oq = <<id>> => op = <<id>>,
         InMap(gt, id) <=> InMap(gs, id), InMap(gt, id) => gt[id] = gs[id]
  PROVE  Links(gt, oq, q, s, h, id, c)
BY DEF Links

\* A command that is not about it.
LEMMA LinksCommand ==
  ASSUME NEW gs, NEW op, NEW q, NEW r, NEW s, NEW h, NEW id \in Ids, NEW c \in ConsumerSet,
         Links(gs, op, q, s, h, id, c), SameFor(q, r, id), Within(q, r),
         Absent(q, id) => Absent(r, id),
         InMap(gs, id) => gs[id].heard \in Nat \cup {-1}
  PROVE  Links(gs, op, r, s, h, id, c)
<1>1. Elsewhere(s, s, id)
  BY WithinSame DEF Elsewhere
<1>2. Answers(s, h, q, id, c) => Answers(s, h, r, id, c)
  BY WithinSame, AnswersMore
<1> QED
  BY <1>1, <1>2, LinksElsewhere

\* What the steps of the Renderer leave alone, and what they know.
LEMMA RendererParts ==
  ASSUME Inv
  PROVE  /\ generations \in Seq(GenerationSet) /\ Len(generations) \in Nat
         /\ Len(generations) <= NumSubscriptions /\ NumSubscriptions \in Nat
         /\ control \in Seq(CommandSet) /\ stream \in Seq(MessageSet)
         /\ watermark \in 0 .. NumSubscriptions /\ watermark \in Nat
         /\ consumers \in [Ids -> ConsumerSet]
         /\ \A id : id \in Mapped <=> InMap(generations, id)
         /\ \A id : InMap(generations, id) =>
              id \in Ids /\ id \in 1 .. Len(generations)
              /\ generations[id].heard \in Nat \cup {-1}
<1>1. /\ generations \in Seq(GenerationSet) /\ Len(generations) <= NumSubscriptions
      /\ control \in Seq(CommandSet) /\ stream \in Seq(MessageSet)
      /\ watermark \in 0 .. NumSubscriptions /\ NumSubscriptions \in Nat
      /\ consumers \in [Ids -> ConsumerSet] /\ Types
  BY BoundAssumption DEF Inv, Types
<1>2. Len(generations) \in Nat /\ watermark \in Nat
  BY <1>1
<1>3. DOMAIN generations = 1 .. Len(generations)
  BY <1>1
<1>4. \A id : id \in Mapped <=> InMap(generations, id)
  BY <1>3 DEF Mapped, InMap
<1>5. \A id : InMap(generations, id) =>
        id \in Ids /\ id \in 1 .. Len(generations) /\ generations[id].heard \in Nat \cup {-1}
  BY <1>1, GenerationParts DEF InMap
<1> QED
  BY <1>1, <1>2, <1>4, <1>5

LEMMA OpenStep ==
  ASSUME Inv, "open" \notin SinkCalls, NEW key \in Keys, Open(key)
  PROVE  Inv'
<1> DEFINE n == Len(generations)
           g == Generation(key)
<1>1. /\ opening = <<>> /\ n + 1 \in Ids /\ ~disposed
      /\ generations' = Append(generations, g)
      /\ opening' = Append(opening, n + 1)
      /\ handling' = handling /\ disposed' = disposed /\ control' = control /\ stream' = stream
      /\ retired' = retired /\ watermark' = watermark /\ consumers' = consumers
  BY DEF Open, MayCall, channelVars, mainVars
<1>2. /\ generations \in Seq(GenerationSet) /\ n \in Nat /\ watermark \in Nat
      /\ stream \in Seq(MessageSet)
  BY RendererParts
<1>3. g \in GenerationSet /\ g.at = "opening" /\ g.heard = -1
  BY DEF Generation, GenerationSet
<1>4. opening' = <<n + 1>>
  BY <1>1
<1> HIDE DEF g
<1>5. /\ generations' \in Seq(GenerationSet) /\ Len(generations') = n + 1
      /\ \A i \in 1 .. n : generations'[i] = generations[i]
      /\ generations'[n + 1] = g
  BY <1>1, <1>2, <1>3, Appended
<1>6. n + 1 <= NumSubscriptions /\ n + 1 \in 1 .. n + 1
  BY <1>1, <1>2, BoundAssumption DEF Ids
<1> HIDE DEF n
<1>7. Types'
  <2>1. opening' \in Seq(Ids)
    BY <1>1, <1>4
  <2> QED
    BY <1>1, <1>5, <1>6, <2>1 DEF Inv, Types
<1>8. \A i \in 1 .. n + 1 : i \in 1 .. n \/ i = n + 1
  BY <1>2
<1>9. OpensLast'
  <2>1. \A i \in 1 .. n : generations[i].at # "opening"
    BY <1>1 DEF Inv, OpensLast, n
  <2>2. opening' # <<>> /\ n + 1 # 0
    BY <1>2, <1>4
  <2>3. \A i \in 1 .. n + 1 : generations'[i].at = "opening" => i = n + 1
    BY <1>5, <1>8, <2>1
  <2> QED
    BY <1>4, <1>5, <2>2, <2>3 DEF OpensLast
<1>10. Heard'
  <2>1. /\ \A i \in 1 .. n :
             /\ generations[i].at \in {"opening", "waiting"} => generations[i].heard = -1
             /\ generations[i].at = "active" => generations[i].heard >= 0
        /\ \A i \in 1 .. Len(handling) : handling[i].id <= n
    BY DEF Inv, Heard, n
  <2>2. \A i \in 1 .. n + 1 :
          /\ generations'[i].at \in {"opening", "waiting"} => generations'[i].heard = -1
          /\ generations'[i].at = "active" => generations'[i].heard >= 0
    BY <1>3, <1>5, <1>8, <2>1
  <2>3. \A i \in 1 .. Len(handling) : handling[i].id <= n + 1
    <3>1. handling \in Seq(MessageSet)
      BY DEF Inv, Types
    <3>2. \A i \in 1 .. Len(handling) : handling[i].id \in Nat
      BY <3>1, MessageParts DEF Ids
    <3> QED
      BY <1>2, <2>1, <3>2
  <2>4. ~disposed'
    BY <1>1
  <2> QED
    BY <1>1, <1>5, <2>2, <2>3, <2>4 DEF Heard
<1>11. Ordered'
  <2>1. InSequence(control, watermark) /\ watermark <= n
    BY DEF Inv, Ordered, n
  <2>2. watermark <= n + 1 /\ watermark < n + 1
    BY <1>2, <2>1
  <2> QED
    BY <1>1, <1>5, <2>1, <2>2 DEF Ordered
<1>12. ASSUME NEW id \in Ids
       PROVE  Links(generations', opening', control, stream, handling, id, consumers[id])
  <2>1. Links(generations, opening, control, stream, handling, id, consumers[id])
    BY DEF Inv, Linked
  <2>2. id \in Nat
    BY DEF Ids
  <2>3. CASE id # n + 1
    <3>1. <<n + 1>> # <<id>>
      BY <2>3
    <3>2. id > n + 1 => id > n
      BY <1>2, <2>2
    <3>3. id \in 1 .. n + 1 <=> id \in 1 .. n
      BY <1>2, <2>2, <2>3
    <3>4. /\ InMap(generations', id) <=> InMap(generations, id)
          /\ InMap(generations', id) => generations'[id] = generations[id]
      BY <1>5, <3>3 DEF InMap, n
    <3> QED
      BY <1>4, <1>5, <2>1, <3>1, <3>2, <3>4, LinksGeneration DEF n
  <2>4. CASE id = n + 1
    <3>1. id > n
      BY <1>2, <2>4
    <3>2. consumers[id] = Unknown /\ Absent(control, id) /\ Absent(stream, id)
      BY <2>1, <3>1 DEF Links, n
    <3>3. ~Asks(control, id) /\ ~Leaves(control, id)
      BY <3>2 DEF Absent, Asks, Leaves
    <3>4. InMap(generations', id) /\ generations'[id] = g
      BY <1>3, <1>5, <1>6, <2>4 DEF InMap
    <3>5. Joined(g, control, stream, handling, id, Unknown)
      BY <1>2, <1>3, <3>2, <3>3, StreamedNone, UnknownConsumer DEF Joined
    <3>6. ~(id > n + 1)
      BY <1>2, <2>4
    <3> QED
      BY <1>5, <3>2, <3>3, <3>4, <3>5, <3>6, UnknownConsumer DEF Links
  <2> QED
    BY <2>3, <2>4
<1>13. \A id \in Ids : Linked(id)'
  BY <1>1, <1>12 DEF Linked
<1> QED
  BY <1>7, <1>9, <1>10, <1>11, <1>13 DEF Inv

\* The generations of U are closed and unsubscribed.
LEMMA LeaveStep ==
  ASSUME Inv, NEW U \in SUBSET Mapped, Unsubscribed(control, control', U),
         control' \in Seq(CommandSet), generations' \in Seq(GenerationSet),
         Len(generations') = Len(generations),
         \A id \in 1 .. Len(generations) :
           IF id \in U THEN generations'[id].at = "ended"
                       ELSE generations'[id] = generations[id],
         disposed' \in BOOLEAN,
         disposed' => \A id \in 1 .. Len(generations) : generations'[id].at = "ended",
         UNCHANGED <<opening, handling, stream, mainVars>>
  PROVE  Inv'
<1>1. /\ opening' = opening /\ handling' = handling /\ stream' = stream
      /\ retired' = retired /\ watermark' = watermark /\ consumers' = consumers
  BY DEF mainVars
<1>2. /\ control \in Seq(CommandSet) /\ Len(generations) \in Nat
      /\ \A id : id \in Mapped <=> InMap(generations, id)
      /\ \A id : InMap(generations, id) =>
           id \in Ids /\ id \in 1 .. Len(generations)
           /\ generations[id].heard \in Nat \cup {-1}
      /\ consumers \in [Ids -> ConsumerSet]
  BY RendererParts
<1>3. Types'
  BY <1>1 DEF Inv, Types
<1>4. OpensLast'
  BY <1>1 DEF Inv, OpensLast
<1>5. Heard'
  <2>1. /\ \A i \in 1 .. Len(generations) :
             /\ generations[i].at \in {"opening", "waiting"} => generations[i].heard = -1
             /\ generations[i].at = "active" => generations[i].heard >= 0
        /\ \A i \in 1 .. Len(handling) : handling[i].id <= Len(generations)
    BY DEF Inv, Heard
  <2>2. \A i \in 1 .. Len(generations) :
          /\ generations'[i].at \in {"opening", "waiting"} => generations'[i].heard = -1
          /\ generations'[i].at = "active" => generations'[i].heard >= 0
    BY <2>1
  <2> QED
    BY <1>1, <2>1, <2>2 DEF Heard
<1>6. Ordered'
  <2>1. /\ InSequence(control, watermark) /\ watermark <= Len(generations)
        /\ (opening # <<>> => watermark < Len(generations))
    BY DEF Inv, Ordered
  <2>2. InSequence(control', watermark)
    BY <2>1, SequenceUnsubscribed
  <2> QED
    BY <1>1, <2>1, <2>2 DEF Ordered
<1>7. Within(control, control')
  BY WithinUnsubscribed
<1>8. ASSUME NEW id \in Ids
      PROVE  Links(generations', opening, control', stream, handling, id, consumers[id])
  <2>1. Links(generations, opening, control, stream, handling, id, consumers[id])
    BY DEF Inv, Linked
  <2>2. /\ Asks(control', id) <=> Asks(control, id)
        /\ id \notin U => SameFor(control, control', id)
        /\ id \in U => \A c : Left(control', id, c)
    BY CommandedUnsubscribed
  <2>3. CASE id \in U
    <3>1. id \in 1 .. Len(generations)
      BY <1>2, <2>3
    <3>2. ~InMap(generations', id)
      BY <2>3, <3>1 DEF InMap
    <3>3. ~(id > Len(generations'))
      BY <1>2, <3>1
    <3> QED
      BY <2>1, <2>2, <2>3, <3>2, <3>3 DEF Links
  <2>4. CASE id \notin U
    <3>1. /\ InMap(generations', id) <=> InMap(generations, id)
          /\ InMap(generations', id) => generations'[id] = generations[id]
      BY <2>4 DEF InMap
    <3>2. Links(generations', opening, control, stream, handling, id, consumers[id])
      BY <2>1, <3>1, LinksGeneration
    <3>3. SameFor(control, control', id)
      BY <2>2, <2>4
    <3>4. Absent(control, id) => Absent(control', id)
      BY <2>4 DEF Absent, Unsubscribed
    <3>5. InMap(generations', id) => generations'[id].heard \in Nat \cup {-1}
      BY <1>2, <3>1
    <3>6. consumers[id] \in ConsumerSet
      BY <1>2
    <3> QED
      BY <1>7, <3>2, <3>3, <3>4, <3>5, <3>6, LinksCommand
  <2> QED
    BY <2>3, <2>4
<1>9. \A id \in Ids : Linked(id)'
  BY <1>1, <1>8 DEF Linked
<1> QED
  BY <1>3, <1>4, <1>5, <1>6, <1>9 DEF Inv

LEMMA CloseStep ==
  ASSUME Inv, NEW id \in Mapped, Close(id)
  PROVE  Inv'
<1>1. /\ ~disposed /\ generations' = [generations EXCEPT ![id].at = "ended"]
      /\ control' = Append(control, Command("unsubscribe", id, None))
      /\ disposed' = disposed /\ UNCHANGED <<opening, handling, stream, mainVars>>
  BY DEF Close
<1>2. /\ generations \in Seq(GenerationSet) /\ control \in Seq(CommandSet)
      /\ id \in Ids /\ id \in 1 .. Len(generations)
  BY RendererParts
<1>3. generations[id] \in GenerationSet
  BY <1>2
<1>4. [generations[id] EXCEPT !.at = "ended"] \in GenerationSet
      /\ [generations[id] EXCEPT !.at = "ended"].at = "ended"
  BY <1>3 DEF GenerationSet
<1>5. generations' = [generations EXCEPT ![id] = [generations[id] EXCEPT !.at = "ended"]]
  BY <1>1
<1>6. /\ generations' \in Seq(GenerationSet) /\ Len(generations') = Len(generations)
      /\ \A i \in 1 .. Len(generations) :
           generations'[i] = IF i = id THEN [generations[id] EXCEPT !.at = "ended"]
                             ELSE generations[i]
  BY <1>2, <1>4, <1>5
<1>7. /\ Command("unsubscribe", id, None) \in CommandSet
      /\ Command("unsubscribe", id, None).type = "unsubscribe"
      /\ Command("unsubscribe", id, None).id = id
  BY <1>2, CommandMade DEF None
<1>8. Pushed(control, control', Command("unsubscribe", id, None))
  BY <1>1 DEF Pushed
<1>9. Unsubscribed(control, control', {id}) /\ control' \in Seq(CommandSet)
  BY <1>2, <1>7, <1>8, UnsubscribedOne, Places
<1>10. \A i \in 1 .. Len(generations) :
         IF i \in {id} THEN generations'[i].at = "ended" ELSE generations'[i] = generations[i]
  BY <1>4, <1>6
<1>11. disposed' \in BOOLEAN /\ ~disposed' /\ {id} \in SUBSET Mapped
  BY <1>1 DEF Inv, Types
<1> QED
  BY <1>1, <1>6, <1>9, <1>10, <1>11, LeaveStep

LEMMA DisposeStep ==
  ASSUME Inv, Dispose
  PROVE  Inv'
<1>1. /\ disposed' = TRUE
      /\ generations' = [id \in DOMAIN generations |-> [generations[id] EXCEPT !.at = "ended"]]
      /\ \E seq \in InOrder(Mapped) : control' = control \o Unsubscribes(seq)
      /\ UNCHANGED <<opening, handling, stream, mainVars>>
  BY DEF Dispose, Disposed
<1>2. /\ generations \in Seq(GenerationSet) /\ control \in Seq(CommandSet)
      /\ Len(generations) \in Nat
      /\ \A id : id \in Mapped <=> InMap(generations, id)
      /\ \A id : InMap(generations, id) => id \in Ids /\ id \in 1 .. Len(generations)
  BY RendererParts
<1>3. Mapped \in SUBSET Ids
  BY <1>2
<1>4. PICK seq \in InOrder(Mapped) : control' = control \o Unsubscribes(seq)
  BY <1>1
<1>5. seq \in Seq(Mapped) /\ \A id \in Mapped : \E i \in 1 .. Len(seq) : seq[i] = id
  BY <1>3, <1>4, OrderedIds
<1>6. control' \in Seq(CommandSet) /\ Unsubscribed(control, control', Mapped)
  BY <1>2, <1>3, <1>4, <1>5, UnsubscribedAll
<1>7. \A id \in 1 .. Len(generations) :
        /\ generations[id] \in GenerationSet
        /\ [generations[id] EXCEPT !.at = "ended"] \in GenerationSet
        /\ [generations[id] EXCEPT !.at = "ended"].at = "ended"
        /\ generations[id].at = "ended" =>
             [generations[id] EXCEPT !.at = "ended"] = generations[id]
  <2>1. \A id \in 1 .. Len(generations) : generations[id] \in GenerationSet
    BY <1>2
  <2>2. ASSUME NEW g \in GenerationSet
        PROVE  /\ [g EXCEPT !.at = "ended"] \in GenerationSet
               /\ [g EXCEPT !.at = "ended"].at = "ended"
               /\ g.at = "ended" => [g EXCEPT !.at = "ended"] = g
    BY DEF GenerationSet
  <2> QED
    BY <2>1, <2>2
<1>8. generations' = [id \in 1 .. Len(generations) |-> [generations[id] EXCEPT !.at = "ended"]]
  BY <1>1, <1>2
<1>9. /\ generations' \in Seq(GenerationSet) /\ Len(generations') = Len(generations)
      /\ \A id \in 1 .. Len(generations) :
           generations'[id] = [generations[id] EXCEPT !.at = "ended"]
  BY <1>2, <1>7, <1>8
<1>10. \A id \in 1 .. Len(generations) :
         IF id \in Mapped THEN generations'[id].at = "ended"
                          ELSE generations'[id] = generations[id]
  BY <1>2, <1>7, <1>9 DEF InMap
<1>11. \A id \in 1 .. Len(generations) : generations'[id].at = "ended"
  BY <1>7, <1>9
<1> QED
  BY <1>1, <1>6, <1>9, <1>10, <1>11, LeaveStep


\* A generation becomes g.
LEMMA Regenerated ==
  ASSUME NEW gs \in Seq(GenerationSet), NEW id \in 1 .. Len(gs), NEW g \in GenerationSet,
         NEW gt, gt = [gs EXCEPT ![id] = g]
  PROVE  /\ gt \in Seq(GenerationSet) /\ Len(gt) = Len(gs)
         /\ \A i \in 1 .. Len(gs) : gt[i] = IF i = id THEN g ELSE gs[i]
OBVIOUS

\* Nobody has asked for the generation that the sink is told of, or for a later one.
LEMMA OpeningParts ==
  ASSUME Inv, opening # <<>>
  PROVE  /\ opening = <<Len(generations)>> /\ Len(generations) \in 1 .. Len(generations)
         /\ Last(opening) = Len(generations) /\ Front(opening) = <<>>
         /\ Len(generations) \in Ids
         /\ consumers[Len(generations)] = Unknown /\ ~Asks(control, Len(generations))
         /\ \A i \in 1 .. Len(control) :
              control[i].type = "subscribe" => control[i].id < Len(generations)
<1> DEFINE n == Len(generations)
<1>1. opening = <<n>> /\ n # 0 /\ n \in Nat /\ n <= NumSubscriptions /\ NumSubscriptions \in Nat
  BY RendererParts DEF Inv, OpensLast
<1>2. n \in 1 .. n /\ n \in Ids
  BY <1>1 DEF Ids
<1>3. ASSUME NEW m
      PROVE  Last(<<m>>) = m /\ Front(<<m>>) = <<>>
  <2>1. Len(<<m>>) = 1 /\ <<m>>[1] = m
    OBVIOUS
  <2>2. Last(<<m>>) = m
    BY <2>1 DEF Last
  <2>3. SubSeq(<<m>>, 1, 0) = <<>>
    OBVIOUS
  <2>4. Len(<<m>>) - 1 = 0
    BY <2>1
  <2>5. Front(<<m>>) = SubSeq(<<m>>, 1, Len(<<m>>) - 1)
    BY ONLY DEF Front
  <2> QED
    BY <2>2, <2>3, <2>4, <2>5
<1>4. \A id \in Ids : Links(generations, opening, control, stream, handling, id, consumers[id])
  BY DEF Inv, Linked
<1>5. consumers[n] = Unknown /\ ~Asks(control, n)
  BY <1>1, <1>2, <1>4 DEF Links
<1>6. ASSUME NEW i \in 1 .. Len(control), control[i].type = "subscribe"
      PROVE  control[i].id < n
  <2>1. control \in Seq(CommandSet)
    BY RendererParts
  <2>2. control[i] \in CommandSet
    BY <2>1
  <2>3. control[i].id \in Ids /\ control[i].id \in Nat
    BY <2>2, CommandParts DEF Ids
  <2>4. control[i].id # n
    BY <1>5, <1>6 DEF Asks
  <2>5. ~Absent(control, control[i].id)
    BY DEF Absent
  <2>6. ~(control[i].id > n)
    BY <1>4, <2>3, <2>5 DEF Links
  <2> QED
    BY <1>1, <2>3, <2>4, <2>6
<1> QED
  BY <1>1, <1>2, <1>3, <1>5, <1>6

LEMMA OpenedStep ==
  ASSUME Inv, Opened
  PROVE  Inv'
<1> DEFINE n == Len(generations)
<1>1. /\ opening # <<>> /\ opening' = Front(opening)
      /\ handling' = handling /\ disposed' = disposed /\ stream' = stream
      /\ retired' = retired /\ watermark' = watermark /\ consumers' = consumers
  BY DEF Opened, mainVars
<1>2. /\ opening = <<n>> /\ opening' = <<>> /\ Last(opening) = n
      /\ n \in Ids /\ n \in 1 .. n
      /\ consumers[n] = Unknown /\ ~Asks(control, n)
      /\ \A i \in 1 .. Len(control) : control[i].type = "subscribe" => control[i].id < n
  BY <1>1, OpeningParts
<1>3. /\ generations \in Seq(GenerationSet) /\ n \in Nat /\ watermark \in Nat
      /\ control \in Seq(CommandSet) /\ consumers \in [Ids -> ConsumerSet]
      /\ \A id : id \in Mapped <=> InMap(generations, id)
      /\ \A id : InMap(generations, id) =>
           id \in Ids /\ id \in 1 .. n /\ generations[id].heard \in Nat \cup {-1}
  BY RendererParts
<1>4. \A id \in Ids : Links(generations, opening, control, stream, handling, id, consumers[id])
  BY DEF Inv, Linked
<1>5. /\ \A id \in 1 .. n : generations[id].at = "opening" => id = n
      /\ disposed => \A id \in 1 .. n : generations[id].at = "ended"
      /\ \A id \in 1 .. n :
           /\ generations[id].at \in {"opening", "waiting"} => generations[id].heard = -1
           /\ generations[id].at = "active" => generations[id].heard >= 0
      /\ \A i \in 1 .. Len(handling) : handling[i].id <= n
      /\ InSequence(control, watermark) /\ watermark < n
  BY <1>1 DEF Inv, OpensLast, Heard, Ordered
<1>6. n \in Mapped => ~disposed /\ generations[n].heard \in Nat \cup {-1}
  BY <1>2, <1>3, <1>5 DEF InMap
<1>7. PICK a \in {"waiting", "ended"} :
        \/ n \notin Mapped /\ generations' = generations /\ control' = control /\ a = "ended"
        \/ /\ n \in Mapped /\ generations' = [generations EXCEPT ![n].at = a]
           /\ \/ a = "waiting" /\ control' = Append(control, Command("subscribe", n, None))
              \/ a = "ended" /\ control' = control
  <2>1. \/ n \notin Mapped /\ UNCHANGED <<generations, control>>
        \/ /\ n \in Mapped
           /\ generations' = [generations EXCEPT ![n].at = "waiting"]
           /\ control' = Append(control, Command("subscribe", n, None))
        \/ /\ n \in Mapped
           /\ generations' = [generations EXCEPT ![n].at = "ended"]
           /\ UNCHANGED control
    BY <1>2 DEF Opened
  <2> QED
    BY <2>1
<1> DEFINE g == [generations[n] EXCEPT !.at = a]
<1>8. g \in GenerationSet /\ g.at = a /\ g.heard = generations[n].heard
  <2>1. generations[n] \in GenerationSet
    BY <1>2, <1>3
  <2>2. g \in GenerationSet
    BY <2>1 DEF GenerationSet
  <2>3. g.at = a /\ g.heard = generations[n].heard
    BY <2>1 DEF GenerationSet
  <2> QED
    BY <2>2, <2>3
<1>9. /\ generations' \in Seq(GenerationSet) /\ Len(generations') = n
      /\ \A i \in 1 .. n : i # n => generations'[i] = generations[i]
      /\ n \notin Mapped => generations'[n] = generations[n] /\ generations[n].at = "ended"
      /\ n \in Mapped => generations'[n] = g
  <2>1. CASE n \notin Mapped
    BY <1>2, <1>3, <1>7, <2>1 DEF InMap
  <2>2. CASE n \in Mapped
    <3>1. generations' = [generations EXCEPT ![n] = g]
      BY <1>7, <2>2
    <3> HIDE DEF g
    <3> QED
      BY <1>2, <1>3, <1>8, <2>2, <3>1, Regenerated
  <2> QED
    BY <2>1, <2>2
<1> HIDE DEF g
<1>10. /\ Command("subscribe", n, None) \in CommandSet
       /\ Command("subscribe", n, None).type = "subscribe"
       /\ Command("subscribe", n, None).id = n
  BY <1>2, CommandMade DEF None
<1>11. \/ control' = control
       \/ Pushed(control, control', Command("subscribe", n, None))
  BY <1>7 DEF Pushed
<1>12. control' \in Seq(CommandSet)
  BY <1>3, <1>10, <1>11, Places
<1>13. Types'
  <2>1. <<>> \in Seq(Ids)
    OBVIOUS
  <2> QED
    BY <1>1, <1>2, <1>9, <1>12, <2>1 DEF Inv, Types
<1>14. OpensLast'
  <2>1. \A id \in 1 .. n : generations'[id].at # "opening"
    BY <1>5, <1>8, <1>9
  <2> QED
    BY <1>2, <1>9, <2>1 DEF OpensLast
<1>15. Heard'
  <2>1. \A id \in 1 .. n :
          /\ generations'[id].at \in {"opening", "waiting"} => generations'[id].heard = -1
          /\ generations'[id].at = "active" => generations'[id].heard >= 0
    <3>1. n \in Mapped => generations[n].heard = -1
      <4>1. n \in Mapped => generations[n].at \in {"opening", "waiting", "active"}
        <5>1. generations[n] \in GenerationSet
          BY <1>2, <1>3
        <5> QED
          BY <1>3, <5>1 DEF InMap, GenerationSet
      <4>2. InMap(generations, n) => Joined(generations[n], control, stream, handling, n, Unknown)
        BY <1>2, <1>4 DEF Links
      <4>3. Joined(generations[n], control, stream, handling, n, Unknown) =>
              generations[n].at = "opening"
        BY <1>2, UnknownConsumer DEF Joined
      <4> QED
        BY <1>2, <1>3, <1>5, <4>1, <4>2, <4>3
    <3> QED
      BY <1>5, <1>8, <1>9, <3>1
  <2>2. disposed => \A id \in 1 .. n : generations'[id].at = "ended"
    BY <1>5, <1>6, <1>9
  <2> QED
    BY <1>1, <1>5, <1>9, <2>1, <2>2 DEF Heard
<1>16. Ordered'
  <2>1. InSequence(control', watermark)
    BY <1>2, <1>3, <1>5, <1>10, <1>11, SequenceMore
  <2>2. watermark <= n
    BY <1>3, <1>5
  <2> QED
    BY <1>1, <1>2, <1>9, <2>1, <2>2 DEF Ordered
<1>17. ASSUME NEW id \in Ids
       PROVE  Links(generations', opening', control', stream, handling, id, consumers[id])
  <2>1. \A i : <<>> # <<i>>
    OBVIOUS
  <2>2. CASE id # n
    <3>1. /\ InMap(generations', id) <=> InMap(generations, id)
          /\ InMap(generations', id) => generations'[id] = generations[id]
      BY <1>9, <2>2 DEF InMap
    <3>2. Links(generations', opening', control, stream, handling, id, consumers[id])
      BY <1>2, <1>4, <1>9, <2>1, <3>1, LinksGeneration
    <3>3. CASE control' = control
      BY <3>2, <3>3
    <3>4. CASE Pushed(control, control', Command("subscribe", n, None))
      <4>1. SameFor(control, control', id)
        BY <1>3, <1>10, <2>2, <3>4, CommandedOther
      <4>2. Within(control, control')
        BY <1>3, <1>10, <3>4, WithinMore
      <4>3. Absent(control, id) => Absent(control', id)
        <5>1. /\ \A i \in 1 .. Len(control) : control'[i] = control[i]
              /\ control'[Len(control')] = Command("subscribe", n, None)
              /\ \A i \in 1 .. Len(control') : i \in 1 .. Len(control) \/ i = Len(control')
          BY <1>3, <1>10, <3>4, Places
        <5> QED
          BY <1>10, <2>2, <5>1 DEF Absent
      <4>4. InMap(generations', id) => generations'[id].heard \in Nat \cup {-1}
        BY <1>3, <3>1
      <4>5. consumers[id] \in ConsumerSet
        BY <1>3
      <4> QED
        BY <3>2, <4>1, <4>2, <4>3, <4>4, <4>5, LinksCommand
    <3> QED
      BY <1>11, <3>3, <3>4
  <2>3. CASE id = n
    <3>1. Links(generations, opening, control, stream, handling, n, Unknown)
      BY <1>2, <1>4
    <3>2. ~(n > Len(generations'))
      BY <1>3, <1>9
    <3>3. CASE n \notin Mapped
      <4>1. control' = control
        BY <1>7, <3>3
      <4>2. ~InMap(generations, n) /\ ~InMap(generations', n)
        BY <1>3, <1>9, <3>3 DEF InMap
      <4> QED
        BY <1>2, <2>1, <2>3, <3>1, <3>2, <4>1, <4>2 DEF Links
    <3>4. CASE n \in Mapped /\ a = "waiting"
      <4>1. Pushed(control, control', Command("subscribe", n, None))
        BY <1>7, <3>4 DEF Pushed
      <4>2. Asks(control', n) /\ (Leaves(control', n) <=> Leaves(control, n))
        BY <1>2, <1>3, <1>10, <4>1, CommandedSubscribe
      <4>3. Joined(generations[n], control, stream, handling, n, Unknown) /\ Counted(Unknown)
        BY <1>3, <3>1, <3>4 DEF Links
      <4>4. Joined(generations'[n], control', stream, handling, n, Unknown)
        BY <1>8, <1>9, <3>4, <4>2, <4>3, UnknownConsumer DEF Joined
      <4>5. InMap(generations', n)
        BY <1>2, <1>8, <1>9, <3>4 DEF InMap
      <4> QED
        BY <1>2, <2>1, <2>3, <3>2, <4>3, <4>4, <4>5 DEF Links
    <3>5. CASE n \in Mapped /\ a = "ended"
      <4>1. control' = control
        BY <1>7, <3>5
      <4>2. ~InMap(generations', n)
        BY <1>8, <1>9, <3>5 DEF InMap
      <4>3. Left(control, n, Unknown)
        BY <1>2, UnknownConsumer DEF Left, Asks
      <4> QED
        BY <1>2, <2>1, <2>3, <3>1, <3>2, <4>1, <4>2, <4>3 DEF Links
    <3> QED
      BY <3>3, <3>4, <3>5
  <2> QED
    BY <2>2, <2>3
<1>18. \A id \in Ids : Linked(id)'
  BY <1>1, <1>17 DEF Linked
<1> QED
  BY <1>13, <1>14, <1>15, <1>16, <1>18 DEF Inv

\* A message that is not for it has left the stream, or it is not in the map.
LEMMA LinksPassed ==
  ASSUME NEW gs, NEW op, NEW q, NEW s \in Seq(MessageSet), NEW t, NEW f, Dropped(s, t, f),
         NEW h, NEW id \in Ids, NEW c \in ConsumerSet,
         Links(gs, op, q, s, <<>>, id, c), f.id # id \/ ~InMap(gs, id),
         InMap(gs, id) => gs[id].heard \in Nat \cup {-1}
  PROVE  Links(gs, op, q, t, h, id, c)
<1>1. Absent(s, id) => Absent(t, id)
  BY PlacesTail DEF Absent
<1>2. InMap(gs, id) => Joined(gs[id], q, t, h, id, c)
  <2>1. SUFFICES ASSUME InMap(gs, id)
                 PROVE  Joined(gs[id], q, t, h, id, c)
    OBVIOUS
  <2>2. Joined(gs[id], q, s, <<>>, id, c)
    BY <2>1 DEF Links
  <2>3. Streamed(s, id, gs[id].heard, c)
    BY <2>2 DEF Joined
  <2>4. Streamed(t, id, gs[id].heard, c)
    BY <2>1, <2>3, StreamedRest
  <2>5. Answers(s, <<>>, q, id, c) => Answers(t, h, q, id, c)
    BY <2>1, AnswersReceived
  <2> QED
    BY <2>2, <2>4, <2>5 DEF Joined
<1> QED
  BY <1>1, <1>2 DEF Links

\* A message of a generation in the map is the next one, and #dispatch lets it pass.
LEMMA NextPasses ==
  ASSUME Inv, opening = <<>>, handling = <<>>, NEW f, NEW t, Dropped(stream, t, f),
         InMap(generations, f.id)
  PROVE  /\ ~disposed /\ generations[f.id].at \in {"waiting", "active"}
         /\ f.sequence = generations[f.id].heard + 1
         /\ (f.type = "subscribed") = (generations[f.id].at = "waiting")
         /\ f.type = "end" => consumers[f.id].at = "closed"
<1> DEFINE id == f.id
           g == generations[id]
<1>1. /\ generations \in Seq(GenerationSet) /\ stream \in Seq(MessageSet)
      /\ consumers \in [Ids -> ConsumerSet]
      /\ id \in Ids /\ id \in 1 .. Len(generations) /\ g.heard \in Nat \cup {-1}
  BY RendererParts
<1>2. g.at \in {"opening", "waiting", "active"}
  <2>1. g \in GenerationSet
    BY <1>1
  <2> QED
    BY <2>1 DEF InMap, GenerationSet
<1>3. /\ g.at # "opening" /\ ~disposed
      /\ g.at = "waiting" => g.heard = -1
      /\ g.at = "active" => g.heard >= 0
  BY <1>1 DEF Inv, OpensLast, Heard, InMap
<1>4. Links(generations, opening, control, stream, handling, id, consumers[id])
  BY <1>1 DEF Inv, Linked
<1>5. Streamed(stream, id, g.heard, consumers[id])
  BY <1>4 DEF Links, Joined
<1>6. /\ f.sequence = g.heard + 1 /\ ((f.type = "subscribed") = (f.sequence = 0))
      /\ f.type = "end" => consumers[id].at = "closed"
  <2> DEFINE h == g.heard
             c == consumers[id]
  <2>1. /\ h \in Nat \cup {-1} /\ id \in Ids /\ Streamed(stream, id, h, c) /\ f.id = id
        /\ stream \in Seq(MessageSet)
    BY <1>1, <1>5
  <2> HIDE DEF h, c, id
  <2>2. /\ f.sequence = h + 1 /\ ((f.type = "subscribed") = (f.sequence = 0))
        /\ f.type = "end" => c.at = "closed"
    BY <2>1, StreamedHead
  <2> QED
    BY <2>2 DEF h, c
<1>7. f.sequence = 0 <=> g.at = "waiting"
  BY <1>1, <1>2, <1>3, <1>6
<1> QED
  BY <1>2, <1>3, <1>6, <1>7

LEMMA ReceiveStep ==
  ASSUME Inv, Receive
  PROVE  Inv'
<1> DEFINE f == Head(stream)
           n == Len(generations)
<1>1. /\ opening = <<>> /\ handling = <<>> /\ stream # <<>> /\ stream' = Tail(stream)
      /\ opening' = opening /\ disposed' = disposed /\ control' = control
      /\ retired' = retired /\ watermark' = watermark /\ consumers' = consumers
  BY DEF Receive, mainVars
<1>2. /\ generations \in Seq(GenerationSet) /\ n \in Nat /\ stream \in Seq(MessageSet)
      /\ consumers \in [Ids -> ConsumerSet]
      /\ \A id : id \in Mapped <=> InMap(generations, id)
      /\ \A id : InMap(generations, id) =>
           id \in Ids /\ id \in 1 .. n /\ generations[id].heard \in Nat \cup {-1}
  BY RendererParts
<1>3. Dropped(stream, stream', f)
  BY <1>1 DEF Dropped
<1>4. f \in MessageSet /\ stream' \in Seq(MessageSet)
  BY <1>2, <1>3, PlacesTail
<1>5. f.id \in Ids /\ f.sequence \in Nat /\ f.type \in {"subscribed", "batch", "end"}
  BY <1>4, MessageParts
<1>6. \A id \in Ids : Links(generations, opening, control, stream, <<>>, id, consumers[id])
  BY <1>1 DEF Inv, Linked
<1>7. ASSUME InMap(generations, f.id)
      PROVE  /\ ~disposed /\ generations[f.id].at \in {"waiting", "active"}
             /\ f.sequence = generations[f.id].heard + 1
             /\ (f.type = "subscribed") = (generations[f.id].at = "waiting")
             /\ f.type = "end" => consumers[f.id].at = "closed"
  BY <1>1, <1>3, <1>7, NextPasses
<1>8. Passes(f) <=> InMap(generations, f.id)
  <2>1. InMap(generations, f.id) => f.sequence > generations[f.id].heard
    BY <1>2, <1>5, <1>7
  <2> QED
    BY <1>2, <1>7, <2>1 DEF Passes
<1>9. /\ opening = <<>>
      /\ \A id \in 1 .. n : generations[id].at # "opening"
      /\ disposed => \A id \in 1 .. n : generations[id].at = "ended"
      /\ \A id \in 1 .. n :
           /\ generations[id].at \in {"opening", "waiting"} => generations[id].heard = -1
           /\ generations[id].at = "active" => generations[id].heard >= 0
  BY <1>1 DEF Inv, OpensLast, Heard
<1>10. Ordered' \/ Len(generations') # n
  BY <1>1 DEF Inv, Ordered
<1>11. \A id \in Ids : id # f.id \/ ~InMap(generations, id) =>
         \A h : Links(generations, opening, control, stream', h, id, consumers[id])
  <2>1. ASSUME NEW id \in Ids, id # f.id \/ ~InMap(generations, id), NEW h
        PROVE  Links(generations, opening, control, stream', h, id, consumers[id])
    <3>1. Links(generations, opening, control, stream, <<>>, id, consumers[id])
      BY <1>6
    <3>2. /\ consumers[id] \in ConsumerSet /\ (f.id # id \/ ~InMap(generations, id))
          /\ InMap(generations, id) => generations[id].heard \in Nat \cup {-1}
      BY <1>2, <2>1
    <3> HIDE DEF f
    <3> QED
      BY <1>2, <1>3, <3>1, <3>2, LinksPassed
  <2> QED
    BY <2>1
<1>12. CASE ~InMap(generations, f.id)
  <2>1. generations' = generations /\ handling' = handling
    BY <1>8, <1>12 DEF Receive
  <2>2. Types' /\ OpensLast' /\ Heard' /\ Ordered'
    BY <1>1, <1>4, <1>10, <2>1 DEF Inv, Types, OpensLast, Heard
  <2>3. \A id \in Ids : Linked(id)'
    BY <1>1, <1>11, <1>12, <2>1 DEF Linked
  <2> QED
    BY <2>2, <2>3 DEF Inv
<1>13. CASE InMap(generations, f.id)
  <2> DEFINE a == IF f.type = "end" THEN "ended" ELSE "active"
             g == [generations[f.id] EXCEPT !.heard = f.sequence, !.at = a]
  <2>1. /\ generations' = [generations EXCEPT ![f.id].heard = f.sequence, ![f.id].at = a]
        /\ handling' = IF f.type = "batch" THEN <<f>> ELSE <<>>
    BY <1>8, <1>13 DEF Receive
  <2>2. a \in {"ended", "active"} /\ (a = "ended" <=> f.type = "end")
    OBVIOUS
  <2> HIDE DEF a
  <2>3. f.id \in 1 .. n /\ generations[f.id] \in GenerationSet
    BY <1>2, <1>13
  <2>4. g \in GenerationSet /\ g.at = a /\ g.heard = f.sequence
    <3>1. g \in GenerationSet
      BY <1>5, <2>2, <2>3 DEF GenerationSet
    <3>2. g.at = a
      BY <2>3 DEF GenerationSet
    <3>3. g.heard = f.sequence
      BY <2>3 DEF GenerationSet
    <3> QED
      BY <3>1, <3>2, <3>3
  <2>5. generations' = [generations EXCEPT ![f.id] = g]
    BY <1>2, <2>1, <2>3
  <2> HIDE DEF g
  <2>6. /\ generations' \in Seq(GenerationSet) /\ Len(generations') = n
        /\ generations'[f.id] = g
        /\ \A i \in 1 .. n : i # f.id => generations'[i] = generations[i]
    BY <1>2, <2>3, <2>4, <2>5, Regenerated
  <2>7. Types'
    <3>1. handling' \in Seq(MessageSet) /\ Len(handling') <= 1
      <4>1. CASE f.type = "batch"
        <5>1. handling' = <<f>>
          BY <2>1, <4>1
        <5> HIDE DEF f
        <5> QED
          BY <1>4, <5>1
      <4>2. CASE f.type # "batch"
        BY <2>1, <4>2
      <4> QED
        BY <4>1, <4>2
    <3> QED
      BY <1>1, <1>4, <2>6, <3>1 DEF Inv, Types
  <2>8. OpensLast'
    <3>1. \A id \in 1 .. n : generations'[id].at # "opening"
      BY <1>9, <2>2, <2>4, <2>6
    <3> QED
      BY <1>1, <1>9, <2>6, <3>1 DEF OpensLast
  <2>9. Heard'
    <3>1. \A id \in 1 .. n :
            /\ generations'[id].at \in {"opening", "waiting"} => generations'[id].heard = -1
            /\ generations'[id].at = "active" => generations'[id].heard >= 0
      BY <1>5, <1>9, <2>2, <2>4, <2>6
    <3>2. \A i \in 1 .. Len(handling') : handling'[i].id <= n
      <4>1. CASE f.type = "batch"
        <5>1. handling' = <<f>>
          BY <2>1, <4>1
        <5>2. f.id <= n
          BY <1>2, <2>3
        <5> HIDE DEF f
        <5> QED
          BY <5>1, <5>2
      <4>2. CASE f.type # "batch"
        BY <2>1, <4>2
      <4> QED
        BY <4>1, <4>2
    <3>3. ~disposed
      BY <1>7, <1>13
    <3> QED
      BY <1>1, <2>6, <3>1, <3>2, <3>3 DEF Heard
  <2>10. ASSUME NEW id \in Ids
         PROVE  Links(generations', opening, control, stream', handling', id, consumers[id])
    <3>1. CASE id # f.id
      <4>1. Links(generations, opening, control, stream', handling', id, consumers[id])
        BY <1>11, <3>1
      <4>2. /\ InMap(generations', id) <=> InMap(generations, id)
            /\ InMap(generations', id) => generations'[id] = generations[id]
        BY <2>6, <3>1 DEF InMap
      <4> QED
        BY <2>6, <4>1, <4>2, LinksGeneration
    <3>2. CASE id = f.id
      <4> DEFINE c == consumers[id]
                 h == generations[id].heard
      <4>1. Links(generations, opening, control, stream, <<>>, id, c)
        BY <1>6
      <4>2. /\ c \in ConsumerSet /\ h \in Nat \cup {-1}
            /\ Joined(generations[id], control, stream, <<>>, id, c)
        BY <1>2, <1>13, <3>2, <4>1 DEF Links
      <4>3. ~(id > Len(generations')) /\ opening # <<id>>
        BY <1>1, <1>2, <2>3, <2>6, <3>2
      <4>4. /\ Counted(c) /\ (Asks(control, id) => c = Unknown)
        BY <4>1 DEF Links
      <4> HIDE DEF c
      <4>5. CASE f.type = "end"
        <5>1. ~InMap(generations', id)
          BY <2>2, <2>4, <2>6, <3>2, <4>5 DEF InMap
        <5>2. c.at = "closed"
          BY <1>7, <1>13, <3>2, <4>5 DEF c
        <5>3. ~Asks(control, id) /\ ~Holds(c)
          BY <4>4, <5>2, UnknownConsumer DEF Holds
        <5>4. Left(control, id, c)
          BY <5>3 DEF Left, Asks
        <5> QED
          BY <4>3, <4>4, <5>1, <5>4 DEF Links, c
      <4>6. CASE f.type # "end"
        <5>1. g.at = "active"
          BY <2>2, <2>4, <4>6
        <5>2. InMap(generations', id) /\ generations'[id] = g
          BY <2>3, <2>6, <3>2, <5>1 DEF InMap
        <5>3. Streamed(stream, id, h, c) /\ f.sequence \in Nat \cup {-1}
          BY <1>5, <4>2 DEF Joined
        <5>4. Streamed(stream', id, f.sequence, c)
          <6> HIDE DEF f, h
          <6> QED
            BY <1>2, <1>3, <3>2, <4>2, <4>6, <5>3, StreamedRest
        <5>5. c.at # "unknown" \/ Asks(control, id)
          BY <1>7, <1>13, <3>2, <4>2 DEF Joined
        <5>6. Answers(stream, <<>>, control, id, c) => Answers(stream', handling', control, id, c)
          <6>1. f.type = "batch" /\ f.id = id => handling' = <<f>>
            BY <2>1
          <6> HIDE DEF f
          <6> QED
            BY <1>2, <1>3, <6>1, AnswersReceived
        <5>7. Joined(g, control, stream', handling', id, c)
          BY <2>4, <4>2, <5>4, <5>5, <5>6 DEF Joined
        <5> QED
          BY <4>3, <4>4, <5>2, <5>7 DEF Links, c
      <4> QED
        BY <4>5, <4>6
    <3> QED
      BY <3>1, <3>2
  <2>11. \A id \in Ids : Linked(id)'
    BY <1>1, <2>10 DEF Linked
  <2> QED
    BY <1>10, <2>6, <2>7, <2>8, <2>9, <2>11 DEF Inv
<1> QED
  BY <1>12, <1>13

\* The batch is acknowledged.
LEMMA LinksHandled ==
  ASSUME NEW gs, Len(gs) \in Nat, NEW op, NEW q \in Seq(CommandSet), NEW r, NEW s,
         NEW f \in MessageSet, f.id <= Len(gs), NEW id \in Ids, NEW c,
         Pushed(q, r, Command("acknowledge", f.id, f.sequence)),
         Links(gs, op, q, s, <<f>>, id, c)
  PROVE  Links(gs, op, r, s, <<>>, id, c)
<1> DEFINE e == Command("acknowledge", f.id, f.sequence)
<1>1. e \in CommandSet /\ e.type = "acknowledge" /\ e.id = f.id /\ f.id \in Nat
  BY MessageParts, CommandMade DEF Ids
<1> HIDE DEF e
<1>2. Pushed(q, r, e)
  BY DEF e
<1>3. SameFor(q, r, id)
  BY <1>1, <1>2, CommandedOther
<1>4. id > Len(gs) /\ Absent(q, id) => Absent(r, id)
  <2>1. /\ \A i \in 1 .. Len(q) : r[i] = q[i]
        /\ r[Len(r)] = e
        /\ \A i \in 1 .. Len(r) : i \in 1 .. Len(q) \/ i = Len(r)
    BY <1>1, <1>2, Places
  <2>2. id > Len(gs) => e.id # id
    BY <1>1 DEF Ids
  <2> QED
    BY <2>1, <2>2 DEF Absent
<1>5. Answers(s, <<f>>, q, id, c) => Answers(s, <<>>, r, id, c)
  BY AnswersHandled
<1>6. InMap(gs, id) => Joined(gs[id], r, s, <<>>, id, c)
  BY <1>3, <1>5 DEF Links, Joined, SameFor
<1> QED
  BY <1>3, <1>4, <1>6 DEF Links, SameFor

LEMMA HandledStep ==
  ASSUME Inv, Handled
  PROVE  Inv'
<1> DEFINE f == Head(handling)
           e == Command("acknowledge", f.id, f.sequence)
<1>1. /\ opening = <<>> /\ handling # <<>> /\ handling' = <<>>
      /\ control' = (IF disposed THEN control ELSE Append(control, e))
      /\ generations' = generations /\ opening' = opening /\ disposed' = disposed
      /\ stream' = stream
      /\ retired' = retired /\ watermark' = watermark /\ consumers' = consumers
  BY DEF Handled, mainVars
<1>2. /\ Len(generations) \in Nat /\ control \in Seq(CommandSet) /\ watermark \in Nat
      /\ \A id : InMap(generations, id) => id \in 1 .. Len(generations)
  BY RendererParts
<1>3. handling = <<f>> /\ f \in MessageSet /\ f.id <= Len(generations)
  <2>1. handling \in Seq(MessageSet) /\ Len(handling) <= 1
    BY DEF Inv, Types
  <2>2. \A i \in 1 .. Len(handling) : handling[i].id <= Len(generations)
    BY DEF Inv, Heard
  <2>3. Len(handling) = 1 /\ 1 \in 1 .. Len(handling)
    <3> DEFINE k == Len(handling)
    <3>1. k \in Nat /\ k # 0 /\ k <= 1
      BY <1>1, <2>1, EmptySeq
    <3> HIDE DEF k
    <3>2. k = 1
      BY <3>1
    <3>3. 1 \in 1 .. 1
      OBVIOUS
    <3> QED
      BY <3>2, <3>3 DEF k
  <2>4. f = handling[1] /\ handling = <<handling[1]>> /\ handling[1] \in MessageSet
    BY <2>1, <2>3
  <2> QED
    BY <2>2, <2>3, <2>4
<1>4. e \in CommandSet /\ e.type = "acknowledge"
  BY <1>3, MessageParts, CommandMade
<1> HIDE DEF f, e
<1>5. ~disposed => Pushed(control, control', e)
  BY <1>1 DEF Pushed
<1>6. control' \in Seq(CommandSet)
  BY <1>1, <1>2, <1>4, <1>5, Places
<1>7. Types'
  <2>1. <<>> \in Seq(MessageSet) /\ Len(<<>>) <= 1
    OBVIOUS
  <2> QED
    BY <1>1, <1>6, <2>1 DEF Inv, Types
<1>8. OpensLast' /\ Heard'
  <2>1. \A i \in 1 .. Len(handling') : handling'[i].id <= Len(generations)
    BY <1>1
  <2> QED
    BY <1>1, <2>1 DEF Inv, OpensLast, Heard
<1>9. Ordered'
  <2>1. InSequence(control, watermark)
    BY DEF Inv, Ordered
  <2>2. InSequence(control', watermark)
    BY <1>1, <1>2, <1>4, <1>5, <2>1, SequenceMore
  <2> QED
    BY <1>1, <2>2 DEF Inv, Ordered
<1>10. ASSUME NEW id \in Ids
       PROVE  Links(generations, opening, control', stream, <<>>, id, consumers[id])
  <2>1. Links(generations, opening, control, stream, <<f>>, id, consumers[id])
    BY <1>3 DEF Inv, Linked
  <2>2. CASE disposed
    <3>1. ~InMap(generations, id)
      BY <1>2, <2>2 DEF Inv, Heard, InMap
    <3> QED
      BY <1>1, <2>1, <2>2, <3>1 DEF Links
  <2>3. CASE ~disposed
    <3>1. Pushed(control, control', Command("acknowledge", f.id, f.sequence))
      BY <1>5, <2>3 DEF e
    <3> QED
      BY <1>2, <1>3, <2>1, <3>1, LinksHandled
  <2> QED
    BY <2>2, <2>3
<1>11. \A id \in Ids : Linked(id)'
  BY <1>1, <1>10 DEF Linked
<1> QED
  BY <1>7, <1>8, <1>9, <1>11 DEF Inv

-----------------------------------------------------------------------------
(* The invariant *)

LEMMA InitInv ==
  ASSUME Init
  PROVE  Inv
<1>1. /\ generations = <<>> /\ opening = <<>> /\ handling = <<>> /\ disposed = FALSE
      /\ control = <<>> /\ stream = <<>> /\ retired = FALSE /\ watermark = 0
      /\ consumers = [id \in Ids |-> Unknown]
  BY DEF Init
<1>2. /\ \A S : <<>> \in Seq(S)
      /\ Len(<<>>) = 0 /\ \A i : i \notin 1 .. 0
  OBVIOUS
<1>3. NumSubscriptions \in Nat
  BY BoundAssumption
<1>4. Types
  <2>1. consumers \in [Ids -> ConsumerSet]
    BY <1>1, UnknownConsumer
  <2>2. /\ <<>> \in Seq(GenerationSet) /\ <<>> \in Seq(Ids) /\ <<>> \in Seq(MessageSet)
        /\ <<>> \in Seq(CommandSet) /\ Len(<<>>) = 0
    BY <1>2
  <2>3. 0 <= NumSubscriptions /\ 0 \in 0 .. NumSubscriptions
    BY <1>3
  <2>4. generations \in Seq(GenerationSet) /\ Len(generations) <= NumSubscriptions
    BY <1>1, <2>2, <2>3
  <2>5. handling \in Seq(MessageSet) /\ Len(handling) <= 1
    BY <1>1, <2>2
  <2>6. opening \in Seq(Ids) /\ control \in Seq(CommandSet) /\ stream \in Seq(MessageSet)
    BY <1>1, <2>2
  <2>7. disposed \in BOOLEAN /\ retired \in BOOLEAN /\ watermark \in 0 .. NumSubscriptions
    BY <1>1, <2>3
  <2> QED
    BY <2>1, <2>4, <2>5, <2>6, <2>7 DEF Types
<1>5. OpensLast /\ Heard
  BY <1>1, <1>2 DEF OpensLast, Heard
<1>6. Ordered
  BY <1>1, <1>2 DEF Ordered, InSequence
<1>7. ASSUME NEW id \in Ids
      PROVE  Linked(id)
  <2>1. consumers[id] = Unknown
    BY <1>1
  <2>2. \A i : Absent(<<>>, i) /\ ~Asks(<<>>, i)
    BY <1>2 DEF Absent, Asks
  <2>3. Left(<<>>, id, Unknown)
    BY <1>2, UnknownConsumer DEF Left
  <2>4. ~InMap(<<>>, id) /\ <<>> # <<id>>
    BY <1>2 DEF InMap
  <2> QED
    BY <1>1, <2>1, <2>2, <2>3, <2>4, UnknownConsumer DEF Linked, Links
<1> QED
  BY <1>4, <1>5, <1>6, <1>7 DEF Inv

LEMMA StutterInv ==
  ASSUME Inv, UNCHANGED vars
  PROVE  Inv'
<1>1. /\ generations' = generations /\ opening' = opening /\ handling' = handling
      /\ disposed' = disposed /\ control' = control /\ stream' = stream
      /\ retired' = retired /\ watermark' = watermark /\ consumers' = consumers
  BY DEF vars, rendererVars, channelVars, mainVars
<1>2. Types' /\ OpensLast' /\ Heard' /\ Ordered'
  BY <1>1 DEF Inv, Types, OpensLast, Heard, Ordered
<1>3. \A id \in Ids : Linked(id)'
  BY <1>1 DEF Inv, Linked
<1> QED
  BY <1>2, <1>3 DEF Inv

\* A sink that opens a stream is what StreamSessionReentered runs.
LEMMA NextInv ==
  ASSUME Inv, "open" \notin SinkCalls, [Next]_vars
  PROVE  Inv'
<1>1. CASE \E key \in Keys : Open(key)
  BY <1>1, OpenStep
<1>2. CASE Opened
  BY <1>2, OpenedStep
<1>3. CASE Receive
  BY <1>3, ReceiveStep
<1>4. CASE Handled
  BY <1>4, HandledStep
<1>5. CASE Dispose
  BY <1>5, DisposeStep
<1>6. CASE \E id \in Mapped : Close(id)
  BY <1>6, CloseStep
<1>7. CASE Arrive
  BY <1>7, ArriveStep
<1>8. CASE Retire
  BY <1>8, RetireStep
<1>9. CASE \E id \in Ids : Decide(id) \/ Emit(id) \/ End(id) \/ Tell(id)
  BY <1>9, DecideStep, EmitStep, EndStep, TellStep
<1>10. CASE UNCHANGED vars
  BY <1>10, StutterInv
<1> QED
  BY <1>1, <1>2, <1>3, <1>4, <1>5, <1>6, <1>7, <1>8, <1>9, <1>10 DEF Next

\* Both ends of a stream and the two channels between them fit together at all times,
\* generation by generation: Main has been asked for what is in the Renderer's map and
\* has sent, or will send, exactly what the Renderer has not heard yet.
THEOREM InvCorrect ==
  ASSUME "open" \notin SinkCalls
  PROVE  Spec => []Inv
<1>1. Init => Inv
  BY InitInv
<1>2. Inv /\ [Next]_vars => Inv'
  BY NextInv
<1> QED
  BY <1>1, <1>2, PTL DEF Spec

-----------------------------------------------------------------------------
(* What it gives *)

LEMMA InvTypeOK ==
  ASSUME Inv
  PROVE  TypeOK
<1>1. /\ generations \in Seq(GenerationSet) /\ Len(generations) <= NumSubscriptions
      /\ Len(generations) \in Nat /\ NumSubscriptions \in Nat
      /\ consumers \in [Ids -> ConsumerSet]
      /\ Types /\ DOMAIN generations = 1 .. Len(generations)
  BY RendererParts DEF Inv
<1>2. \A id \in DOMAIN generations :
        /\ id \in Ids /\ generations[id].key \in Keys
        /\ generations[id].at \in {"opening", "waiting", "active", "ended"}
  BY <1>1, GenerationParts
<1>3. \A i \in DOMAIN opening : opening[i] \in DOMAIN generations
  <2>1. CASE opening = <<>>
    BY <2>1
  <2>2. CASE opening # <<>>
    <3>1. opening = <<Len(generations)>> /\ Len(generations) \in DOMAIN generations
      BY <1>1, <2>2, OpeningParts
    <3> QED
      BY <3>1
  <2> QED
    BY <2>1, <2>2
<1>4. ASSUME NEW id \in Ids
      PROVE  /\ consumers[id].at \in {"unknown", "pending", "open", "closed"}
             /\ consumers[id].next \in 0 .. MaxValues + 2
             /\ consumers[id].inFlight \in 0 .. MaxValues
  <2>1. consumers[id] \in ConsumerSet
    BY <1>1
  <2>2. Counted(consumers[id])
    BY DEF Inv, Linked, Links
  <2> QED
    BY <2>1, <2>2, ConsumerParts, BoundAssumption DEF Counted
<1> QED
  BY <1>1, <1>2, <1>3, <1>4 DEF TypeOK, Types

LEMMA InvStreamInOrder ==
  ASSUME Inv
  PROVE  StreamInOrder
<1>1. /\ stream \in Seq(MessageSet) /\ DOMAIN stream = 1 .. Len(stream) /\ Len(stream) \in Nat
      /\ \A id \in Mapped : id \in Ids /\ InMap(generations, id)
  BY RendererParts
<1>2. ASSUME NEW id \in Mapped, NEW i \in Coming(id)
      PROVE  /\ stream[i].sequence > generations[id].heard
             /\ \A n \in generations[id].heard + 1 .. stream[i].sequence :
                  \E j \in Coming(id) : j <= i /\ stream[j].sequence = n
             /\ \A j \in Coming(id) : i < j => stream[i].sequence < stream[j].sequence
             /\ (stream[i].type = "subscribed") = (stream[i].sequence = 0)
             /\ stream[i].type = "end" => \A j \in Coming(id) : j <= i
  <2>1. Streamed(stream, id, generations[id].heard, consumers[id])
    BY <1>1, <1>2 DEF Inv, Linked, Links, Joined
  <2>2. i \in 1 .. Len(stream) /\ stream[i].id = id
    BY <1>1, <1>2 DEF Coming
  <2>3. \A j \in 1 .. Len(stream) : stream[j].id = id <=> j \in Coming(id)
    BY <1>1 DEF Coming
  <2>4. \A j \in 1 .. i : j \in 1 .. Len(stream) /\ j <= i
    BY <1>1, <2>2
  <2>5. ASSUME NEW n \in generations[id].heard + 1 .. stream[i].sequence
        PROVE  \E j \in Coming(id) : j <= i /\ stream[j].sequence = n
    <3>1. PICK j \in 1 .. i : stream[j].id = id /\ stream[j].sequence = n
      BY <2>1, <2>2, <2>5 DEF Streamed
    <3> QED
      BY <2>3, <2>4, <3>1
  <2>6. \A j \in Coming(id) : j \in 1 .. Len(stream) /\ stream[j].id = id
    BY <1>1 DEF Coming
  <2> QED
    BY <2>1, <2>2, <2>5, <2>6 DEF Streamed
<1> QED
  BY <1>2 DEF StreamInOrder

LEMMA InvArrivesInOrder ==
  ASSUME Inv
  PROVE  ArrivesInOrder
<1>1. DOMAIN control = 1 .. Len(control)
  BY RendererParts
<1> QED
  BY <1>1 DEF Inv, Ordered, InSequence, ArrivesInOrder

\* Whatever the two ends and the subscribers do, the messages of every subscription come
\* to the Renderer numbered without a gap or a repetition, `subscribed' first and a
\* terminal last, and the commands come to Main in the order of their ids: #dispatch and
\* the watermark never drop what they should have taken.
THEOREM MessagesArriveCorrect ==
  ASSUME "open" \notin SinkCalls
  PROVE  Spec => []MessagesArrive
<1>1. Inv => MessagesArrive
  BY InvTypeOK, InvStreamInOrder, InvArrivesInOrder DEF MessagesArrive
<1> QED
  BY <1>1, InvCorrect, PTL

\* When nothing is on its way, Main has exactly the subscriptions that the Renderer has
\* in its map: none goes on for nobody, and no generation waits for one there is not.
THEOREM InSyncCorrect ==
  ASSUME "open" \notin SinkCalls
  PROVE  Spec => []InSync
<1>1. Inv => InSync
  <2>1. SUFFICES ASSUME Inv, Quiet
                 PROVE  Held = Mapped
    BY DEF InSync
  <2>2. opening = <<>> /\ control = <<>> /\ stream = <<>>
    BY <2>1 DEF Quiet
  <2>3. Len(<<>>) = 0 /\ \A i : i \notin 1 .. 0
    OBVIOUS
  <2>4. /\ generations \in Seq(GenerationSet) /\ consumers \in [Ids -> ConsumerSet]
        /\ \A id : id \in Mapped <=> InMap(generations, id)
        /\ \A id : InMap(generations, id) => id \in Ids /\ id \in 1 .. Len(generations)
    BY <2>1, RendererParts
  <2>5. \A id \in Ids : Links(generations, <<>>, <<>>, <<>>, handling, id, consumers[id])
    BY <2>1, <2>2 DEF Inv, Linked
  <2>6. \A i : ~Asks(<<>>, i) /\ ~Leaves(<<>>, i)
    BY <2>3 DEF Asks, Leaves
  <2>7. ASSUME NEW id \in Held
        PROVE  id \in Mapped
    <3>1. id \in Ids /\ Holds(consumers[id])
      BY DEF Held, Holds
    <3>2. InMap(generations, id)
      BY <2>5, <2>6, <3>1 DEF Links, Left
    <3> QED
      BY <2>4, <3>2
  <2>8. ASSUME NEW id \in Mapped
        PROVE  id \in Held
    <3>1. id \in Ids /\ InMap(generations, id) /\ generations[id].at # "opening"
      BY <2>1, <2>2, <2>4 DEF Inv, OpensLast
    <3>2. Joined(generations[id], <<>>, <<>>, handling, id, consumers[id])
      BY <2>5, <3>1 DEF Links
    <3>3. consumers[id].at # "unknown"
      BY <2>6, <3>1, <3>2 DEF Joined
    <3>4. consumers[id].at # "closed"
      BY <2>3, <3>2 DEF Joined, Streamed
    <3>5. consumers[id].at \in {"unknown", "pending", "open", "closed"}
      BY <2>4, <3>1, ConsumerParts
    <3> QED
      BY <3>1, <3>3, <3>4, <3>5 DEF Held
  <2> QED
    BY <2>7, <2>8
<1> QED
  BY <1>1, InvCorrect, PTL

\* A window of Main that waits for an acknowledge never waits in vain: the batch is still
\* on its way to a generation in the map, or with its subscribers, or acknowledged, or the
\* subscription is being left.
THEOREM NeverStallsCorrect ==
  ASSUME "open" \notin SinkCalls
  PROVE  Spec => []NeverStalls
<1>1. Inv => NeverStalls
  <2>1. SUFFICES ASSUME Inv, NEW id \in Held, consumers[id].inFlight # None
                 PROVE  \/ \E i \in DOMAIN stream :
                             /\ stream[i] = Message("batch", id, consumers[id].inFlight)
                             /\ id \in Mapped
                        \/ /\ handling = <<Message("batch", id, consumers[id].inFlight)>>
                           /\ ~disposed
                        \/ \E i \in DOMAIN control :
                             control[i] \in {Command("acknowledge", id, consumers[id].inFlight),
                                             Command("unsubscribe", id, None)}
    BY DEF NeverStalls
  <2>2. /\ control \in Seq(CommandSet) /\ stream \in Seq(MessageSet)
        /\ DOMAIN control = 1 .. Len(control) /\ DOMAIN stream = 1 .. Len(stream)
        /\ \A i : i \in Mapped <=> InMap(generations, i)
        /\ \A i : InMap(generations, i) => i \in 1 .. Len(generations)
    BY <2>1, RendererParts
  <2>3. id \in Ids /\ Holds(consumers[id])
    BY DEF Held, Holds
  <2>4. Links(generations, opening, control, stream, handling, id, consumers[id])
    BY <2>1, <2>3 DEF Inv, Linked
  <2>5. CASE InMap(generations, id)
    <3>1. Answers(stream, handling, control, id, consumers[id])
      BY <2>3, <2>4, <2>5 DEF Links, Joined
    <3>2. ~disposed
      BY <2>1, <2>2, <2>5 DEF Inv, Heard, InMap
    <3> QED
      BY <2>1, <2>2, <2>5, <3>1, <3>2 DEF Answers
  <2>6. CASE ~InMap(generations, id)
    <3>1. PICK i \in 1 .. Len(control) : control[i].type = "unsubscribe" /\ control[i].id = id
      BY <2>3, <2>4, <2>6 DEF Links, Left, Leaves
    <3>2. control[i] \in CommandSet
      BY <2>2
    <3>3. control[i] = Command("unsubscribe", id, None)
      BY <3>1, <3>2 DEF CommandSet, Command
    <3> QED
      BY <2>2, <3>3
  <2> QED
    BY <2>5, <2>6
<1> QED
  BY <1>1, InvCorrect, PTL

-----------------------------------------------------------------------------
(* The calls *)

Causes == GivenUp \cup Replies \cup Refusals
Points == {"invoking", "recording", "cancelling", "reporting", "sweeping"}
FrameSet == [at : Points, call : Calls \cup {0}, cause : Causes \cup {"none"},
             rest : SUBSET Calls]

ClientTypes ==
  /\ apiDisposed \in BOOLEAN
  /\ aborted \subseteq Signals
  /\ phase \in [Calls -> {"new", "open", "closed"}]
  /\ settled \subseteq Calls /\ sent \subseteq Calls /\ timer \subseteq Calls
  /\ listening \subseteq Calls /\ pending \subseteq Calls /\ waiting \subseteq Calls
  /\ recorded \in [Calls -> Seq(Causes)]
  /\ result \in [Calls -> {"none", "resolved", "rejected"}]
  /\ messages \in [Calls -> Seq({"invoke", "cancel"})]
  /\ stack \in Seq(FrameSet)

\* A frame that settles its call has not finished to.
Settling(f) == f.at \in {"recording", "cancelling", "reporting"}
Settles(q, d) == \E f \in ToSet(q) : Settling(f) /\ f.call = d
Sweeps(q, d) == \E f \in ToSet(q) : f.at = "sweeping" /\ d \in f.rest

\* No two calls in progress settle one call.
Apart(q) ==
  \A i, j \in 1 .. Len(q) :
    i # j /\ Settling(q[i]) /\ Settling(q[j]) => q[i].call # q[j].call
Alone(q, f) ==
  Settling(f) => \A g \in ToSet(q) : Settling(g) => g.call # f.call

\* What Main was told of a call that was not given up.
Asked(d) == IF d \in sent THEN <<"invoke">> ELSE <<>>

\* What a call in progress knows.
FrameKnown(f) ==
  /\ f.at = "invoking" => f.call \in sent
  /\ Settling(f) =>
       /\ f.call \in settled /\ f.cause \in Causes
       /\ recorded[f.call] = <<f.cause>> /\ result[f.call] = "none"
  /\ f.at = "recording" => messages[f.call] = Asked(f.call)
  /\ f.at \in {"cancelling", "reporting"} =>
       f.cause \in GivenUp /\ messages[f.call] = <<"invoke", "cancel">>
  /\ f.at = "sweeping" =>
       f.cause \in {"aborted", "disposed"} /\ \A d \in f.rest : phase[d] # "new"

\* The record, the promise and the messages of a call agree.
CallTold(d) ==
  /\ d \notin settled => recorded[d] = <<>> /\ result[d] = "none" /\ messages[d] = Asked(d)
  /\ d \in settled => \E cause \in Causes : recorded[d] = <<cause>>
  /\ messages[d] \in {Asked(d), <<"invoke", "cancel">>}
  /\ d \notin sent => messages[d] = <<>>
  /\ result[d] # "none" =>
       /\ (result[d] = "resolved") = (recorded[d] = <<"ok">>)
       /\ d \in sent => (Records(d) \subseteq GivenUp) = (messages[d] = <<"invoke", "cancel">>)

\* A settlement that has begun and not ended is in progress.
Due(q, d) == d \in settled /\ result[d] = "none" => Settles(q, d)

CallsTold ==
  /\ Apart(stack)
  /\ \A f \in ToSet(stack) : FrameKnown(f)
  /\ \A d \in Calls : CallTold(d) /\ Due(stack, d)

\* What is held for a call: nothing before it opens and when it is over, and
\* all that can end it as long as it is open and not settled.
HeldBy(d) ==
  /\ phase[d] = "new" => d \notin settled \cup sent \cup timer \cup listening \cup pending
                                    \cup waiting
  /\ phase[d] = "closed" => d \in settled /\ d \notin timer \cup listening \cup pending
  /\ phase[d] = "open" /\ d \notin settled =>
       /\ d \in listening
       /\ apiDisposed \/ d \in pending
       /\ GaveUp(d) => Sweeps(stack, d)

ClientInv == ClientTypes /\ CallsTold /\ \A d \in Calls : HeldBy(d)

-----------------------------------------------------------------------------
(* Frames and the stack *)

LEMMA FrameMade ==
  ASSUME NEW at \in Points, NEW d \in Calls \cup {0}, NEW cause \in Causes \cup {"none"},
         NEW rest \in SUBSET Calls
  PROVE  /\ Frame(at, d, cause, rest) \in FrameSet
         /\ Frame(at, d, cause, rest).at = at /\ Frame(at, d, cause, rest).call = d
         /\ Frame(at, d, cause, rest).cause = cause /\ Frame(at, d, cause, rest).rest = rest
BY DEF Frame, FrameSet

LEMMA FrameParts ==
  ASSUME NEW f \in FrameSet
  PROVE  /\ f.at \in Points /\ f.call \in Calls \cup {0}
         /\ f.cause \in Causes \cup {"none"} /\ f.rest \in SUBSET Calls
BY DEF FrameSet

LEMMA ApartAppended ==
  ASSUME NEW q \in Seq(FrameSet), NEW f \in FrameSet, Apart(q), Alone(q, f),
         NEW r, Pushed(q, r, f)
  PROVE  Apart(r)
<1>1. /\ Len(r) = Len(q) + 1 /\ Len(q) \in Nat
      /\ \A i \in 1 .. Len(q) : r[i] = q[i]
      /\ r[Len(q) + 1] = f
  BY Appended DEF Pushed
<1>2. \A i \in 1 .. Len(r) : i \in 1 .. Len(q) \/ i = Len(q) + 1
  BY <1>1
<1>3. \A i \in 1 .. Len(q) : q[i] \in ToSet(q)
  BY Values
<1> QED
  BY <1>1, <1>2, <1>3 DEF Apart, Alone

LEMMA ApartPopped ==
  ASSUME NEW q \in Seq(FrameSet), NEW r, NEW f, Popped(q, r, f), Apart(q)
  PROVE  Apart(r) /\ Alone(r, f)
<1>1. q # <<>> /\ r = SubSeq(q, 1, Len(q) - 1) /\ f = q[Len(q)]
  BY DEF Popped
<1>2. /\ Len(q) \in Nat \ {0} /\ r \in Seq(FrameSet) /\ Len(r) = Len(q) - 1
      /\ \A i \in 1 .. Len(q) - 1 : r[i] = q[i]
  BY <1>1, StackParts
<1>3. f = q[Len(q)]
  BY <1>1
<1>4. (\A i \in 1 .. Len(r) : i \in 1 .. Len(q) /\ i # Len(q)) /\ Len(q) \in 1 .. Len(q)
  BY <1>2
<1>5. \A i \in 1 .. Len(r) : r[i] = q[i]
  BY <1>2
<1>6. Apart(r)
  BY <1>4, <1>5 DEF Apart
<1>7. Alone(r, f)
  <2>1. \A g \in ToSet(r) : \E i \in 1 .. Len(r) : r[i] = g
    BY <1>2, Values
  <2> QED
    BY <1>3, <1>4, <1>5, <2>1 DEF Apart, Alone
<1> QED
  BY <1>6, <1>7

\* What a new frame on top makes of a stack.
LEMMA FramePushed ==
  ASSUME NEW q \in Seq(FrameSet), NEW f \in FrameSet, NEW r, r = Append(q, f)
  PROVE  /\ r \in Seq(FrameSet) /\ ToSet(r) = ToSet(q) \cup {f}
         /\ Apart(q) /\ Alone(q, f) => Apart(r)
<1>1. Pushed(q, r, f)
  BY DEF Pushed
<1>2. r \in Seq(FrameSet) /\ ToSet(r) = ToSet(q) \cup {f}
  BY <1>1, ValuesAppended
<1>3. Apart(q) /\ Alone(q, f) => Apart(r)
  BY <1>1, ApartAppended
<1> QED
  BY <1>2, <1>3

\* The frame on top and the frames under it.
LEMMA TopFrames ==
  ASSUME ClientTypes, CallsTold, stack # <<>>
  PROVE  /\ Rest \in Seq(FrameSet) /\ Top \in FrameSet
         /\ ToSet(stack) = ToSet(Rest) \cup {Top}
         /\ Apart(Rest) /\ Alone(Rest, Top) /\ FrameKnown(Top)
<1>1. Popped(stack, Rest, Top) /\ stack \in Seq(FrameSet) /\ Apart(stack)
  BY DEF Popped, Top, Rest, ClientTypes, CallsTold
<1>2. Rest \in Seq(FrameSet) /\ ToSet(stack) = ToSet(Rest) \cup {Top}
  BY <1>1, ValuesPopped
<1>3. Top \in ToSet(stack) /\ Top \in FrameSet
  BY <1>1, <1>2, Values
<1>4. Apart(Rest) /\ Alone(Rest, Top)
  BY <1>1, ApartPopped
<1> QED
  BY <1>2, <1>3, <1>4 DEF CallsTold

-----------------------------------------------------------------------------
(* What is told of a call *)

LEMMA CallsAreNumbers == Calls \subseteq Nat \ {0} /\ \A d \in Calls : SignalOf(d) \in Signals
BY CallsAssumption DEF Calls, Signals, SignalOf

\* Steps that settle nothing and leave promises and messages alone.
LEMMA QuietTold ==
  ASSUME ClientTypes, CallsTold, UNCHANGED <<settled, sent, recorded, result, messages>>,
         Apart(stack'),
         \A d \in Calls : phase[d] # "new" => phase'[d] # "new",
         \A f \in ToSet(stack') : f \in ToSet(stack) \/ (~Settling(f) /\ FrameKnown(f)'),
         \A f \in ToSet(stack) : Settling(f) => f \in ToSet(stack'),
         \A f \in ToSet(stack) : f.rest \subseteq Calls
  PROVE  CallsTold'
<1>1. \A f \in ToSet(stack) : FrameKnown(f)'
  BY DEF CallsTold, FrameKnown, Asked
<1>2. \A f \in ToSet(stack') : FrameKnown(f)'
  BY <1>1
<1>3. \A d \in Calls : CallTold(d)'
  BY DEF CallsTold, CallTold, Asked, Records
<1>4. \A d \in Calls : Due(stack, d)'
  BY DEF CallsTold, Due, Settles
<1> QED
  BY <1>2, <1>3, <1>4 DEF CallsTold

\* One cause of a call settles it, whatever else goes on under `below'.
LEMMA SettleTold ==
  ASSUME ClientTypes, UNCHANGED <<sent, result, messages>>,
         \A d \in Calls : CallTold(d),
         NEW below \in Seq(FrameSet), Apart(below),
         \A f \in ToSet(below) : FrameKnown(f),
         \A d \in Calls : Due(below, d),
         \A d \in Calls : phase[d] # "new" => phase'[d] # "new",
         NEW e \in Calls, NEW cause \in Causes, Settle(e, cause, below)
  PROVE  /\ CallsTold' /\ settled' = settled \cup {e}
         /\ stack' \in Seq(FrameSet) /\ recorded' \in [Calls -> Seq(Causes)]
         /\ ToSet(below) \subseteq ToSet(stack')
<1>1. \A f \in ToSet(below) : f.rest \subseteq Calls
  BY Values, FrameParts
<1>2. CASE e \in settled
  <2>1. stack' = below /\ settled' = settled /\ recorded' = recorded
    BY <1>2 DEF Settle
  <2>2. \A f \in ToSet(stack') : FrameKnown(f)'
    BY <1>1, <2>1 DEF FrameKnown, Asked
  <2>3. \A d \in Calls : CallTold(d)' /\ Due(stack, d)'
    BY <2>1 DEF CallTold, Due, Settles, Asked, Records
  <2> QED
    BY <1>2, <2>1, <2>2, <2>3 DEF CallsTold, ClientTypes
<1>3. CASE e \notin settled
  <2>1. PICK f : f = Frame("recording", e, cause, {})
    OBVIOUS
  <2>2. /\ settled' = settled \cup {e}
        /\ recorded' = [recorded EXCEPT ![e] = Append(@, cause)]
        /\ stack' = Append(below, f)
    BY <1>3, <2>1 DEF Settle
  <2>3. /\ f \in FrameSet /\ f.at = "recording" /\ f.call = e /\ f.cause = cause
        /\ f.rest = {}
    <3>1. "recording" \in Points /\ e \in Calls \cup {0} /\ cause \in Causes \cup {"none"}
      BY DEF Points
    <3> QED
      BY <2>1, <3>1, FrameMade
  <2>4. recorded[e] = <<>> /\ result[e] = "none" /\ messages[e] = Asked(e)
    BY <1>3 DEF CallTold
  <2>5. /\ recorded' \in [Calls -> Seq(Causes)]
        /\ recorded'[e] = <<cause>>
        /\ \A d \in Calls : d # e => recorded'[d] = recorded[d]
    <3>1. PICK rec : rec = Append(recorded[e], cause)
      OBVIOUS
    <3>2. rec = <<cause>> /\ rec \in Seq(Causes)
      BY <2>4, <3>1
    <3> QED
      BY <2>2, <3>1, <3>2 DEF ClientTypes
  <2>6. Alone(below, f)
    BY <1>3, <2>3 DEF Alone, FrameKnown
  <2>7. /\ stack' \in Seq(FrameSet) /\ ToSet(stack') = ToSet(below) \cup {f}
        /\ Apart(stack')
    BY <2>2, <2>3, <2>6, FramePushed
  <2>8. \A g \in ToSet(below) : FrameKnown(g)'
    <3> SUFFICES ASSUME NEW g \in ToSet(below)
                 PROVE  FrameKnown(g)'
      OBVIOUS
    <3>1. g \in FrameSet /\ FrameKnown(g)
      BY Values
    <3>2. Settling(g) => g.call \in settled /\ g.call # e /\ g.call \in Calls
      BY <1>3, <3>1 DEF FrameKnown, ClientTypes
    <3>3. Settling(g) => recorded'[g.call] = recorded[g.call]
      BY <2>5, <3>2
    <3> QED
      BY <1>1, <2>2, <3>1, <3>2, <3>3 DEF FrameKnown, Asked
  <2>9. FrameKnown(f)'
    BY <2>2, <2>3, <2>4, <2>5 DEF FrameKnown, Asked, Settling
  <2>10. ASSUME NEW d \in Calls
         PROVE  CallTold(d)' /\ Due(stack, d)'
    <3>1. CASE d = e
      BY <2>2, <2>3, <2>4, <2>5, <2>7, <3>1 DEF CallTold, Due, Settles, Settling, Asked
    <3>2. CASE d # e
      <4>1. recorded'[d] = recorded[d] /\ (d \in settled' <=> d \in settled)
        BY <2>2, <2>5, <3>2
      <4>2. CallTold(d)'
        BY <4>1 DEF CallTold, Asked, Records
      <4> QED
        BY <2>7, <4>1, <4>2 DEF Due, Settles
    <3> QED
      BY <3>1, <3>2
  <2> QED
    BY <2>2, <2>5, <2>7, <2>8, <2>9, <2>10 DEF CallsTold
<1> QED
  BY <1>2, <1>3

-----------------------------------------------------------------------------
(* The steps *)

\* Steps that open no call and settle the calls of D.
LEMMA HeldKept ==
  ASSUME ClientTypes, \A d \in Calls : HeldBy(d),
         NEW D \in SUBSET Calls, \A d \in D : phase[d] # "new", settled' = settled \cup D,
         UNCHANGED <<apiDisposed, aborted, phase, sent, pending>>,
         timer' \subseteq timer,
         listening' \subseteq listening, listening \subseteq listening' \cup D,
         \A d \in waiting' : d \in Calls => phase[d] # "new",
         \A d \in Calls \ D : Sweeps(stack, d) => Sweeps(stack, d)'
  PROVE  \A d \in Calls : HeldBy(d)'
<1> SUFFICES ASSUME NEW d \in Calls
             PROVE  HeldBy(d)'
  OBVIOUS
<1>1. HeldBy(d)
  OBVIOUS
<1>2. phase'[d] = phase[d] /\ GaveUp(d)' = GaveUp(d) /\ apiDisposed' = apiDisposed
  BY DEF GaveUp
<1>3. phase[d] = "new" => d \notin settled' \cup sent' \cup timer' \cup listening'
                                     \cup pending' \cup waiting'
  BY <1>1 DEF HeldBy
<1>4. phase[d] = "closed" => d \in settled' /\ d \notin timer' \cup listening' \cup pending'
  BY <1>1 DEF HeldBy
<1>5. ASSUME phase[d] = "open", d \notin settled'
      PROVE  /\ d \in listening' /\ (apiDisposed \/ d \in pending')
             /\ GaveUp(d) => Sweeps(stack, d)'
  BY <1>1, <1>5 DEF HeldBy
<1> QED
  BY <1>2, <1>3, <1>4, <1>5 DEF HeldBy

\* call() refuses.
LEMMA RefuseInv ==
  ASSUME ClientInv, NEW d \in Calls, phase[d] = "new", RefuseCall(d),
         UNCHANGED <<apiDisposed, aborted, waiting, result>>
  PROVE  ClientInv'
<1>0. ClientTypes /\ CallsTold /\ HeldBy(d) /\ \A e \in Calls : HeldBy(e)
  BY DEF ClientInv
<1>1. /\ phase' = [phase EXCEPT ![d] = "closed"]
      /\ UNCHANGED <<sent, timer, listening, pending, messages>>
  BY DEF RefuseCall
<1>2. PICK cause \in Causes : Settle(d, cause, stack)
  BY DEF RefuseCall, Causes
<1>3. /\ phase'[d] = "closed" /\ phase' \in [Calls -> {"new", "open", "closed"}]
      /\ \A e \in Calls : e # d => phase'[e] = phase[e]
  BY <1>0, <1>1 DEF ClientTypes
<1>4. \A e \in Calls : phase[e] # "new" => phase'[e] # "new"
  BY <1>3
<1>5. /\ CallsTold' /\ settled' = settled \cup {d}
      /\ stack' \in Seq(FrameSet) /\ recorded' \in [Calls -> Seq(Causes)]
      /\ ToSet(stack) \subseteq ToSet(stack')
  <2>1. /\ stack \in Seq(FrameSet) /\ Apart(stack)
        /\ \A e \in Calls : CallTold(e) /\ Due(stack, e)
        /\ \A f \in ToSet(stack) : FrameKnown(f)
    BY <1>0 DEF ClientTypes, CallsTold
  <2>2. UNCHANGED <<sent, result, messages>>
    BY <1>1
  <2> QED
    BY <1>0, <1>2, <1>4, <2>1, <2>2, SettleTold
<1>6. ClientTypes'
  BY <1>0, <1>1, <1>3, <1>5 DEF ClientTypes
<1>7. ASSUME NEW e \in Calls
      PROVE  HeldBy(e)'
  <2>1. CASE e = d
    BY <1>0, <1>1, <1>3, <1>5, <2>1 DEF HeldBy
  <2>2. CASE e # d
    <3>1. /\ HeldBy(e) /\ phase'[e] = phase[e] /\ (e \in settled' <=> e \in settled)
          /\ GaveUp(e)' = GaveUp(e) /\ (Sweeps(stack, e) => Sweeps(stack, e)')
      BY <1>0, <1>3, <1>5, <2>2 DEF GaveUp, Sweeps
    <3> QED
      BY <1>1, <3>1 DEF HeldBy
  <2> QED
    BY <2>1, <2>2
<1> QED
  BY <1>5, <1>6, <1>7 DEF ClientInv

\* call() opens a call and hands it to transport.invoke.
LEMMA OpenInv ==
  ASSUME ClientInv, NEW d \in Calls, phase[d] = "new", OpenCall(d),
         UNCHANGED <<apiDisposed, aborted, waiting, result>>
  PROVE  ClientInv'
<1>0. ClientTypes /\ CallsTold /\ HeldBy(d) /\ \A e \in Calls : HeldBy(e)
  BY DEF ClientInv
<1>1. PICK f : f = Frame("invoking", d, "none", {})
  OBVIOUS
<1>2. /\ phase' = [phase EXCEPT ![d] = "open"] /\ ~apiDisposed /\ SignalOf(d) \notin aborted
      /\ pending' = pending \cup {d} /\ listening' = listening \cup {d}
      /\ timer' \in {timer, timer \cup {d}} /\ sent' = sent \cup {d}
      /\ messages' = [messages EXCEPT ![d] = Append(@, "invoke")]
      /\ stack' = Append(stack, f) /\ UNCHANGED <<settled, recorded>>
  BY <1>1 DEF OpenCall
<1>3. f \in FrameSet /\ f.at = "invoking" /\ f.call = d
  <2>1. "invoking" \in Points /\ d \in Calls \cup {0} /\ {} \in SUBSET Calls
    BY DEF Points
  <2> QED
    BY <1>1, <2>1, FrameMade
<1>4. /\ d \notin settled /\ d \notin sent
      /\ recorded[d] = <<>> /\ result[d] = "none" /\ messages[d] = <<>>
  BY <1>0 DEF HeldBy, CallsTold, CallTold, Asked
<1>5. /\ messages' \in [Calls -> Seq({"invoke", "cancel"})]
      /\ messages'[d] = <<"invoke">> /\ \A e \in Calls : e # d => messages'[e] = messages[e]
  <2>1. PICK all : all = Append(messages[d], "invoke")
    OBVIOUS
  <2>2. all = <<"invoke">> /\ all \in Seq({"invoke", "cancel"})
    BY <1>4, <2>1
  <2> QED
    BY <1>0, <1>2, <2>1, <2>2 DEF ClientTypes
<1>6. /\ phase'[d] = "open" /\ phase' \in [Calls -> {"new", "open", "closed"}]
      /\ \A e \in Calls : e # d => phase'[e] = phase[e]
  BY <1>0, <1>2 DEF ClientTypes
<1>7. /\ stack' \in Seq(FrameSet) /\ ToSet(stack') = ToSet(stack) \cup {f}
      /\ Apart(stack')
  <2>1. Alone(stack, f) /\ Apart(stack) /\ stack \in Seq(FrameSet)
    BY <1>0, <1>3 DEF Alone, Settling, CallsTold, ClientTypes
  <2> QED
    BY <1>2, <1>3, <2>1, FramePushed
<1>8. ClientTypes'
  BY <1>0, <1>2, <1>5, <1>6, <1>7 DEF ClientTypes
<1>9. \A g \in ToSet(stack') : FrameKnown(g)'
  <2>1. FrameKnown(f)'
    BY <1>2, <1>3 DEF FrameKnown, Settling
  <2>2. ASSUME NEW g \in ToSet(stack)
        PROVE  FrameKnown(g)'
    <3>1. FrameKnown(g) /\ g \in FrameSet
      BY <1>0, Values DEF CallsTold, ClientTypes
    <3>2. g.rest \subseteq Calls
      BY <3>1, FrameParts
    <3>3. Settling(g) => g.call \in Calls /\ g.call # d
      BY <1>0, <1>4, <3>1 DEF FrameKnown, ClientTypes
    <3>4. Settling(g) => /\ messages'[g.call] = messages[g.call]
                         /\ (g.call \in sent' <=> g.call \in sent)
      BY <1>2, <1>5, <3>3
    <3>5. \A e \in g.rest : phase'[e] # "new" \/ phase[e] = "new"
      BY <1>6, <3>2
    <3>6. /\ g.at = "invoking" => g.call \in sent'
          /\ g.at = "sweeping" =>
               g.cause \in {"aborted", "disposed"} /\ \A e \in g.rest : phase'[e] # "new"
      BY <1>2, <3>1, <3>5 DEF FrameKnown
    <3>7. Settling(g) => FrameKnown(g)'
      BY <1>2, <3>1, <3>4 DEF FrameKnown, Settling, Asked
    <3> QED
      BY <3>6, <3>7 DEF FrameKnown, Settling
  <2> QED
    BY <1>7, <2>1, <2>2
<1>10. \A e \in Calls : CallTold(e)' /\ Due(stack, e)' /\ HeldBy(e)'
  <2> SUFFICES ASSUME NEW e \in Calls
               PROVE  CallTold(e)' /\ Due(stack, e)' /\ HeldBy(e)'
    OBVIOUS
  <2>1. CASE e = d
    <3>1. CallTold(e)' /\ Due(stack, e)'
      BY <1>2, <1>4, <1>5, <2>1 DEF CallTold, Due, Asked
    <3>2. HeldBy(e)'
      BY <1>2, <1>6, <2>1 DEF HeldBy, GaveUp
    <3> QED
      BY <3>1, <3>2
  <2>2. CASE e # d
    <3>1. /\ CallTold(e) /\ Due(stack, e) /\ HeldBy(e)
          /\ phase'[e] = phase[e] /\ messages'[e] = messages[e]
          /\ (e \in sent' <=> e \in sent) /\ (e \in timer' <=> e \in timer)
          /\ (e \in listening' <=> e \in listening) /\ (e \in pending' <=> e \in pending)
      BY <1>0, <1>2, <1>5, <1>6, <2>2 DEF CallsTold
    <3>2. CallTold(e)'
      <4>1. UNCHANGED <<settled, recorded, result>> /\ Asked(e)' = Asked(e)
        BY <1>2, <3>1 DEF Asked
      <4> QED
        BY <3>1, <4>1 DEF CallTold, Records
    <3>3. Due(stack, e)'
      BY <1>2, <1>7, <3>1 DEF Due, Settles
    <3>4. GaveUp(e)' = GaveUp(e) /\ (Sweeps(stack, e) => Sweeps(stack, e)')
      BY <1>7 DEF GaveUp, Sweeps
    <3>5. HeldBy(e)'
      BY <1>2, <3>1, <3>4 DEF HeldBy
    <3> QED
      BY <3>2, <3>3, <3>5
  <2> QED
    BY <2>1, <2>2
<1> QED
  BY <1>7, <1>8, <1>9, <1>10 DEF ClientInv, CallsTold

\* Steps that settle a call, from a stack that is the old one but for its top.
LEMMA SettleInv ==
  ASSUME ClientInv, UNCHANGED <<apiDisposed, aborted, phase, sent, pending, result, messages>>,
         NEW below \in Seq(FrameSet), Apart(below),
         \A f \in ToSet(below) : FrameKnown(f),
         \A f \in ToSet(stack) : Settling(f) => f \in ToSet(below),
         NEW e \in Calls, phase[e] # "new", NEW cause \in Causes, Settle(e, cause, below),
         \A d \in Calls : d # e /\ Sweeps(stack, d) => Sweeps(below, d),
         timer' \subseteq timer, waiting' \subseteq waiting,
         listening' \subseteq listening, listening \subseteq listening' \cup {e}
  PROVE  ClientInv'
<1>0. ClientTypes /\ CallsTold /\ \A d \in Calls : HeldBy(d)
  BY DEF ClientInv
<1>1. /\ CallsTold' /\ settled' = settled \cup {e}
      /\ stack' \in Seq(FrameSet) /\ recorded' \in [Calls -> Seq(Causes)]
      /\ ToSet(below) \subseteq ToSet(stack')
  <2>1. \A d \in Calls : CallTold(d) /\ Due(below, d)
    BY <1>0 DEF CallsTold, Due, Settles
  <2>2. UNCHANGED <<sent, result, messages>> /\ \A d \in Calls : phase[d] # "new" => phase'[d] # "new"
    OBVIOUS
  <2> QED
    BY <1>0, <2>1, <2>2, SettleTold
<1>2. ClientTypes'
  BY <1>0, <1>1 DEF ClientTypes
<1>3. \A d \in Calls : HeldBy(d)'
  <2>1. \A d \in Calls \ {e} : Sweeps(stack, d) => Sweeps(stack, d)'
    BY <1>1 DEF Sweeps
  <2>2. \A d \in waiting' : d \in Calls => phase[d] # "new"
    BY <1>0 DEF HeldBy
  <2>3. UNCHANGED <<apiDisposed, aborted, phase, sent, pending>>
    OBVIOUS
  <2>4. {e} \in SUBSET Calls /\ \A d \in {e} : phase[d] # "new"
    OBVIOUS
  <2>5. timer' \subseteq timer /\ listening' \subseteq listening /\ listening \subseteq listening' \cup {e}
    OBVIOUS
  <2> QED
    BY <1>0, <1>1, <2>1, <2>2, <2>3, <2>4, <2>5, HeldKept
<1> QED
  BY <1>1, <1>2, <1>3 DEF ClientInv

\* Steps that settle nothing and open nothing.
LEMMA QuietInv ==
  ASSUME ClientInv, UNCHANGED <<apiDisposed, aborted, phase, settled, sent, timer, listening, pending,
                          recorded, result, messages>>,
         stack' \in Seq(FrameSet), Apart(stack'),
         \A f \in ToSet(stack') : f \in ToSet(stack),
         \A f \in ToSet(stack) : Settling(f) => f \in ToSet(stack'),
         \A d \in Calls : Sweeps(stack, d) => Sweeps(stack, d)',
         \A d \in waiting' : d \in Calls /\ phase[d] # "new"
  PROVE  ClientInv'
<1>0. ClientTypes /\ CallsTold /\ \A d \in Calls : HeldBy(d)
  BY DEF ClientInv
<1>1. CallsTold'
  <2>1. \A f \in ToSet(stack) : f.rest \subseteq Calls
    BY <1>0, Values, FrameParts DEF ClientTypes
  <2>2. UNCHANGED <<settled, sent, recorded, result, messages>>
    OBVIOUS
  <2>3. \A d \in Calls : phase[d] # "new" => phase'[d] # "new"
    OBVIOUS
  <2>4. /\ Apart(stack')
        /\ \A f \in ToSet(stack') : f \in ToSet(stack) \/ (~Settling(f) /\ FrameKnown(f)')
        /\ \A f \in ToSet(stack) : Settling(f) => f \in ToSet(stack')
    OBVIOUS
  <2> QED
    BY <1>0, <2>1, <2>2, <2>3, <2>4, QuietTold
<1>2. ClientTypes'
  BY <1>0 DEF ClientTypes
<1>3. \A d \in Calls : HeldBy(d)'
  BY <1>0 DEF HeldBy, GaveUp
<1> QED
  BY <1>1, <1>2, <1>3 DEF ClientInv

\* transport.invoke returns or throws.
LEMMA InvokedInv ==
  ASSUME ClientInv, Invoked
  PROVE  ClientInv'
<1>0. ClientTypes /\ CallsTold /\ \A d \in Calls : HeldBy(d)
  BY DEF ClientInv
<1>1. stack # <<>> /\ Top.at = "invoking"
  BY DEF Invoked, At
<1>2. /\ Rest \in Seq(FrameSet) /\ ToSet(stack) = ToSet(Rest) \cup {Top}
      /\ Apart(Rest) /\ FrameKnown(Top)
  BY <1>0, <1>1, TopFrames
<1>3. Top.call \in Calls /\ phase[Top.call] # "new" /\ ~Settling(Top)
  <2>1. Top.call \in sent
    BY <1>1, <1>2 DEF FrameKnown
  <2> QED
    BY <1>0, <1>1, <2>1 DEF ClientTypes, HeldBy, Settling
<1>4. /\ \A f \in ToSet(Rest) : FrameKnown(f)
      /\ \A f \in ToSet(stack) : Settling(f) => f \in ToSet(Rest)
  BY <1>0, <1>2, <1>3 DEF CallsTold
<1>5. \A d \in Calls : Sweeps(stack, d) => Sweeps(Rest, d)
  BY <1>1, <1>2 DEF Sweeps
<1>6. CASE waiting' = waiting \cup {Top.call} /\ stack' = Rest /\ UNCHANGED <<settled,
                                                                              recorded>>
  <2>1. \A d \in waiting' : d \in Calls /\ phase[d] # "new"
    BY <1>0, <1>3, <1>6 DEF HeldBy, ClientTypes
  <2>2. UNCHANGED <<apiDisposed, aborted, phase, settled, sent, timer, listening, pending,
                    recorded, result, messages>>
    BY <1>6 DEF Invoked
  <2>3. /\ stack' \in Seq(FrameSet) /\ Apart(stack')
        /\ \A f \in ToSet(stack') : f \in ToSet(stack)
        /\ \A f \in ToSet(stack) : Settling(f) => f \in ToSet(stack')
        /\ \A d \in Calls : Sweeps(stack, d) => Sweeps(stack, d)'
    BY <1>2, <1>4, <1>5, <1>6 DEF Sweeps
  <2> QED
    BY <2>1, <2>2, <2>3, QuietInv
<1>7. CASE Settle(Top.call, "transport-failed", Rest) /\ waiting' = waiting
  <2>1. UNCHANGED <<apiDisposed, aborted, phase, sent, pending, result, messages>> /\
        timer' = timer /\ listening' = listening
    BY DEF Invoked
  <2>2. "transport-failed" \in Causes
    BY DEF Causes, Replies
  <2> QED
    BY <1>2, <1>3, <1>4, <1>5, <1>7, <2>1, <2>2, SettleInv
<1> QED
  BY <1>6, <1>7 DEF Invoked

\* The response, the deadline.
LEMMA RespondInv ==
  ASSUME ClientInv, NEW d \in Calls, Respond(d) \/ Deadline(d)
  PROVE  ClientInv'
<1>0. ClientTypes /\ CallsTold /\ HeldBy(d) /\ \A e \in Calls : HeldBy(e)
  BY DEF ClientInv
<1>1. d \in waiting \cup timer /\ phase[d] # "new"
  BY <1>0 DEF Respond, Deadline, HeldBy
<1>2. PICK cause \in Causes : Settle(d, cause, stack)
  BY DEF Respond, Deadline, Causes, GivenUp
<1>3. /\ UNCHANGED <<apiDisposed, aborted, phase, sent, pending, result, messages>>
      /\ timer' \subseteq timer /\ waiting' \subseteq waiting /\ listening' = listening
  BY DEF Respond, Deadline
<1>4. /\ stack \in Seq(FrameSet) /\ Apart(stack) /\ \A f \in ToSet(stack) : FrameKnown(f)
  BY <1>0 DEF ClientTypes, CallsTold
<1> QED
  BY <1>1, <1>2, <1>3, <1>4, SettleInv

\* The next listener of a sweep.
LEMMA SweepOnInv ==
  ASSUME ClientInv, SweepOn
  PROVE  ClientInv'
<1>0. ClientTypes /\ CallsTold /\ \A d \in Calls : HeldBy(d)
  BY DEF ClientInv
<1>1. stack # <<>> /\ Top.at = "sweeping"
  BY DEF SweepOn, At
<1>2. /\ Rest \in Seq(FrameSet) /\ ToSet(stack) = ToSet(Rest) \cup {Top}
      /\ Apart(Rest) /\ FrameKnown(Top) /\ Top \in FrameSet
  BY <1>0, <1>1, TopFrames
<1>3. ~Settling(Top) /\ \A f \in ToSet(Rest) : FrameKnown(f)
  BY <1>0, <1>1, <1>2 DEF Settling, CallsTold
<1>4. UNCHANGED <<apiDisposed, aborted, phase, sent, timer, pending, waiting, result,
                  messages>>
  BY DEF SweepOn
<1>5. CASE Top.rest = {}
  <2>1. stack' = Rest /\ UNCHANGED <<settled, recorded, listening>>
    BY <1>5 DEF SweepOn
  <2>2. \A d \in Calls : Sweeps(stack, d) => Sweeps(stack, d)'
    BY <1>2, <1>5, <2>1 DEF Sweeps
  <2>3. \A d \in waiting' : d \in Calls /\ phase[d] # "new"
    BY <1>0, <1>4 DEF HeldBy, ClientTypes
  <2>4. UNCHANGED <<apiDisposed, aborted, phase, settled, sent, timer, listening, pending,
                    recorded, result, messages>>
    BY <1>4, <2>1
  <2>5. /\ stack' \in Seq(FrameSet) /\ Apart(stack')
        /\ \A f \in ToSet(stack') : f \in ToSet(stack)
        /\ \A f \in ToSet(stack) : Settling(f) => f \in ToSet(stack')
    BY <1>2, <1>3, <2>1
  <2> QED
    BY <2>2, <2>3, <2>4, <2>5, QuietInv
<1>6. CASE Top.rest # {}
  <2>1. PICK e : e = Min(Top.rest)
    OBVIOUS
  <2>2. Top.rest \in SUBSET Calls /\ Top.rest \in SUBSET Nat
    BY <1>2, FrameParts, CallsAreNumbers
  <2>3. e \in Top.rest
    <3>1. \E n \in Top.rest : \A m \in Top.rest : n <= m
      BY <1>6, <2>2, LeastNumber
    <3> QED
      BY <2>1, <3>1 DEF Min
  <2>4. e \in Calls /\ phase[e] # "new" /\ Top.cause \in Causes
    BY <1>1, <1>2, <2>2, <2>3 DEF FrameKnown, Causes, GivenUp
  <2>5. PICK f : f = [Top EXCEPT !.rest = @ \ {e}]
    OBVIOUS
  <2>6. PICK below : below = Append(Rest, f)
    OBVIOUS
  <2>7. /\ Settle(e, Top.cause, below)
        /\ listening' \subseteq listening /\ listening \subseteq listening' \cup {e}
    BY <1>6, <2>1, <2>5, <2>6 DEF SweepOn
  <2>8. /\ f \in FrameSet /\ f.at = "sweeping" /\ f.cause = Top.cause
        /\ f.rest = Top.rest \ {e}
    BY <1>1, <1>2, <2>5 DEF FrameSet
  <2>9. FrameKnown(f) /\ ~Settling(f)
    BY <1>1, <1>2, <2>8 DEF FrameKnown, Settling
  <2>10. below \in Seq(FrameSet) /\ ToSet(below) = ToSet(Rest) \cup {f} /\ Apart(below)
    BY <1>2, <2>6, <2>8, <2>9, FramePushed DEF Alone
  <2>11. \A d \in Calls : d # e /\ Sweeps(stack, d) => Sweeps(below, d)
    BY <1>2, <2>8, <2>10 DEF Sweeps
  <2>12. /\ \A g \in ToSet(below) : FrameKnown(g)
         /\ \A g \in ToSet(stack) : Settling(g) => g \in ToSet(below)
    BY <1>2, <1>3, <2>9, <2>10
  <2>13. UNCHANGED <<apiDisposed, aborted, phase, sent, pending, result, messages>> /\
         timer' = timer /\ waiting' = waiting
    BY <1>4
  <2> QED
    BY <2>4, <2>7, <2>10, <2>11, <2>12, <2>13, SettleInv
<1> QED
  BY <1>5, <1>6

\* A frame that goes on settling its call under another point.
LEMMA MovedInv ==
  ASSUME ClientInv, UNCHANGED <<apiDisposed, aborted, phase, settled, sent, timer, listening, pending,
                          waiting, recorded, result>>,
         stack # <<>>, Settling(Top), Top.cause \in GivenUp, Top.call \in sent,
         NEW f \in FrameSet, f.at \in {"cancelling", "reporting"},
         f.call = Top.call, f.cause = Top.cause,
         messages' = [messages EXCEPT ![Top.call] = <<"invoke", "cancel">>],
         stack' = Append(Rest, f)
  PROVE  ClientInv'
<1>0. ClientTypes /\ CallsTold /\ \A d \in Calls : HeldBy(d)
  BY DEF ClientInv
<1>1. /\ Rest \in Seq(FrameSet) /\ ToSet(stack) = ToSet(Rest) \cup {Top}
      /\ Apart(Rest) /\ Alone(Rest, Top) /\ FrameKnown(Top)
  BY <1>0, TopFrames
<1>2. PICK d \in Calls : d = Top.call
  BY <1>0 DEF ClientTypes
<1>3. /\ messages' \in [Calls -> Seq({"invoke", "cancel"})]
      /\ messages'[d] = <<"invoke", "cancel">>
      /\ \A e \in Calls : e # d => messages'[e] = messages[e]
  BY <1>0, <1>2 DEF ClientTypes
<1>4. stack' \in Seq(FrameSet) /\ ToSet(stack') = ToSet(Rest) \cup {f} /\ Apart(stack')
  <2>1. Alone(Rest, f)
    BY <1>1 DEF Alone
  <2> QED
    BY <1>1, <2>1, FramePushed
<1>5. ClientTypes'
  BY <1>0, <1>3, <1>4 DEF ClientTypes
<1>6. \A g \in ToSet(stack') : FrameKnown(g)'
  <2>1. FrameKnown(f)'
    BY <1>1, <1>2, <1>3 DEF FrameKnown, Settling
  <2>2. ASSUME NEW g \in ToSet(Rest)
        PROVE  FrameKnown(g)'
    <3>1. FrameKnown(g) /\ (Settling(g) => g.call \in Calls /\ g.call # d)
      BY <1>0, <1>1, <1>2 DEF CallsTold, Alone, FrameKnown, ClientTypes
    <3>2. Settling(g) => messages'[g.call] = messages[g.call]
      BY <1>3, <3>1
    <3> QED
      BY <3>1, <3>2 DEF FrameKnown, Settling, Asked
  <2> QED
    BY <1>4, <2>1, <2>2
<1>7. \A e \in Calls : CallTold(e)' /\ Due(stack, e)' /\ HeldBy(e)'
  <2> SUFFICES ASSUME NEW e \in Calls
               PROVE  CallTold(e)' /\ Due(stack, e)' /\ HeldBy(e)'
    OBVIOUS
  <2>1. CallTold(e) /\ Due(stack, e) /\ HeldBy(e)
    BY <1>0 DEF CallsTold
  <2>2. CallTold(e)'
    <3>1. CASE e = d
      <4>1. d \in settled /\ result[d] = "none" /\ d \in sent
        BY <1>1, <1>2 DEF FrameKnown
      <4> QED
        BY <1>3, <2>1, <3>1, <4>1 DEF CallTold
    <3>2. CASE e # d
      BY <1>3, <2>1, <3>2 DEF CallTold, Asked, Records
    <3> QED
      BY <3>1, <3>2
  <2>3. Settles(stack, e) => Settles(stack, e)'
    <3>1. Settling(f)
      BY DEF Settling
    <3> QED
      BY <1>1, <1>4, <3>1 DEF Settles
  <2>4. Sweeps(stack, e) => Sweeps(stack, e)'
    BY <1>1, <1>4 DEF Sweeps, Settling
  <2>5. GaveUp(e)' = GaveUp(e)
    BY DEF GaveUp
  <2> QED
    BY <2>1, <2>2, <2>3, <2>4, <2>5 DEF Due, HeldBy
<1> QED
  BY <1>4, <1>5, <1>6, <1>7 DEF ClientInv, CallsTold

\* The promise of a call settles.
LEMMA ConcludeInv ==
  ASSUME ClientInv, UNCHANGED <<apiDisposed, aborted, phase, settled, sent, timer, listening, pending,
                          waiting, recorded, messages>>,
         stack # <<>>, Settling(Top), Conclude(Top.call, Top.cause),
         Top.at = "recording" => ~(Top.cause \in GivenUp /\ Top.call \in sent)
  PROVE  ClientInv'
<1>0. ClientTypes /\ CallsTold /\ \A d \in Calls : HeldBy(d)
  BY DEF ClientInv
<1>1. /\ Rest \in Seq(FrameSet) /\ ToSet(stack) = ToSet(Rest) \cup {Top}
      /\ Apart(Rest) /\ Alone(Rest, Top) /\ FrameKnown(Top)
  BY <1>0, TopFrames
<1>2. PICK d \in Calls : d = Top.call
  BY <1>0, <1>1 DEF ClientTypes, FrameKnown
<1>3. /\ d \in settled /\ Top.cause \in Causes
      /\ recorded[d] = <<Top.cause>> /\ result[d] = "none"
  BY <1>1, <1>2 DEF FrameKnown
<1>4. /\ stack' = Rest
      /\ result' \in [Calls -> {"none", "resolved", "rejected"}]
      /\ result'[d] = IF Top.cause = "ok" THEN "resolved" ELSE "rejected"
      /\ \A e \in Calls : e # d => result'[e] = result[e]
  BY <1>0, <1>2, <1>3 DEF Conclude, ClientTypes
<1>5. ClientTypes'
  BY <1>0, <1>1, <1>4 DEF ClientTypes
<1>6. ASSUME NEW g \in ToSet(Rest)
      PROVE  FrameKnown(g)'
  <2>1. FrameKnown(g) /\ (Settling(g) => g.call \in Calls /\ g.call # d)
    BY <1>0, <1>1, <1>2 DEF CallsTold, Alone, FrameKnown, ClientTypes
  <2>2. Settling(g) => result'[g.call] = result[g.call]
    BY <1>4, <2>1
  <2> QED
    BY <2>1, <2>2 DEF FrameKnown, Asked
<1>7. ASSUME NEW e \in Calls
      PROVE  CallTold(e)' /\ Due(stack, e)' /\ HeldBy(e)'
  <2>1. CallTold(e) /\ Due(stack, e) /\ HeldBy(e)
    BY <1>0 DEF CallsTold
  <2>2. Sweeps(stack, e) => Sweeps(stack, e)'
    BY <1>1, <1>4 DEF Sweeps, Settling
  <2>3. GaveUp(e)' = GaveUp(e)
    BY DEF GaveUp
  <2>4. CASE e = d
    <3>1. (result'[d] = "resolved") = (recorded[d] = <<"ok">>)
      BY <1>3, <1>4
    <3>2. (Records(d) \subseteq GivenUp) = (Top.cause \in GivenUp)
      BY <1>3 DEF Records
    <3>3. d \in sent => (Top.cause \in GivenUp) = (messages[d] = <<"invoke", "cancel">>)
      <4>1. CASE Top.at = "recording"
        <5>1. messages[d] = Asked(d) /\ (d \in sent => Top.cause \notin GivenUp)
          BY <1>1, <1>2, <4>1 DEF FrameKnown
        <5>2. <<"invoke">> # <<"invoke", "cancel">>
          OBVIOUS
        <5> QED
          BY <5>1, <5>2 DEF Asked
      <4>2. CASE Top.at \in {"cancelling", "reporting"}
        <5>1. Top.cause \in GivenUp /\ messages[d] = <<"invoke", "cancel">>
          BY <1>1, <1>2, <4>2 DEF FrameKnown
        <5> QED
          BY <5>1
      <4> QED
        BY <4>1, <4>2 DEF Settling
    <3>4. CallTold(e)'
      BY <1>3, <2>1, <2>4, <3>1, <3>2, <3>3 DEF CallTold, Asked, Records
    <3> QED
      BY <1>4, <2>1, <2>2, <2>3, <2>4, <3>4 DEF Due, HeldBy
  <2>5. CASE e # d
    <3>1. Settles(stack, e) => Settles(stack, e)'
      BY <1>1, <1>2, <1>4, <2>5 DEF Settles
    <3>2. CallTold(e)'
      BY <1>4, <2>1, <2>5 DEF CallTold, Asked, Records
    <3> QED
      BY <1>4, <2>1, <2>2, <2>3, <2>5, <3>1, <3>2 DEF Due, HeldBy
  <2> QED
    BY <2>4, <2>5
<1> QED
  BY <1>1, <1>4, <1>5, <1>6, <1>7 DEF ClientInv, CallsTold

\* The sink has heard of the settlement: Main is told, or the promise settles.
LEMMA RecordedInv ==
  ASSUME ClientInv, Recorded
  PROVE  ClientInv'
<1>0. ClientTypes /\ CallsTold /\ \A d \in Calls : HeldBy(d)
  BY DEF ClientInv
<1>1. stack # <<>> /\ Top.at = "recording" /\ Settling(Top)
  BY DEF Recorded, At, Settling
<1>2. FrameKnown(Top) /\ Top \in FrameSet
  BY <1>0, <1>1, TopFrames
<1>3. CASE Top.cause \in GivenUp /\ Top.call \in sent
  <2>1. PICK f : f = [Top EXCEPT !.at = "cancelling"]
    OBVIOUS
  <2>2. f \in FrameSet /\ f.at = "cancelling" /\ f.call = Top.call /\ f.cause = Top.cause
    BY <1>2, <2>1 DEF FrameSet, Points
  <2>3. Append(messages[Top.call], "cancel") = <<"invoke", "cancel">>
    <3>1. messages[Top.call] = <<"invoke">>
      BY <1>1, <1>2, <1>3 DEF FrameKnown, Asked
    <3>2. PICK told : told = Append(<<"invoke">>, "cancel")
      OBVIOUS
    <3>3. /\ told \in Seq({"invoke", "cancel"}) /\ Len(told) = 2
          /\ told[1] = "invoke" /\ told[2] = "cancel"
      BY <3>2
    <3>4. told = <<"invoke", "cancel">>
      BY <3>3
    <3> QED
      BY <3>1, <3>2, <3>4
  <2>4. /\ messages' = [messages EXCEPT ![Top.call] = <<"invoke", "cancel">>]
        /\ stack' = Append(Rest, f)
    BY <1>3, <2>1, <2>3 DEF Recorded
  <2>5. UNCHANGED <<apiDisposed, aborted, phase, settled, sent, timer, listening, pending,
                    waiting, recorded, result>>
    BY <1>3 DEF Recorded
  <2> QED
    BY <1>1, <1>3, <2>2, <2>4, <2>5, MovedInv
<1>4. CASE ~(Top.cause \in GivenUp /\ Top.call \in sent)
  <2>1. /\ UNCHANGED <<apiDisposed, aborted, phase, settled, sent, timer, listening, pending,
                       waiting, recorded, messages>>
        /\ Conclude(Top.call, Top.cause)
    BY <1>4 DEF Recorded
  <2> QED
    BY <1>1, <1>4, <2>1, ConcludeInv
<1> QED
  BY <1>3, <1>4

\* transport.cancel returns or throws.
LEMMA CancelledInv ==
  ASSUME ClientInv, Cancelled
  PROVE  ClientInv'
<1>0. ClientTypes /\ CallsTold /\ \A d \in Calls : HeldBy(d)
  BY DEF ClientInv
<1>1. /\ stack # <<>> /\ Top.at \in {"cancelling", "reporting"} /\ Settling(Top)
  BY DEF Cancelled, At, Settling
<1>2. FrameKnown(Top) /\ Top \in FrameSet
  BY <1>0, <1>1, TopFrames
<1>3. CASE Conclude(Top.call, Top.cause)
  <2>1. UNCHANGED <<apiDisposed, aborted, phase, settled, sent, timer, listening, pending,
                    waiting, recorded, messages>>
    BY DEF Cancelled
  <2> QED
    BY <1>1, <1>3, <2>1, ConcludeInv
<1>4. CASE stack' = Append(Rest, [Top EXCEPT !.at = "reporting"]) /\ result' = result
  <2>1. PICK f : f = [Top EXCEPT !.at = "reporting"]
    OBVIOUS
  <2>2. f \in FrameSet /\ f.at = "reporting" /\ f.call = Top.call /\ f.cause = Top.cause
    BY <1>2, <2>1 DEF FrameSet, Points
  <2>3. /\ Top.cause \in GivenUp /\ messages[Top.call] = <<"invoke", "cancel">>
        /\ Top.call \in Calls
    BY <1>0, <1>1, <1>2 DEF FrameKnown, ClientTypes
  <2>4. Top.call \in sent
    BY <1>0, <2>3 DEF CallsTold, CallTold
  <2>5. UNCHANGED <<apiDisposed, aborted, phase, settled, sent, timer, listening, pending,
                    waiting, recorded, result>> /\ messages' = messages
    BY <1>4 DEF Cancelled
  <2>6. messages' = [messages EXCEPT ![Top.call] = <<"invoke", "cancel">>]
    BY <1>0, <2>3, <2>5 DEF ClientTypes
  <2> QED
    BY <1>1, <1>4, <2>1, <2>2, <2>3, <2>4, <2>5, <2>6, MovedInv
<1> QED
  BY <1>3, <1>4 DEF Cancelled

\* The microtask after a settled promise clears what was held for the call.
LEMMA FinallyInv ==
  ASSUME ClientInv, NEW d \in Calls, Finally(d)
  PROVE  ClientInv'
<1>0. ClientTypes /\ CallsTold /\ \A e \in Calls : HeldBy(e) /\ CallTold(e)
  BY DEF ClientInv, CallsTold
<1>1. /\ phase[d] = "open" /\ result[d] # "none" /\ phase' = [phase EXCEPT ![d] = "closed"]
      /\ timer' = timer \ {d} /\ listening' = listening \ {d} /\ pending' = pending \ {d}
      /\ UNCHANGED <<apiDisposed, aborted, settled, sent, waiting, recorded, result, messages,
                     stack>>
  BY DEF Finally, Settled
<1>2. /\ phase'[d] = "closed" /\ phase' \in [Calls -> {"new", "open", "closed"}]
      /\ \A e \in Calls : e # d => phase'[e] = phase[e]
  BY <1>0, <1>1 DEF ClientTypes
<1>3. ClientTypes'
  BY <1>0, <1>1, <1>2 DEF ClientTypes
<1>4. CallsTold'
  <2>1. \A f \in ToSet(stack) : f.rest \subseteq Calls
    BY <1>0, Values, FrameParts DEF ClientTypes
  <2>2. UNCHANGED <<settled, sent, recorded, result, messages>> /\ stack' = stack
    BY <1>1
  <2>3. \A e \in Calls : phase[e] # "new" => phase'[e] # "new"
    BY <1>2
  <2>4. Apart(stack)
    BY <1>0 DEF CallsTold
  <2> QED
    BY <1>0, <2>1, <2>2, <2>3, <2>4, QuietTold
<1>5. ASSUME NEW e \in Calls
      PROVE  HeldBy(e)'
  <2>1. CASE e = d
    <3>1. d \in settled
      BY <1>0, <1>1 DEF CallTold
    <3> QED
      BY <1>1, <1>2, <2>1, <3>1 DEF HeldBy
  <2>2. CASE e # d
    <3>1. /\ HeldBy(e) /\ phase'[e] = phase[e] /\ (e \in timer' <=> e \in timer)
          /\ (e \in listening' <=> e \in listening) /\ (e \in pending' <=> e \in pending)
          /\ GaveUp(e)' = GaveUp(e) /\ Sweeps(stack, e)' = Sweeps(stack, e)
      BY <1>0, <1>1, <1>2, <2>2 DEF GaveUp, Sweeps
    <3> QED
      BY <1>1, <3>1 DEF HeldBy
  <2> QED
    BY <2>1, <2>2
<1> QED
  BY <1>3, <1>4, <1>5 DEF ClientInv

\* A sweep begins: those that are given up are open calls, and it reaches all of them
\* that are not settled.
LEMMA SweepInv ==
  ASSUME ClientInv, UNCHANGED <<phase, settled, sent, timer, listening, waiting, recorded,
                          result, messages>>,
         NEW cause \in {"aborted", "disposed"},
         NEW calls \in SUBSET (listening \cup pending),
         stack' = Append(stack, Sweep(cause, calls)),
         apiDisposed' \in BOOLEAN, aborted' \subseteq Signals, pending' \subseteq pending,
         \A d \in Calls : apiDisposed \/ d \in pending => d \in pending' \/ apiDisposed',
         \A d \in calls : phase[d] = "open",
         \A d \in Calls : phase[d] = "open" /\ d \notin settled /\ GaveUp(d)' =>
           GaveUp(d) \/ d \in calls
  PROVE  ClientInv'
<1>0. ClientTypes /\ CallsTold /\ \A e \in Calls : HeldBy(e)
  BY DEF ClientInv
<1>1. PICK f : f = Frame("sweeping", 0, cause, calls)
  OBVIOUS
<1>2. /\ f \in FrameSet /\ f.at = "sweeping" /\ f.cause = cause /\ f.rest = calls
  <2>1. /\ "sweeping" \in Points /\ 0 \in Calls \cup {0} /\ cause \in Causes \cup {"none"}
        /\ calls \in SUBSET Calls
    BY <1>0 DEF Points, Causes, GivenUp, ClientTypes
  <2>2. f \in FrameSet /\ f.at = "sweeping" /\ f.cause = cause /\ f.rest = calls
    BY ONLY <2>1, <1>1 DEF Frame, FrameSet
  <2> QED
    BY <2>2
<1>3. ~Settling(f) /\ FrameKnown(f)'
  BY <1>2 DEF FrameKnown, Settling
<1>4. stack' \in Seq(FrameSet) /\ ToSet(stack') = ToSet(stack) \cup {f} /\ Apart(stack')
  <2>1. stack' = Append(stack, f)
    BY <1>1 DEF Sweep
  <2>2. stack \in Seq(FrameSet) /\ Apart(stack) /\ Alone(stack, f)
    BY <1>0, <1>3 DEF ClientTypes, CallsTold, Alone
  <2> QED
    BY <1>2, <2>1, <2>2, FramePushed
<1>5. ClientTypes'
  BY <1>0, <1>4 DEF ClientTypes
<1>6. CallsTold'
  <2>1. \A g \in ToSet(stack) : g.rest \subseteq Calls
    BY <1>0, Values, FrameParts DEF ClientTypes
  <2>2. UNCHANGED <<settled, sent, recorded, result, messages>>
    OBVIOUS
  <2>3. \A e \in Calls : phase[e] # "new" => phase'[e] # "new"
    OBVIOUS
  <2>4. /\ \A g \in ToSet(stack') : g \in ToSet(stack) \/ (~Settling(g) /\ FrameKnown(g)')
        /\ \A g \in ToSet(stack) : Settling(g) => g \in ToSet(stack')
    BY <1>3, <1>4
  <2> QED
    BY <1>0, <1>4, <2>1, <2>2, <2>3, <2>4, QuietTold
<1>7. ASSUME NEW d \in Calls
      PROVE  HeldBy(d)'
  <2>1. /\ HeldBy(d) /\ (d \in pending' => d \in pending)
        /\ (Sweeps(stack, d) \/ d \in calls => Sweeps(stack, d)')
    BY <1>0, <1>2, <1>4 DEF Sweeps
  <2>2. apiDisposed \/ d \in pending => apiDisposed' \/ d \in pending'
    OBVIOUS
  <2> QED
    BY <2>1, <2>2 DEF HeldBy
<1> QED
  BY <1>5, <1>6, <1>7 DEF ClientInv

LEMMA AbortInv ==
  ASSUME ClientInv, NEW s \in Signals, Abort(s)
  PROVE  ClientInv'
<1>0. ClientTypes /\ CallsTold /\ \A e \in Calls : HeldBy(e)
  BY DEF ClientInv
<1>1. PICK calls : calls = {d \in listening : SignalOf(d) = s}
  OBVIOUS
<1>2. /\ stack' = Append(stack, Sweep("aborted", calls)) /\ aborted' = aborted \cup {s}
      /\ UNCHANGED <<phase, settled, sent, timer, listening, waiting, recorded, result,
                     messages>>
      /\ apiDisposed' = apiDisposed /\ pending' = pending
  BY <1>1 DEF Abort
<1>3. calls \in SUBSET (listening \cup pending) /\ "aborted" \in {"aborted", "disposed"}
  BY <1>1
<1>4. \A d \in calls : phase[d] = "open"
  BY <1>0, <1>1 DEF HeldBy, ClientTypes
<1>5. ASSUME NEW d \in Calls, phase[d] = "open", d \notin settled, GaveUp(d)'
      PROVE  GaveUp(d) \/ d \in calls
  BY <1>0, <1>1, <1>2, <1>5 DEF HeldBy, GaveUp
<1>6. apiDisposed' \in BOOLEAN /\ aborted' \subseteq Signals /\ pending' \subseteq pending
  BY <1>0, <1>2 DEF ClientTypes
<1>7. \A d \in Calls : apiDisposed \/ d \in pending => d \in pending' \/ apiDisposed'
  BY <1>2
<1> QED
  BY <1>2, <1>3, <1>4, <1>5, <1>6, <1>7, SweepInv

LEMMA DisposeInv ==
  ASSUME ClientInv, DisposeApi
  PROVE  ClientInv'
<1>0. ClientTypes /\ CallsTold /\ \A e \in Calls : HeldBy(e)
  BY DEF ClientInv
<1>1. /\ stack' = Append(stack, Sweep("disposed", pending)) /\ apiDisposed' = TRUE
      /\ pending' = {} /\ aborted' = aborted
      /\ UNCHANGED <<phase, settled, sent, timer, listening, waiting, recorded, result,
                     messages>>
  BY DEF DisposeApi
<1>2. ~apiDisposed /\ pending \in SUBSET (listening \cup pending)
      /\ "disposed" \in {"aborted", "disposed"}
  BY DEF DisposeApi
<1>3. \A d \in pending : phase[d] = "open"
  BY <1>0 DEF HeldBy, ClientTypes
<1>4. ASSUME NEW d \in Calls, phase[d] = "open", d \notin settled
      PROVE  d \in pending
  BY <1>0, <1>2, <1>4 DEF HeldBy
<1>5. apiDisposed' \in BOOLEAN /\ aborted' \subseteq Signals /\ pending' \subseteq pending
  BY <1>0, <1>1 DEF ClientTypes
<1>6. \A d \in Calls : apiDisposed \/ d \in pending => d \in pending' \/ apiDisposed'
  BY <1>1
<1>7. \A d \in Calls : phase[d] = "open" /\ d \notin settled /\ GaveUp(d)' =>
        GaveUp(d) \/ d \in pending
  BY <1>4
<1> QED
  BY <1>1, <1>2, <1>3, <1>5, <1>6, <1>7, SweepInv

-----------------------------------------------------------------------------
(* The theorem *)

LEMMA InvInit == ClientInit => ClientInv
<1> SUFFICES ASSUME ClientInit PROVE ClientInv
  OBVIOUS
<1>1. ToSet(stack) = {} /\ Apart(stack)
  BY ValuesEmpty DEF ClientInit, Apart
<1>2. ClientTypes
  <2>1. stack \in Seq(FrameSet)
    BY DEF ClientInit
  <2>2. recorded \in [Calls -> Seq(Causes)] /\ messages \in [Calls -> Seq({"invoke", "cancel"})]
    BY DEF ClientInit
  <2> QED
    BY <2>1, <2>2 DEF ClientInit, ClientTypes
<1>3. CallsTold
  BY <1>1 DEF ClientInit, CallsTold, CallTold, Due, Asked
<1>4. \A d \in Calls : HeldBy(d)
  BY DEF ClientInit, HeldBy
<1> QED
  BY <1>2, <1>3, <1>4 DEF ClientInv

LEMMA InvNext == ClientInv /\ [ClientNext]_clientVars => ClientInv'
<1> SUFFICES ASSUME ClientInv, [ClientNext]_clientVars
             PROVE  ClientInv'
  OBVIOUS
<1>1. CASE Invoked
  BY <1>1, InvokedInv
<1>2. CASE Recorded
  BY <1>2, RecordedInv
<1>3. CASE Cancelled
  BY <1>3, CancelledInv
<1>4. CASE SweepOn
  BY <1>4, SweepOnInv
<1>5. ASSUME NEW d \in Calls, Call(d)
      PROVE  ClientInv'
  <2>1. phase[d] = "new" /\ UNCHANGED <<apiDisposed, aborted, waiting, result>>
    BY <1>5 DEF Call
  <2>2. RefuseCall(d) \/ OpenCall(d)
    BY <1>5 DEF Call
  <2> QED
    BY <2>1, <2>2, RefuseInv, OpenInv
<1>6. ASSUME NEW d \in Calls, Respond(d) \/ Deadline(d)
      PROVE  ClientInv'
  BY <1>6, RespondInv
<1>7. ASSUME NEW d \in Calls, Finally(d)
      PROVE  ClientInv'
  BY <1>7, FinallyInv
<1>8. ASSUME NEW s \in Signals, Abort(s)
      PROVE  ClientInv'
  BY <1>8, AbortInv
<1>9. CASE DisposeApi
  BY <1>9, DisposeInv
<1>10. CASE UNCHANGED clientVars
  <2>0. ClientTypes /\ CallsTold /\ \A d \in Calls : HeldBy(d)
    BY DEF ClientInv
  <2>1. UNCHANGED <<apiDisposed, aborted, phase, settled, sent, timer, listening, pending,
                    waiting, recorded, result, messages, stack>>
    BY <1>10 DEF clientVars
  <2>2. stack' \in Seq(FrameSet) /\ Apart(stack')
    BY <2>0, <2>1 DEF ClientTypes, CallsTold
  <2>3. \A d \in waiting' : d \in Calls /\ phase[d] # "new"
    BY <2>0, <2>1 DEF ClientTypes, HeldBy
  <2>4. /\ \A f \in ToSet(stack') : f \in ToSet(stack)
        /\ \A f \in ToSet(stack) : Settling(f) => f \in ToSet(stack')
        /\ \A d \in Calls : Sweeps(stack, d) => Sweeps(stack, d)'
    BY <2>1 DEF Sweeps
  <2> QED
    BY <2>1, <2>2, <2>3, <2>4, QuietInv
<1> QED
  BY <1>1, <1>2, <1>3, <1>4, <1>5, <1>6, <1>7, <1>8, <1>9, <1>10 DEF ClientNext, Return

\* However the response, the transport, the timeout, the signal and dispose() race for a
\* call, and whatever sink and transport call meanwhile: the call has one outcome, Main
\* is told to cancel it exactly when the Renderer gave it up, and nothing is left of it.
THEOREM SettledOnceCorrect == ClientSpec => []SettledOnce
<1>1. ClientInv => SettledOnce
  <2> SUFFICES ASSUME ClientInv PROVE SettledOnce
    OBVIOUS
  <2>0. ClientTypes /\ CallsTold /\ \A d \in Calls : HeldBy(d)
    BY DEF ClientInv
  <2>1. ClientTypeOK
    <3>1. \A i \in 1 .. Len(stack) : stack[i].at \in Points
      <4>1. \A i \in 1 .. Len(stack) : stack[i] \in FrameSet
        BY <2>0 DEF ClientTypes
      <4> QED
        BY <4>1, FrameParts
    <3>2. DOMAIN stack = 1 .. Len(stack)
      BY <2>0 DEF ClientTypes
    <3> QED
      BY <2>0, <3>1, <3>2 DEF ClientTypeOK, ClientTypes, Points, Causes
  <2>2. ASSUME NEW d \in Calls
        PROVE  /\ Len(recorded[d]) <= 1
               /\ result[d] # "none" => (result[d] = "resolved") = (recorded[d] = <<"ok">>)
               /\ messages[d] \in {<<>>, <<"invoke">>, <<"invoke", "cancel">>}
               /\ Idle /\ recorded[d] # <<>> =>
                    /\ result[d] # "none"
                    /\ messages[d] # <<>> =>
                         (Records(d) \subseteq GivenUp) = (messages[d] = <<"invoke", "cancel">>)
    <3>1. CallTold(d) /\ Due(stack, d)
      BY <2>0 DEF CallsTold
    <3>2. Len(recorded[d]) <= 1
      <4>1. recorded[d] = <<>> \/ \E cause : recorded[d] = <<cause>>
        BY <3>1 DEF CallTold
      <4>2. recorded[d] = <<>> => Len(recorded[d]) = 0
        OBVIOUS
      <4>3. ASSUME NEW cause, recorded[d] = <<cause>>
            PROVE  Len(recorded[d]) = 1
        BY <4>3
      <4>4. Len(recorded[d]) = 0 \/ Len(recorded[d]) = 1
        BY <4>1, <4>2, <4>3, Zenon
      <4>5. \A n : n = 0 \/ n = 1 => n <= 1
        OBVIOUS
      <4> QED
        BY <4>4, <4>5, Zenon
    <3>3. messages[d] \in {<<>>, <<"invoke">>, <<"invoke", "cancel">>}
      BY <3>1 DEF CallTold, Asked
    <3>4. ASSUME Idle, recorded[d] # <<>>
          PROVE  result[d] # "none"
      <4>1. ToSet(stack) = {}
        BY <3>4, ValuesEmpty DEF Idle
      <4> QED
        BY <3>1, <3>4, <4>1 DEF CallTold, Due, Settles
    <3> QED
      BY <3>1, <3>2, <3>3, <3>4 DEF CallTold
  <2>3. ASSUME Idle, NEW d \in Calls
        PROVE  /\ phase[d] = "open" /\ GaveUp(d) => d \in settled
               /\ phase[d] = "closed" => d \in settled /\ d \notin timer \cup listening \cup pending
    <3>1. ToSet(stack) = {}
      BY <2>3, ValuesEmpty DEF Idle
    <3> QED
      BY <2>0, <3>1 DEF HeldBy, Sweeps
  <2> QED
    BY <2>1, <2>2, <2>3 DEF SettledOnce, OneOutcome, NothingLeft
<1> QED
  BY InvInit, InvNext, <1>1, PTL DEF ClientSpec
=============================================================================
