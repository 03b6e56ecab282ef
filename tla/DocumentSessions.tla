-------------------------- MODULE DocumentSessions ---------------------------
(***************************************************************************)
(* main/document-sessions.ts: which webContents are attached, which        *)
(* document session each has, and how sessions are opened, replaced and    *)
(* retired.  Every RPC and every subscription of Main belongs to one       *)
(* session, so a session that is neither current nor retired would keep    *)
(* its work for ever.                                                      *)
(*                                                                         *)
(* Documents of a webContents are numbered in the order they are           *)
(* committed; `frame' is the one the main frame shows (routingId).  The    *)
(* preload of a document makes its clientIds, so a clientId is a pair of   *)
(* the document and a number.                                              *)
(*                                                                         *)
(* The diagnostics sink and the retire listeners run inside attach,        *)
(* establish, detach and dispose and may call them again.  `stack' holds   *)
(* the calls in progress, the innermost last.                              *)
(***************************************************************************)
EXTENDS Integers, Sequences, SequencesExt

CONSTANTS
  Contents,         \* the webContents, numbered
  NumDocuments,     \* how many documents each of them shows, one after another
  ClientsPerDocument, \* how many clientIds a document uses
  MaxRetired,       \* ResourceLimits.maxRetiredClientsPerWebContents
  MaxAttachments,   \* bound: how many times attach() succeeds
  MaxSessions,      \* bound: how many sessions are opened
  SinkCalls,        \* the calls made while the diagnostics sink runs
  ListenerCalls,    \* the calls made while the retire listeners run
  MaxDepth          \* bound: no such call is made on a stack this deep

AllCalls == {"attach", "detach", "establish", "dispose", "destroy"}

ASSUME ContentsAssumption == Contents \subseteq Nat
ASSUME DocumentsAssumption == NumDocuments \in Nat \ {0} /\ ClientsPerDocument \in Nat
ASSUME RetiredAssumption == MaxRetired \in Nat \ {0}
ASSUME BoundAssumption ==
  MaxAttachments \in Nat /\ MaxSessions \in Nat /\ MaxDepth \in Nat
ASSUME CallsAssumption == SinkCalls \subseteq AllCalls /\ ListenerCalls \subseteq AllCalls

None == 0
Documents == 1 .. NumDocuments
Clients == Documents \X (1 .. ClientsPerDocument)
DocumentOf(client) == client[1]

VARIABLES
  frame,      \* webContents -> the document in its main frame
  destroyed,  \* the webContents that are destroyed
  disposed,   \* dispose() was called
  homes,      \* attachment -> its webContents, in the order they were made
  attached,   \* webContents -> its attachment in the map, or None
  watching,   \* the attachments whose lifecycle listener is registered
  current,    \* attachment -> its current session, or None
  sessions,   \* session -> its attachment, clientId and retire reason
  retired,    \* webContents -> the clientIds retired there, oldest first
  stack       \* the calls in progress

outside == <<frame, destroyed>>
vars == <<outside, disposed, homes, attached, watching, current, sessions, retired,
          stack>>

Lifecycle == {"main-frame-navigation", "render-process-gone", "destroyed"}
Reasons == Lifecycle \cup {"detach", "dispose", "replaced"}

Session(attachment, client) ==
  [attachment |-> attachment, client |-> client, reason |-> "none"]

Init ==
  /\ frame = [w \in Contents |-> 1]
  /\ destroyed = {}
  /\ disposed = FALSE
  /\ homes = <<>>
  /\ attached = [w \in Contents |-> None]
  /\ watching = {}
  /\ current = <<>>
  /\ sessions = <<>>
  /\ retired = [w \in Contents |-> <<>>]
  /\ stack = <<>>

\* A call in progress: `on' is its attachment, or its webContents; `arg' the
\* retire reason or the clientId.
Frame(at, on, session, arg) ==
  [at |-> at, on |-> on, session |-> session, arg |-> arg]
Top == stack[Len(stack)]
Rest == SubSeq(stack, 1, Len(stack) - 1)
At(point) == stack # <<>> /\ Top.at = point

\* A call from outside comes when nothing is going on; one made by the sink or by a
\* listener, directly or through what it calls, has to be one of theirs.
MayCall(call) ==
  \/ stack = <<>>
  \/ /\ stack # <<>> /\ Top.at \in {"closing", "opening", "notifying"}
     /\ Len(stack) < MaxDepth
     /\ \A i \in 1 .. Len(stack) :
          /\ stack[i].at \in {"closing", "opening"} => call \in SinkCalls
          /\ stack[i].at = "notifying" => call \in ListenerCalls

-----------------------------------------------------------------------------
With(clients, client) ==
  IF Contains(clients, client) THEN clients ELSE Append(clients, client)

\* Mutant: a full record keeps its oldest clientIds.
RecordedOldest(clients, client) ==
  IF Len(clients) >= MaxRetired THEN clients ELSE With(clients, client)

\* The record of a webContents with one more clientId; beyond the limit the oldest
\* one goes.
Recorded(clients, client) ==
  IF Len(With(clients, client)) > MaxRetired THEN Tail(With(clients, client))
  ELSE With(clients, client)

\* The record once a retirement for this reason is over.
Settled(clients, reason) == IF reason = "destroyed" THEN <<>> ELSE clients

\* #retire, up to the session-closed diagnostics.
Retire(a, reason, below) ==
  \/ /\ current[a] = None
     /\ stack' = below
     /\ retired' = [retired EXCEPT ![homes[a]] = Settled(@, reason)]
     /\ UNCHANGED current
  \/ /\ current[a] # None
     /\ current' = [current EXCEPT ![a] = None]
     /\ stack' = Append(below, Frame("closing", a, current[a], reason))
     /\ UNCHANGED retired

\* session-closed is recorded: remember the clientId, set the reason, call the
\* retire listeners.
Closing ==
  LET s == Top.session IN
  /\ At("closing")
  /\ retired' = [retired EXCEPT ![homes[Top.on]] = Recorded(@, sessions[s].client)]
  /\ sessions' = [sessions EXCEPT ![s].reason = Top.arg]
  /\ stack' = Append(Rest, [Top EXCEPT !.at = "notifying"])
  /\ UNCHANGED <<outside, disposed, homes, attached, watching, current>>

\* The listeners have returned.
Notified ==
  /\ At("notifying")
  /\ retired' = [retired EXCEPT ![homes[Top.on]] = Settled(@, Top.arg)]
  /\ stack' = Rest
  /\ UNCHANGED <<outside, disposed, homes, attached, watching, current, sessions>>

\* #detach of an attached webContents: out of the map first, then the lifecycle
\* listener, then the session.
Detached(w, reason, below) ==
  /\ attached' = [attached EXCEPT ![w] = None]
  /\ watching' = watching \ {attached[w]}
  /\ Retire(attached[w], reason, below)

-----------------------------------------------------------------------------
\* attach(): the previous attachment of the webContents is detached first.
Attach(w) ==
  /\ MayCall("attach")
  /\ ~disposed
  /\ w \notin destroyed /\ Len(homes) < MaxAttachments
  /\ LET below == Append(stack, Frame("attaching", w, None, "none")) IN
       IF attached[w] # None
       THEN Detached(w, "detach", below)
       ELSE stack' = below /\ UNCHANGED <<attached, watching, current, retired>>
  /\ UNCHANGED <<outside, disposed, homes, sessions>>

\* A call made meanwhile may have attached the webContents: its attachment stays.
Attaching ==
  /\ At("attaching")
  /\ IF attached[Top.on] # None
     THEN UNCHANGED <<homes, attached, watching, current>>
     ELSE /\ homes' = Append(homes, Top.on)
          /\ attached' = [attached EXCEPT ![Top.on] = Len(homes) + 1]
          /\ watching' = watching \cup {Len(homes) + 1}
          /\ current' = Append(current, None)
  /\ stack' = Rest
  /\ UNCHANGED <<outside, disposed, sessions, retired>>

\* The function attach() returned, for an attachment that is still in the map.
Detach(a) ==
  /\ MayCall("detach")
  /\ attached[homes[a]] = a
  /\ Detached(homes[a], "detach", stack)
  /\ UNCHANGED <<outside, disposed, homes, sessions>>

\* Mutant: the document of the sender is not compared with the main frame.
AdmitsAnyDocument(w, document) ==
  ~disposed /\ attached[w] # None /\ w \notin destroyed

\* #admit: the server is not disposed, the webContents attached, and the sender
\* the document of its main frame, with an origin that is allowed.
Admits(w, document) ==
  ~disposed /\ attached[w] # None /\ w \notin destroyed /\ document = frame[w]

WasRetired(w, client) == Contains(retired[w], client)

\* establish() that opens a session.  A request that is refused, or that comes
\* from the current session, changes nothing.
Establish(w, client) ==
  LET a == attached[w] IN
  /\ MayCall("establish")
  /\ Admits(w, DocumentOf(client))
  /\ Len(sessions) < MaxSessions
  /\ current[a] # None => sessions[current[a]].client # client
  /\ ~WasRetired(w, client)
  /\ Retire(a, "replaced", Append(stack, Frame("establishing", a, None, client)))
  /\ UNCHANGED <<outside, disposed, homes, attached, watching, sessions>>

\* Mutant: what happened during the retirement is not checked.
EstablishingUnchecked ==
  LET a == Top.on
      s == Len(sessions) + 1
  IN
  /\ At("establishing")
  /\ sessions' = Append(sessions, Session(a, Top.arg))
  /\ current' = [current EXCEPT ![a] = s]
  /\ stack' = Append(Rest, Frame("opening", a, s, "none"))
  /\ UNCHANGED <<outside, disposed, homes, attached, watching, retired>>

\* The previous session is retired: open the new one, unless a call made meanwhile
\* opened one or replaced the attachment.
Establishing ==
  LET a == Top.on
      s == Len(sessions) + 1
  IN
  /\ At("establishing")
  /\ IF attached[homes[a]] # a \/ current[a] # None
     THEN stack' = Rest /\ UNCHANGED <<current, sessions>>
     ELSE /\ sessions' = Append(sessions, Session(a, Top.arg))
          /\ current' = [current EXCEPT ![a] = s]
          /\ stack' = Append(Rest, Frame("opening", a, s, "none"))
  /\ UNCHANGED <<outside, disposed, homes, attached, watching, retired>>

\* session-opened is recorded.
Opened ==
  /\ At("opening")
  /\ stack' = Rest
  /\ UNCHANGED <<outside, disposed, homes, attached, watching, current, sessions,
                 retired>>

-----------------------------------------------------------------------------
\* A lifecycle event of a webContents reaches the attachment that listens.
Hear(w, reason) ==
  IF attached[w] \in watching
  THEN Retire(attached[w], reason, stack)
  ELSE UNCHANGED <<current, retired, stack>>

\* The main frame commits the next document.
Navigate(w) ==
  /\ stack = <<>>
  /\ w \notin destroyed /\ frame[w] < NumDocuments
  /\ frame' = [frame EXCEPT ![w] = @ + 1]
  /\ Hear(w, "main-frame-navigation")
  /\ UNCHANGED <<destroyed, disposed, homes, attached, watching, sessions>>

\* The renderer process of the document is gone.
Crash(w) ==
  /\ stack = <<>>
  /\ w \notin destroyed
  /\ Hear(w, "render-process-gone")
  /\ UNCHANGED <<outside, disposed, homes, attached, watching, sessions>>

\* The webContents is destroyed.
Destroy(w) ==
  /\ MayCall("destroy")
  /\ w \notin destroyed
  /\ destroyed' = destroyed \cup {w}
  /\ Hear(w, "destroyed")
  /\ UNCHANGED <<frame, disposed, homes, attached, watching, sessions>>

\* dispose(): every attachment is detached, one after the other.
Dispose ==
  /\ MayCall("dispose")
  /\ ~disposed
  /\ disposed' = TRUE
  /\ stack' = Append(stack, Frame("disposing", None, None, "none"))
  /\ UNCHANGED <<outside, homes, attached, watching, current, sessions, retired>>

Disposing ==
  LET left == {w \in Contents : attached[w] # None} IN
  /\ At("disposing")
  /\ IF left = {}
     THEN stack' = Rest /\ UNCHANGED <<attached, watching, current, retired>>
     ELSE Detached(CHOOSE w \in left : \A v \in left : w <= v, "dispose", stack)
  /\ UNCHANGED <<outside, disposed, homes, sessions>>

-----------------------------------------------------------------------------
Return ==
  Closing \/ Notified \/ Attaching \/ Establishing \/ Opened \/ Disposing

Next ==
  \/ Return
  \/ \E w \in Contents :
       \/ Attach(w) \/ Navigate(w) \/ Crash(w) \/ Destroy(w)
       \/ \E client \in Clients : Establish(w, client)
  \/ \E a \in 1 .. Len(homes) : Detach(a)
  \/ Dispose

Spec == Init /\ [][Next]_vars

-----------------------------------------------------------------------------
Idle == stack = <<>>
Attachments == 0 .. Len(homes)
HomeOf(s) == homes[sessions[s].attachment]

\* The sessions the attached webContents have.
CurrentSessions ==
  {current[attached[w]] : w \in {v \in Contents : attached[v] # None}} \ {None}

\* The sessions whose retirement is being recorded.
InClosing == {stack[i].session : i \in {j \in 1 .. Len(stack) : stack[j].at = "closing"}}

TypeOK ==
  /\ frame \in [Contents -> Documents]
  /\ destroyed \subseteq Contents
  /\ disposed \in BOOLEAN
  /\ homes \in Seq(Contents) /\ Len(current) = Len(homes)
  /\ attached \in [Contents -> Attachments]
  /\ watching \subseteq Attachments
  /\ current \in Seq(0 .. Len(sessions))
  /\ sessions \in Seq([attachment : Attachments, client : Clients,
                       reason : Reasons \cup {"none"}])
  /\ retired \in [Contents -> Seq(Clients)]
  /\ \A w \in Contents : Len(retired[w]) <= MaxRetired
  /\ \A i \in 1 .. Len(stack) : DOMAIN stack[i] = {"at", "on", "session", "arg"}

\* A session is the current one of an attached webContents until its retirement
\* begins: no interleaving of attach, detach, replacement and dispose leaves one
\* that nobody will retire, or overwrites one that a nested call opened.
NoOrphans ==
  \A s \in 1 .. Len(sessions) :
    sessions[s].reason = "none" <=> s \in CurrentSessions \cup InClosing

\* The work of a document is not handed to the next one: the current session
\* belongs to the document in the main frame.
OwnDocument ==
  \A s \in CurrentSessions : DocumentOf(sessions[s].client) = frame[HomeOf(s)]

\* A clientId opens at most one session of a webContents: late requests of a
\* retired session cannot revive it, neither those the record of retired clients
\* remembers nor those whose document is gone.
NoRevival ==
  \A s, t \in 1 .. Len(sessions) :
    s # t => HomeOf(s) # HomeOf(t) \/ sessions[s].client # sessions[t].client

\* The lifecycle listeners that are registered are those of the attachments in the
\* map: a detach in the middle of an attach, or of a retirement, leaks none.
ListenersMatch == watching = {attached[w] : w \in Contents} \ {None}

\* After dispose() nothing is attached and nothing listens.
DisposedIsSilent == disposed /\ Idle => watching = {}

\* A webContents destroyed while it is attached leaves neither a session nor a
\* record of its clients.
DestroyedIsForgotten ==
  Idle => \A w \in destroyed :
    attached[w] # None => current[attached[w]] = None /\ retired[w] = <<>>

\* The map of attachments, their sessions and the lifecycle listeners change together,
\* however attach, establish, detach and dispose are nested.
AttachmentsConsistent == TypeOK /\ NoOrphans /\ ListenersMatch

\* A clientId that was retired opens no second session, and a destroyed webContents
\* leaves none behind.
RetiredStaysRetired == NoRevival /\ DestroyedIsForgotten
=============================================================================
