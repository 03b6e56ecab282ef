--------------------------- MODULE ElectronBridge ----------------------------
(***************************************************************************)
(* Main and its documents over Electron IPC: main/electron-adapter.ts      *)
(* binds a server to the channels of a namespace, attaches webContents to  *)
(* it and hands requests on; main/create-bridge-server.ts admits each      *)
(* request to a document session or refuses it; preload/expose-bridge.ts   *)
(* sends the requests of a document.  A binding may be disposed while      *)
(* windows live on, and a new one, of another server, may take its         *)
(* namespace over: the requests of a document that is still there have to  *)
(* be answered whatever happens in between (docs/adr/0026).                *)
(*                                                                         *)
(* Inside a session the modules RpcRequests and Subscriptions say what     *)
(* happens, and DocumentSessions how a session is replaced by another one  *)
(* of the same attachment.  Here a session is opened by the first request  *)
(* of a document, and what is going on in it ends when it is retired.      *)
(*                                                                         *)
(* Whoever hears of a retirement (abort listeners, teardowns, the          *)
(* diagnostics sink) runs inside attach, detach and dispose and may call   *)
(* them again.  `stack' holds the calls in progress, the innermost last.   *)
(***************************************************************************)
EXTENDS Integers, Sequences, FiniteSets, SequencesExt

CONSTANTS
  Namespaces,      \* the namespaces bridges are bound to
  Contents,        \* the webContents
  NumDocuments,    \* how many documents each of them shows, one after another
  NumServers,      \* how many servers there are, numbered
  InnerCalls,      \* the calls made by those who hear of a retirement
  MaxBindings,     \* bound: how many times bindElectronBridge() succeeds
  MaxAttachments,  \* bound: how many times server.attach() succeeds
  MaxRequests,     \* bound: how many requests the documents send
  MaxDepth         \* bound: no inner call is made on a stack this deep

ASSUME CallsAssumption ==
  InnerCalls \subseteq {"bind", "attach", "detach", "dispose", "server.dispose"}
ASSUME BoundAssumption ==
  /\ NumDocuments \in Nat \ {0} /\ NumServers \in Nat \ {0}
  /\ MaxBindings \in Nat /\ MaxAttachments \in Nat
  /\ MaxRequests \in Nat /\ MaxDepth \in Nat

None == 0
Nothing == -1    \* what a server.attach() that was overtaken returns: a detach that does nothing
NoSession == <<>>
Servers == 1 .. NumServers
Channels == {"handshake", "rpc", "cancel", "control"}
Invoked == {"handshake", "rpc"}
Documents == Contents \X (1 .. NumDocuments)
Kinds == {"handshake", "rpc", "subscribe"}
ChannelOf(kind) == IF kind = "subscribe" THEN "control" ELSE kind

VARIABLES
  shown,       \* webContents -> the document in its main frame, or None when destroyed
  receivers,   \* namespace -> channel -> the bindings ipcMain calls
  takeovers,   \* disposedBindings: namespace -> the binding to take over, or None
  bindings,    \* binding -> its namespace, server, disposed flag and attached map; history:
               \* `overwritten', the attachments whose detach function the map lost to an
               \* attach() that was overtaken
  ended,       \* the servers that are disposed
  attachments, \* attachment -> its binding, webContents and the document with a session
  entries,     \* server -> webContents -> its attachment there, or None
  retired,     \* server -> the documents whose session was retired there
  requests,    \* the requests, in the order they were sent
  stack        \* the calls in progress

mainVars == <<receivers, takeovers, bindings>>
serverVars == <<ended, attachments, entries, retired, requests>>
vars == <<shown, mainVars, serverVars, stack>>

Init ==
  /\ shown = [w \in Contents |-> 1]
  /\ receivers = [n \in Namespaces |-> [c \in Channels |-> {}]]
  /\ takeovers = [n \in Namespaces |-> None]
  /\ bindings = <<>>
  /\ ended = {}
  /\ attachments = <<>>
  /\ entries = [s \in Servers |-> [w \in Contents |-> None]]
  /\ retired = [s \in Servers |-> {}]
  /\ requests = <<>>
  /\ stack = <<>>

\* A call in progress, of a binding or, for "closing", of a server, and a webContents.
Frame(at, of, w) == [at |-> at, of |-> of, w |-> w]
Top == stack[Len(stack)]
Rest == SubSeq(stack, 1, Len(stack) - 1)
At(point) == stack # <<>> /\ Top.at = point

\* A lifecycle listener that is due is called before anything else happens.
ServerOf(a) == bindings[attachments[a].binding].server
IsEntry(a) ==
  a \in DOMAIN attachments /\ entries[ServerOf(a)][attachments[a].contents] = a
HasSession(a) == attachments[a].session # NoSession
Live(document) == shown[document[1]] = document[2]
Unheard == \E a \in DOMAIN attachments :
             IsEntry(a) /\ HasSession(a) /\ ~Live(attachments[a].session)
Quiet == stack = <<>> /\ ~Unheard

MayCall(call) ==
  \/ Quiet
  \/ At("retiring") /\ call \in InnerCalls /\ Len(stack) < MaxDepth

-----------------------------------------------------------------------------
(* Binding *)

\* The receivers once the listeners of a binding are off.
Without(table, namespace, b) ==
  [table EXCEPT ![namespace] = [c \in Channels |-> @[c] \ {b}]]

\* Mutant: only what ipcMain allows once is removed.
ReleasedHandlers(namespace) ==
  LET b == takeovers[namespace] IN
  [receivers EXCEPT ![namespace] =
     [c \in Channels |-> IF c \in Invoked THEN @[c] \ {b} ELSE @[c]]]

\* The release function of the disposed binding of a namespace, if there is one,
\* removes both its handlers and both its listeners.
Released(namespace) == Without(receivers, namespace, takeovers[namespace])

\* ipcMain.handle throws when a channel has a handler already.
Free(namespace) == \A c \in Invoked : Released(namespace)[namespace][c] = {}

\* bindElectronBridge().  A call that throws changes nothing: what is released before
\* leaves the channels free.
Bind(namespace, s) ==
  LET b == Len(bindings) + 1 IN
  /\ MayCall("bind")
  /\ Len(bindings) < MaxBindings
  /\ Free(namespace)
  /\ receivers' =
       [Released(namespace) EXCEPT ![namespace] = [c \in Channels |-> @[c] \cup {b}]]
  /\ takeovers' = [takeovers EXCEPT ![namespace] = None]
  /\ bindings' = Append(bindings, [namespace |-> namespace, server |-> s,
                                   disposed |-> FALSE,
                                   attached |-> [w \in Contents |-> None],
                                   overwritten |-> {}])
  /\ UNCHANGED <<shown, serverVars, stack>>

-----------------------------------------------------------------------------
(* Sessions *)

\* A call is answered when it ends; a stream was, when it was opened.
AnswersOnEnd(r) == IF r.at = "working" THEN 1 ELSE 0
Ended(r) == [r EXCEPT !.at = "done", !.answers = @ + AnswersOnEnd(r)]

\* What a session was doing ends: calls are answered CANCELLED, streams are told.
Cancelled(s, document) ==
  [i \in DOMAIN requests |->
     IF /\ requests[i].at \in {"working", "open"}
        /\ requests[i].from = document /\ bindings[requests[i].by].server = s
     THEN Ended(requests[i]) ELSE requests[i]]

\* #retire: the session of an attachment, if it has one, ends.
Retire(a, below) ==
  LET s == ServerOf(a)
      document == attachments[a].session
  IN
  IF document = NoSession
  THEN /\ stack' = below
       /\ UNCHANGED <<attachments, retired, requests>>
  ELSE /\ attachments' = [attachments EXCEPT ![a].session = NoSession]
       /\ retired' = [retired EXCEPT ![s] = @ \cup {document}]
       /\ requests' = Cancelled(s, document)
       /\ stack' = Append(below, Frame("retiring", s, attachments[a].contents))

\* Those who heard of it are done.
Retired ==
  /\ At("retiring")
  /\ stack' = Rest
  /\ UNCHANGED <<shown, mainVars, serverVars>>

\* #detach of the attachment a server has for a webContents.
Detached(s, w, below) ==
  /\ entries' = [entries EXCEPT ![s][w] = None]
  /\ Retire(entries[s][w], below)

\* The detach function server.attach() returned for an attachment.
Leave(a, below) ==
  IF IsEntry(a)
  THEN Detached(ServerOf(a), attachments[a].contents, below)
  ELSE stack' = below /\ UNCHANGED <<entries, attachments, retired, requests>>

-----------------------------------------------------------------------------
(* attach() and dispose() of a binding *)

\* attach(): the attachment the binding made before is detached.
Attach(b, w) ==
  /\ MayCall("attach")
  /\ ~bindings[b].disposed
  /\ shown[w] # None /\ Len(attachments) < MaxAttachments
  /\ Leave(bindings[b].attached[w], Append(stack, Frame("attaching", b, w)))
  /\ UNCHANGED <<shown, mainVars, ended>>

\* server.attach(): throws when the server is disposed, which the call that detached
\* may have done; otherwise the entry another binding, or a call made meanwhile, has
\* put there is detached.
ServerAttach ==
  LET s == bindings[Top.of].server IN
  /\ At("attaching")
  /\ IF s \in ended
     THEN stack' = Rest /\ UNCHANGED <<entries, attachments, retired, requests>>
     ELSE Leave(entries[s][Top.w], Append(Rest, [Top EXCEPT !.at = "entering"]))
  /\ UNCHANGED <<shown, mainVars, ended>>

\* The new attachment, unless there is an entry again: then a detach function that does
\* nothing takes its place in the map, also over that of the entry.
Enter ==
  LET b == Top.of
      s == bindings[b].server
      a == Len(attachments) + 1
  IN
  /\ At("entering")
  /\ IF entries[s][Top.w] # None
     THEN /\ bindings' = [bindings EXCEPT
               ![b].attached[Top.w] = Nothing,
               ![b].overwritten = @ \cup {bindings[b].attached[Top.w]}]
          /\ UNCHANGED <<attachments, entries>>
     ELSE /\ attachments' = Append(attachments, [binding |-> b, contents |-> Top.w,
                                                 session |-> NoSession])
          /\ entries' = [entries EXCEPT ![s][Top.w] = a]
          /\ bindings' = [bindings EXCEPT ![b].attached[Top.w] = a]
  /\ stack' = Rest
  /\ UNCHANGED <<shown, receivers, takeovers, ended, retired, requests>>

\* Mutant: the map forgets the webContents, whatever is attached now.
DetachAny(a) ==
  LET b == attachments[a].binding IN
  /\ MayCall("detach")
  /\ bindings' = [bindings EXCEPT ![b].attached[attachments[a].contents] = None]
  /\ Leave(a, stack)
  /\ UNCHANGED <<shown, receivers, takeovers, ended>>

\* The function attach() returned, called in time or late.
Detach(a) ==
  LET b == attachments[a].binding
      w == attachments[a].contents
  IN
  /\ MayCall("detach")
  /\ bindings' = IF bindings[b].attached[w] = a
                 THEN [bindings EXCEPT ![b].attached[w] = None] ELSE bindings
  /\ Leave(a, stack)
  /\ UNCHANGED <<shown, receivers, takeovers, ended>>

\* The function an attach() returned that was overtaken: the map still holds the empty
\* detach of this call, and forgets the webContents although it is attached.
DetachEmpty(b, w) ==
  /\ MayCall("detach")
  /\ bindings[b].attached[w] = Nothing
  /\ bindings' = [bindings EXCEPT ![b].attached[w] = None]
  /\ UNCHANGED <<shown, receivers, takeovers, serverVars, stack>>

\* dispose(): the flag first.
Dispose(b) ==
  /\ MayCall("dispose")
  /\ ~bindings[b].disposed
  /\ bindings' = [bindings EXCEPT ![b].disposed = TRUE]
  /\ stack' = Append(stack, Frame("disposing", b, None))
  /\ UNCHANGED <<shown, receivers, takeovers, serverVars>>

\* Its attachments are detached, one after the other; then the server is disposed.
Disposing ==
  LET b == Top.of
      s == bindings[b].server
      left == {w \in Contents : IsEntry(bindings[b].attached[w])}
  IN
  /\ At("disposing")
  /\ IF left # {}
     THEN \E w \in left :
            Leave(bindings[b].attached[w], stack) /\ UNCHANGED <<bindings, ended>>
     ELSE /\ bindings' = [bindings EXCEPT ![b].attached = [w \in Contents |-> None]]
          /\ ended' = ended \cup {s}
          /\ stack' = Append(Rest, Frame("releasing", b, None))
                        \o (IF s \in ended THEN <<>> ELSE <<Frame("closing", s, None)>>)
          /\ UNCHANGED <<entries, attachments, retired, requests>>
  /\ UNCHANGED <<shown, receivers, takeovers>>

\* Mutant: the listeners go at once, as they did before ADR 0026.
ReleasingListeners ==
  LET b == Top.of IN
  /\ At("releasing")
  /\ receivers' = Without(receivers, bindings[b].namespace, b)
  /\ stack' = Rest
  /\ UNCHANGED <<shown, takeovers, bindings, serverVars>>

\* Handlers and listeners stay; the next binding of the namespace may release them.
Releasing ==
  LET b == Top.of IN
  /\ At("releasing")
  /\ takeovers' = [takeovers EXCEPT ![bindings[b].namespace] = b]
  /\ stack' = Rest
  /\ UNCHANGED <<shown, receivers, bindings, serverVars>>

\* dispose() of a server by its owner.
ServerDispose(s) ==
  /\ MayCall("server.dispose")
  /\ s \notin ended
  /\ ended' = ended \cup {s}
  /\ stack' = Append(stack, Frame("closing", s, None))
  /\ UNCHANGED <<shown, mainVars, attachments, entries, retired, requests>>

\* DocumentSessions.dispose(): every entry is detached.
Closing ==
  LET left == {w \in Contents : entries[Top.of][w] # None} IN
  /\ At("closing")
  /\ IF left # {}
     THEN \E w \in left : Detached(Top.of, w, stack)
     ELSE stack' = Rest /\ UNCHANGED <<entries, attachments, retired, requests>>
  /\ UNCHANGED <<shown, mainVars, ended>>

-----------------------------------------------------------------------------
(* Documents *)

\* A lifecycle listener retires the session of the document that is gone.
Hear(a) ==
  /\ stack = <<>>
  /\ IsEntry(a) /\ HasSession(a) /\ ~Live(attachments[a].session)
  /\ Retire(a, stack)
  /\ UNCHANGED <<shown, mainVars, ended, entries>>

\* The main frame commits the next document, or its renderer is gone and reloaded.
Navigate(w) ==
  /\ Quiet
  /\ shown[w] \notin {None, NumDocuments}
  /\ shown' = [shown EXCEPT ![w] = @ + 1]
  /\ UNCHANGED <<mainVars, serverVars, stack>>

Destroy(w) ==
  /\ Quiet
  /\ shown[w] # None
  /\ shown' = [shown EXCEPT ![w] = None]
  /\ UNCHANGED <<mainVars, serverVars, stack>>

\* The document has an API: one of its handshakes was answered with a manifest.
HasApi(document, namespace) ==
  \E i \in DOMAIN requests :
    /\ requests[i].kind = "handshake" /\ requests[i].by # None
    /\ requests[i].from = document /\ requests[i].namespace = namespace

\* connect(), and invoke() and control() of a document with an API, send a request on
\* the channel of the namespace, with the clientId of the document.
Send(w, namespace, kind) ==
  /\ Quiet
  /\ kind # "handshake" => HasApi(<<w, shown[w]>>, namespace)
  /\ shown[w] # None /\ Len(requests) < MaxRequests
  /\ requests' = Append(requests, [from |-> <<w, shown[w]>>, namespace |-> namespace,
                                   kind |-> kind, at |-> "sent", by |-> None,
                                   answers |-> 0])
  /\ UNCHANGED <<shown, mainVars, ended, attachments, entries, retired, stack>>

\* establish() finds or opens the session of a document: the server is not disposed,
\* the webContents attached, its main frame the sender, and the client not retired.
Admits(s, document) ==
  /\ s \notin ended /\ entries[s][document[1]] # None /\ Live(document)
  /\ document \notin retired[s]

\* The state of a request the server of a binding has taken.
Taken(kind) ==
  CASE kind = "rpc" -> "working" [] kind = "subscribe" -> "open" [] OTHER -> "done"

\* A handshake and a subscribe are answered at once, with the manifest, `subscribed'
\* or a refusal, and so is a call that is refused.
AnswersAtOnce(b, r) == r.kind # "rpc" \/ ~Admits(bindings[b].server, r.from)

\* ipcMain hands a request to every receiver of its channel.  Without one an invoke is
\* rejected, which is an answer, and a message is lost.
Deliver(i) ==
  LET r == requests[i]
      called == receivers[r.namespace][ChannelOf(r.kind)]
      taking == {b \in called : Admits(bindings[b].server, r.from)}
  IN
  /\ Quiet
  /\ r.at = "sent"
  /\ \A j \in 1 .. i - 1 : requests[j].from = r.from => requests[j].at # "sent"
  /\ requests' = [requests EXCEPT
       ![i].at = IF taking = {} THEN "done" ELSE Taken(r.kind),
       ![i].by = IF taking = {} THEN None ELSE CHOOSE b \in taking : TRUE,
       ![i].answers = IF called = {} /\ r.kind \in Invoked THEN 1
                      ELSE Cardinality({b \in called : AnswersAtOnce(b, r)})]
  /\ attachments' = [a \in DOMAIN attachments |->
       IF \E b \in taking : entries[bindings[b].server][r.from[1]] = a
       THEN [attachments[a] EXCEPT !.session = r.from] ELSE attachments[a]]
  /\ UNCHANGED <<shown, mainVars, ended, entries, retired, stack>>

\* A handler returns, or a source ends.
Finish(i) ==
  /\ Quiet
  /\ requests[i].at \in {"working", "open"}
  /\ requests' = [requests EXCEPT ![i] = Ended(@)]
  /\ UNCHANGED <<shown, mainVars, ended, attachments, entries, retired, stack>>

-----------------------------------------------------------------------------
Return ==
  Retired \/ ServerAttach \/ Enter \/ Disposing \/ Releasing \/ Closing

Next ==
  \/ Return
  \/ \E n \in Namespaces, s \in Servers : Bind(n, s)
  \/ \E b \in DOMAIN bindings :
       Dispose(b) \/ \E w \in Contents : Attach(b, w) \/ DetachEmpty(b, w)
  \/ \E a \in DOMAIN attachments : Detach(a) \/ Hear(a)
  \/ \E s \in Servers : ServerDispose(s)
  \/ \E w \in Contents : Navigate(w) \/ Destroy(w)
  \/ \E w \in Contents, n \in Namespaces, kind \in Kinds : Send(w, n, kind)
  \/ \E i \in DOMAIN requests : Deliver(i) \/ Finish(i)

Spec == Init /\ [][Next]_vars

-----------------------------------------------------------------------------
TypeOK ==
  /\ shown \in [Contents -> 0 .. NumDocuments]
  /\ receivers \in [Namespaces -> [Channels -> SUBSET (DOMAIN bindings)]]
  /\ takeovers \in [Namespaces -> {None} \cup DOMAIN bindings]
  /\ \A b \in DOMAIN bindings :
       /\ bindings[b].namespace \in Namespaces /\ bindings[b].server \in Servers
       /\ bindings[b].attached \in [Contents -> Nothing .. Len(attachments)]
       /\ bindings[b].overwritten \subseteq Int
  /\ ended \subseteq Servers
  /\ \A a \in DOMAIN attachments :
       attachments[a].session = NoSession \/ attachments[a].session[1] = attachments[a].contents
  /\ entries \in [Servers -> [Contents -> 0 .. Len(attachments)]]
  /\ retired \in [Servers -> SUBSET Documents]
  /\ \A i \in DOMAIN requests :
       requests[i].at \in {"sent", "working", "open", "done"} /\ requests[i].answers \in Nat

Idle == stack = <<>>
BoundTo(namespace) == {b \in DOMAIN bindings : bindings[b].namespace = namespace}
Newest(set) == {b \in set : \A other \in set : other <= b}

\* Each channel of a namespace that was ever bound has one receiver, the newest
\* binding, in use or disposed; between calls a disposed one can be taken over, so the
\* next bindElectronBridge() does not throw, and one in use cannot.
OneReceiver ==
  \A n \in Namespaces :
    /\ \A c \in Channels : receivers[n][c] = Newest(BoundTo(n))
    /\ Idle => {takeovers[n]} \ {None} = {b \in Newest(BoundTo(n)) : bindings[b].disposed}

\* Every request of a Renderer, in whatever state binding, server, attachment and
\* document are when it arrives, is answered exactly once, or is a call still at work:
\* dispose() leaves no document waiting and no two servers answer (docs/adr/0026).
AnsweredOnce ==
  \A i \in DOMAIN requests :
    requests[i].answers = IF requests[i].at \in {"sent", "working"} THEN 0 ELSE 1

\* Work can still be ended: what is in progress belongs to the session of an attachment of
\* its server, and every session, whose document may start more at any time, to the
\* attachment its server has for the webContents, of a binding that is not disposed, and
\* the map of that binding holds its detach function, unless an attach() that the
\* attachment overtook has written an empty one over it, which the function that call
\* returned may have deleted since.  So neither detaching, attaching again, disposing nor
\* leaving the document lets work go on unseen.
WorkIsHeld ==
  Idle =>
    /\ \A i \in DOMAIN requests :
         requests[i].at \in {"working", "open"} =>
           \E a \in DOMAIN attachments :
             attachments[a].session = requests[i].from
             /\ ServerOf(a) = bindings[requests[i].by].server
    /\ \A a \in DOMAIN attachments :
         HasSession(a) =>
           /\ IsEntry(a)
           /\ \/ bindings[attachments[a].binding].attached[attachments[a].contents] = a
              \/ a \in bindings[attachments[a].binding].overwritten
           /\ ~bindings[attachments[a].binding].disposed

\* The channels of a namespace have one owner, which a disposed one gives up.
ChannelsBound == TypeOK /\ OneReceiver
=============================================================================
