---------------------------- MODULE ServerDispatch ----------------------------
(***************************************************************************)
(* The language server's goroutines (lsp/server.go): one reads the         *)
(* client's messages, one starts their handlers in order, one writes, and  *)
(* every request with work that can wait has one of its own.  They meet in *)
(* two queues, the table of requests that can be cancelled, and the table  *)
(* of requests the server itself is waiting for.                           *)
(***************************************************************************)
EXTENDS Naturals, SequencesExt, FiniteSetsExt

CONSTANTS Requests,         \* the client's requests; identifiers are not used again
          Initialize,       \* answered by the reader itself
          Shutdown,
          Sync,             \* requests whose handler does everything at once
          Calls,            \* the server's requests to this client
          None

\* Requests to the client: two by handleInitialized, the first if the client has configuration, and one
\* by a background task.
ASSUME SomeCalls == "register" \in Calls /\ Calls \subseteq {"config", "register", "watch"}
ASSUME Special == Initialize \in Requests /\ Shutdown \in Sync /\ Sync \subseteq Requests \ {Initialize}

VARIABLES sent, asked,    \* the client and what it has sent
          reader, greeted,                    \* readLoop; initializeParams is set
          requestQueue, outgoingQueue,
          dispatcher, current, exiting,       \* dispatchLoop, its message and whether its context is done
          pending, cancelled,                 \* pendingClientRequests and the contexts cancelled through it
          work,                               \* the goroutines of requests
          session,
          call, reply, pendingServer,         \* sendClientRequest and pendingServerRequests
          writer, letter, written, stopping   \* writeLoop, its message, answers written; the group's context

client == <<sent, asked>>
reading == <<reader, greeted>>
dispatching == <<dispatcher, current, exiting>>
table == <<pending, cancelled>>
calls == <<call, reply, pendingServer>>
writing == <<writer, letter, written>>
vars == <<client, reading, requestQueue, outgoingQueue, dispatching, table, work, session, calls, writing,
          stopping>>

Message(kind, id) == [kind |-> kind, id |-> id]
Outcomes == {"result", "error", "cancelled"}
Answers == {Message(k, r) : k \in Outcomes, r \in Requests}
FromClient == {Message("request", r) : r \in Requests} \cup {Message("cancel", r) : r \in Requests}
              \cup {Message("reply", c) : c \in Calls} \cup {Message("refusal", c) : c \in Calls}
              \cup {Message("initialized", None), Message("exit", None)}
ToClient == Answers \cup {Message("call", c) : c \in Calls}

ASSUME NoMessage == None \notin FromClient \cup ToClient

\* A dynamicQueue: its state waits in one of two channels.  Whoever takes it does nothing but change it
\* and give it back, which is one step.
Queues(M) == [items : Seq(M), at : {"idle", "ready"}]
NewQueue == [items |-> <<>>, at |-> "idle"]

TypeOK ==
    /\ sent \subseteq FromClient /\ asked \subseteq Calls
    /\ reader \in {"reading", "stopped"} /\ greeted \in BOOLEAN
    /\ requestQueue \in Queues(FromClient) /\ outgoingQueue \in Queues(ToClient)
    /\ dispatcher \in {"waiting", "handling", "calling", "closing", "answering", "stopped"}
    /\ current \in FromClient \cup {None}
    /\ pending \cup cancelled \subseteq Requests
    /\ work \in [Requests -> {"none", "working", "answering", "done"}]
    /\ session \in {"none", "open", "closing"}
    /\ call \in [Calls -> {"none", "waiting", "ok", "failed"}]
    /\ reply \in [Calls -> {"none", "reply", "refusal"}] /\ pendingServer \subseteq Calls
    /\ writer \in {"waiting", "writing", "stopped"} /\ letter \in ToClient \cup {None}
    /\ written \in [Requests -> Nat]

Init ==
    /\ sent = {} /\ asked = {}
    /\ reader = "reading" /\ greeted = FALSE
    /\ requestQueue = NewQueue /\ outgoingQueue = NewQueue
    /\ dispatcher = "waiting" /\ current = None /\ exiting = FALSE
    /\ pending = {} /\ cancelled = {}
    /\ work = [r \in Requests |-> "none"] /\ session = "none"
    /\ call = [c \in Calls |-> "none"] /\ reply = [c \in Calls |-> "none"] /\ pendingServer = {}
    /\ writer = "waiting" /\ letter = None /\ written = [r \in Requests |-> 0] /\ stopping = FALSE
-----------------------------------------------------------------------------
(* The client keeps to the protocol: nothing but its greeting until it has said that it is     *)
(* initialized, except a request too early, and nothing new after shutdown.  Its messages may  *)
(* take their time: a cancelation may cross the answer, and a reply come too late.             *)

Said(kind, id) == Message(kind, id) \in sent

MaySay(m) ==
    \/ m = Message("request", Initialize) /\ m \notin sent
    \/ /\ m.kind = "request" /\ m.id # Initialize /\ m \notin sent
       /\ Said("initialized", None) \/ (m.id # Shutdown /\ ~Said("request", Initialize))
       /\ ~Said("request", Shutdown) /\ ~Said("exit", None)
    \/ m.kind = "initialized" /\ m \notin sent /\ written[Initialize] > 0
    \/ m.kind = "exit" /\ m \notin sent /\ Said("initialized", None)
    \/ m.kind = "cancel" /\ Said("request", m.id)
    \/ m.kind \in {"reply", "refusal"} /\ m.id \in asked /\ ~Said("reply", m.id) /\ ~Said("refusal", m.id)
-----------------------------------------------------------------------------
(* The queues (dynamic_queue.go).                                                              *)

\* Put gives the state back as ready.
WithItem(q, m) == [items |-> Append(q.items, m), at |-> "ready"]

\* BUG: the state is given back as ready whatever is left.
BadWithoutItem(q) == [items |-> Tail(q.items), at |-> "ready"]

\* Get takes it when it is ready.
WithoutItem(q) == [items |-> Tail(q.items), at |-> IF Len(q.items) = 1 THEN "idle" ELSE "ready"]

\* send.  When the server is stopping the message is lost.
Sends(m) == outgoingQueue' = IF stopping THEN outgoingQueue ELSE WithItem(outgoingQueue, m)
-----------------------------------------------------------------------------
(* readLoop                                                                                    *)

\* A loop that returns an error cancels the context of the group.
Stops == stopping' = TRUE

\* The next message from the client.
Reads(m) ==
    /\ reader = "reading" /\ ~stopping
    /\ MaySay(m)
    /\ sent' = IF m.kind = "cancel" THEN sent ELSE sent \cup {m}
    /\ UNCHANGED <<asked, reader, dispatching, work, session, call, writing, stopping>>

StopReading ==
    /\ reader = "reading" /\ stopping
    /\ reader' = "stopped"
    /\ UNCHANGED <<client, greeted, requestQueue, outgoingQueue, dispatching, table, work, session, calls, writing, stopping>>

\* The client closes its end.
EndOfInput ==
    /\ reader = "reading" /\ ~stopping
    /\ reader' = "stopped" /\ Stops
    /\ UNCHANGED <<client, greeted, requestQueue, outgoingQueue, dispatching, table, work, session, calls, writing>>

\* Until initialize has been received the reader answers requests itself.
ReadEarly(r) ==
    /\ ~greeted /\ Reads(Message("request", r))
    /\ greeted' = (r = Initialize)
    /\ Sends(Message(IF r = Initialize THEN "result" ELSE "error", r))
    /\ UNCHANGED <<table, reply, pendingServer, requestQueue>>

ReadReply(c) ==
    /\ \E k \in {"reply", "refusal"} :
        /\ Reads(Message(k, c))
        /\ reply' = IF c \in pendingServer THEN [reply EXCEPT ![c] = k] ELSE reply
    /\ pendingServer' = pendingServer \ {c}
    /\ UNCHANGED <<greeted, table, requestQueue, outgoingQueue>>

\* BUG: the reader answers a request that it cancels.
BadCancelRequest(r) ==
    /\ IF r \in pending THEN cancelled' = cancelled \cup {r} /\ Sends(Message("cancelled", r))
       ELSE UNCHANGED <<cancelled, outgoingQueue>>
    /\ pending' = pending \ {r}

\* cancelRequest finds only requests whose handler has been started.
CancelRequest(r) ==
    /\ cancelled' = IF r \in pending THEN cancelled \cup {r} ELSE cancelled
    /\ pending' = pending \ {r}
    /\ UNCHANGED outgoingQueue

ReadCancel(r) ==
    /\ Reads(Message("cancel", r))
    /\ CancelRequest(r)
    /\ UNCHANGED <<greeted, reply, pendingServer, requestQueue>>

ReadMessage ==
    /\ \E m \in FromClient :
        /\ m.kind \in {"initialized", "exit"} \/ (m.kind = "request" /\ greeted)
        /\ Reads(m)
        /\ requestQueue' = WithItem(requestQueue, m)
    /\ UNCHANGED <<greeted, table, reply, pendingServer, outgoingQueue>>
-----------------------------------------------------------------------------
(* dispatchLoop                                                                                *)

\* BUG: lspExit cancels a context that the loop does not use.
BadDispatchDone == stopping

\* The context of the loop.
DispatchDone == exiting \/ stopping

\* The context of a request's handler.
Canceled(r) == r \in cancelled \/ DispatchDone

StopDispatching ==
    /\ dispatcher = "waiting" /\ DispatchDone
    /\ dispatcher' = "stopped" /\ Stops
    /\ UNCHANGED <<client, reading, requestQueue, outgoingQueue, current, exiting, table, work, session, calls,
                   writing>>

\* The request can be cancelled from here on.
Dispatch ==
    /\ dispatcher = "waiting" /\ ~DispatchDone /\ requestQueue.at = "ready"
    /\ current' = Head(requestQueue.items)
    /\ requestQueue' = WithoutItem(requestQueue)
    /\ pending' = IF current'.kind = "request" THEN pending \cup {current'.id} ELSE pending
    /\ dispatcher' = "handling"
    /\ UNCHANGED <<client, reading, outgoingQueue, exiting, cancelled, work, session, calls, writing, stopping>>

\* handleExit.
Exit ==
    /\ dispatcher = "handling" /\ current.kind = "exit"
    /\ exiting' = TRUE /\ dispatcher' = "waiting" /\ current' = None
    /\ UNCHANGED <<client, reading, requestQueue, outgoingQueue, table, work, session, calls, writing, stopping>>

\* handleInitialized: the session is made, then two answers are waited for, unless one is refused.
Initialized ==
    /\ current # None /\ current.kind = "initialized"
    /\ \/ /\ dispatcher = "handling"
          /\ session' = "open" /\ dispatcher' = "calling" /\ UNCHANGED current
       \/ /\ dispatcher = "calling"
          /\ ("config" \in Calls /\ call["config"] = "failed") \/ call["register"] \in {"ok", "failed"}
          /\ dispatcher' = "waiting" /\ current' = None /\ UNCHANGED session
    /\ UNCHANGED <<client, reading, requestQueue, outgoingQueue, exiting, table, work, calls, writing, stopping>>

\* What a handler comes to: its context is looked at before the result is sent.
Comes(r) == IF Canceled(r) THEN {"error", "cancelled"} ELSE {"result", "error"}

\* The part of a handler that runs before the next message is taken.
Handle(r) ==
    /\ dispatcher = "handling" /\ current = Message("request", r)
    /\ \/ /\ r \notin Sync
          /\ work' = [work EXCEPT ![r] = "working"]
          /\ dispatcher' = "waiting" /\ current' = None
          /\ UNCHANGED <<outgoingQueue, session>>
       \/ /\ r # Shutdown
          /\ \E k \in Comes(r) \ (IF r \in Sync THEN {} ELSE {"result"}) : Sends(Message(k, r))
          /\ dispatcher' = "answering"
          /\ UNCHANGED <<current, work, session>>
       \/ /\ r = Shutdown
          /\ session' = "closing" /\ dispatcher' = "closing"
          /\ UNCHANGED <<current, work, outgoingQueue>>
    /\ UNCHANGED <<client, reading, requestQueue, exiting, table, calls, writing, stopping>>

\* handleShutdown waits for the background tasks, whose context it has cancelled.
Closed ==
    /\ dispatcher = "closing" /\ ("watch" \in Calls => call["watch"] # "waiting")
    /\ \E k \in Comes(Shutdown) : Sends(Message(k, Shutdown))
    /\ dispatcher' = "answering"
    /\ UNCHANGED <<client, reading, requestQueue, current, exiting, table, work, session, calls,
                   writing, stopping>>

\* removeRequest.
Removed(r) == pending \ {r}

Answered ==
    /\ dispatcher = "answering"
    /\ pending' = Removed(current.id)
    /\ dispatcher' = "waiting" /\ current' = None
    /\ UNCHANGED <<client, reading, requestQueue, outgoingQueue, exiting, cancelled, work, session, calls,
                   writing, stopping>>
-----------------------------------------------------------------------------
(* The asynchronous part of a handler.                                                         *)

\* recover answers for a handler that panics; nothing else is sent then.
PanicAnswer(r) == Sends(Message("error", r))

Work(r) ==
    /\ work[r] = "working"
    /\ \/ \E k \in Comes(r) : Sends(Message(k, r))
       \/ PanicAnswer(r)
    /\ work' = [work EXCEPT ![r] = "answering"]
    /\ UNCHANGED <<client, reading, requestQueue, dispatching, table, session, calls, writing, stopping>>

EndWork(r) ==
    /\ work[r] = "answering"
    /\ work' = [work EXCEPT ![r] = "done"]
    /\ pending' = Removed(r)
    /\ UNCHANGED <<client, reading, requestQueue, outgoingQueue, dispatching, cancelled, session, calls,
                   writing, stopping>>
-----------------------------------------------------------------------------
(* sendClientRequest                                                                           *)

\* A background task runs only while the session is open.
MayCall(c) ==
    CASE c = "config" -> dispatcher = "calling"
      [] c = "register" -> dispatcher = "calling" /\ ("config" \in Calls => call["config"] = "ok")
      [] c = "watch" -> session = "open"

BeginCall(c) ==
    /\ call[c] = "none" /\ MayCall(c)
    /\ call' = [call EXCEPT ![c] = "waiting"]
    /\ pendingServer' = pendingServer \cup {c}
    /\ Sends(Message("call", c))
    /\ UNCHANGED <<client, reading, requestQueue, dispatching, table, work, session, reply, writing, stopping>>

\* BUG: closing the session cancels nothing.
BadCallCanceled(c) == stopping

\* The context of a call; session.Close cancels that of background tasks.
CallCanceled(c) == stopping \/ (c = "watch" /\ session = "closing")

EndCall(c) ==
    /\ call[c] = "waiting"
    /\ \/ reply[c] = "reply" /\ call' = [call EXCEPT ![c] = "ok"]
       \/ reply[c] = "refusal" /\ call' = [call EXCEPT ![c] = "failed"]
       \/ CallCanceled(c) /\ call' = [call EXCEPT ![c] = "failed"]
    /\ pendingServer' = pendingServer \ {c}
    /\ UNCHANGED <<client, reading, requestQueue, outgoingQueue, dispatching, table, work, session, reply,
                   writing, stopping>>
-----------------------------------------------------------------------------
(* writeLoop                                                                                   *)

TakeMessage ==
    /\ writer = "waiting" /\ ~stopping /\ outgoingQueue.at = "ready"
    /\ letter' = Head(outgoingQueue.items)
    /\ outgoingQueue' = WithoutItem(outgoingQueue)
    /\ writer' = "writing"
    /\ UNCHANGED <<client, reading, requestQueue, dispatching, table, work, session, calls, written, stopping>>

Write ==
    /\ writer = "writing"
    /\ written' = IF letter \in Answers THEN [written EXCEPT ![letter.id] = @ + 1] ELSE written
    /\ asked' = IF letter \in Answers THEN asked ELSE asked \cup {letter.id}
    /\ writer' = "waiting" /\ letter' = None
    /\ UNCHANGED <<sent, reading, requestQueue, outgoingQueue, dispatching, table, work, session,
                   calls, stopping>>

\* A result that cannot be marshalled is replaced by an error.
Replace ==
    /\ writer = "writing" /\ letter.kind = "result"
    /\ Sends(Message("error", letter.id))
    /\ writer' = "waiting" /\ letter' = None
    /\ UNCHANGED <<client, reading, requestQueue, dispatching, table, work, session, calls, written, stopping>>

\* The connection is gone, or the context done.
StopWriting ==
    /\ \/ writer = "writing"
       \/ writer = "waiting" /\ stopping
    /\ writer' = "stopped" /\ letter' = None /\ Stops
    /\ UNCHANGED <<client, reading, requestQueue, outgoingQueue, dispatching, table, work, session, calls, written>>
-----------------------------------------------------------------------------
ReadLoop ==
    \/ StopReading \/ EndOfInput \/ ReadMessage
    \/ \E r \in Requests : ReadEarly(r) \/ ReadCancel(r)
    \/ \E c \in Calls : ReadReply(c)

DispatchLoop ==
    \/ StopDispatching \/ Dispatch
    \/ Exit \/ Initialized \/ Closed \/ Answered
    \/ \E r \in Requests : Handle(r)

WriteLoop == TakeMessage \/ Write \/ Replace \/ StopWriting

Worker(r) == Work(r) \/ EndWork(r)

Caller(c) == BeginCall(c) \/ EndCall(c)

Next ==
    \/ ReadLoop
    \/ DispatchLoop
    \/ WriteLoop
    \/ \E r \in Requests : Worker(r)
    \/ \E c \in Calls : Caller(c)

\* Goroutines run, and the client answers what the server must know to start.  The state
\* of a queue is never kept, and a channel serves those who wait for it in order.
Fairness ==
    /\ WF_vars(StopReading) /\ WF_vars(DispatchLoop) /\ WF_vars(WriteLoop)
    /\ \A r \in Requests : WF_vars(Worker(r))
    /\ \A c \in Calls : WF_vars(EndCall(c))
    /\ \A c \in Calls \ {"watch"} : WF_vars(BeginCall(c)) /\ WF_vars(ReadReply(c))

Spec == Init /\ [][Next]_vars /\ Fairness
-----------------------------------------------------------------------------
\* Where the answers to a request are.
Copies(r) ==
    Quantify(DOMAIN outgoingQueue.items, LAMBDA i : outgoingQueue.items[i] \in Answers /\ outgoingQueue.items[i].id = r)
    + (IF letter \in Answers /\ letter.id = r THEN 1 ELSE 0)
    + written[r]

Running(r) == current = Message("request", r) \/ work[r] \in {"working", "answering"}

\* The handler of the request has returned.
Over(r) == Said("request", r) /\ ~Running(r) /\ Message("request", r) \notin ToSet(requestQueue.items)

(* Whatever the handler, the reader, the writer and a cancelation do with a request, there is never a    *)
(* second answer to it, and unless the server stops there is one by the time its handler has returned.   *)
AnsweredOnce == \A r \in Requests : Copies(r) <= 1 /\ (Over(r) /\ ~stopping => Copies(r) = 1)

(* The state of a queue waits in the channel that tells whether there is something in it: a Get finds    *)
(* an item, and nobody waits while there is one (dynamicQueue).                                          *)
TokenKept ==
    \A q \in {requestQueue, outgoingQueue} :
        /\ q.at = "ready" => q.items # <<>>
        /\ q.at = "idle" => q.items = <<>>

(* The table of requests that can be cancelled (pendingClientRequests) holds those that are running and  *)
(* have not been cancelled: no cancelation of a running request is lost, and no entry outlives one.      *)
PendingExact == pending = {r \in Requests : Running(r) /\ r \notin cancelled}

(* Nothing is lost between the loops, neither an item of a queue nor the right to cancel.                *)
NothingMislaid == TokenKept /\ PendingExact

(* Every request that reaches the server is answered unless the server stops, though handlers panic, and *)
(* though shutdown waits for background tasks of the session, one of which may be waiting for an answer  *)
(* that the client never gives (TestServerShutdownNoDeadlock).                                           *)
EveryoneAnswered == \A r \in Requests : Said("request", r) ~> (written[r] > 0 \/ stopping)

(* When the client has said exit, or one of the loops gives up, the other loops stop too and Run returns, *)
(* whatever they are waiting for.                                                                         *)
RunReturns == (exiting \/ stopping) ~> (dispatcher = "stopped" /\ writer = "stopped")
=============================================================================
