------------------------- MODULE ServerDispatchProofs -------------------------
(***************************************************************************)
(* Whatever the client sends, cancels or leaves unanswered, and however    *)
(* many requests it makes: each is answered once, and can be cancelled as  *)
(* long as it runs.                                                        *)
(***************************************************************************)
EXTENDS ServerDispatch, SequenceTheorems, FiniteSetTheorems, TLAPS

-----------------------------------------------------------------------------
(* Counting in sequences.                                                       *)

Where(s, A) == {i \in DOMAIN s : s[i] \in A}

LEMMA WhereFinite ==
  ASSUME NEW M, NEW s \in Seq(M), NEW A
  PROVE  IsFiniteSet(Where(s, A)) /\ Cardinality(Where(s, A)) \in Nat
<1>1. Len(s) \in Nat /\ DOMAIN s = 1 .. Len(s)
  OBVIOUS
<1>2. IsFiniteSet(1 .. Len(s))
  BY <1>1, FS_Interval
<1>3. Where(s, A) \in SUBSET (1 .. Len(s))
  BY <1>1 DEF Where
<1>4. IsFiniteSet(Where(s, A))
  BY <1>2, <1>3, FS_Subset
<1> QED
  BY <1>4, FS_CardinalityType

LEMMA WhereAppend ==
  ASSUME NEW M, NEW s \in Seq(M), NEW m \in M, NEW A
  PROVE  Cardinality(Where(Append(s, m), A)) = Cardinality(Where(s, A)) + (IF m \in A THEN 1 ELSE 0)
<1>1. Len(s) \in Nat /\ DOMAIN s = 1 .. Len(s) /\ DOMAIN Append(s, m) = 1 .. (Len(s) + 1)
  BY LenProperties, AppendProperties
<1>2. (\A i \in 1 .. Len(s) : Append(s, m)[i] = s[i]) /\ Append(s, m)[Len(s) + 1] = m
  BY AppendProperties
<1>3. Where(Append(s, m), A) = Where(s, A) \cup (IF m \in A THEN {Len(s) + 1} ELSE {})
  BY <1>1, <1>2 DEF Where
<1>4. Len(s) + 1 \notin Where(s, A)
  BY <1>1 DEF Where
<1>5. IsFiniteSet(Where(s, A)) /\ Cardinality(Where(s, A)) \in Nat
  BY WhereFinite
<1>6. CASE m \in A
  BY <1>3, <1>4, <1>5, <1>6, FS_AddElement
<1>7. CASE m \notin A
  <2>1. Where(Append(s, m), A) = Where(s, A)
    BY <1>3, <1>7
  <2> QED
    BY <1>5, <1>7, <2>1
<1> QED
  BY <1>6, <1>7

LEMMA WhereTail ==
  ASSUME NEW M, NEW s \in Seq(M), s # <<>>, NEW A
  PROVE  Cardinality(Where(s, A)) = Cardinality(Where(Tail(s), A)) + (IF Head(s) \in A THEN 1 ELSE 0)
<1> DEFINE R == {i \in 2 .. Len(s) : s[i] \in A}
           f == [i \in R |-> i - 1]
<1>1. /\ Len(s) \in Nat \ {0} /\ DOMAIN s = 1 .. Len(s)
      /\ Tail(s) \in Seq(M) /\ DOMAIN Tail(s) = 1 .. (Len(s) - 1)
      /\ \A i \in 1 .. (Len(s) - 1) : Tail(s)[i] = s[i + 1]
      /\ Head(s) = s[1]
  BY LenProperties, EmptySeq, HeadTailProperties
<1>2. Where(s, A) = R \cup (IF Head(s) \in A THEN {1} ELSE {}) /\ 1 \notin R
  BY <1>1 DEF Where
<1>3. IsFiniteSet(R)
  <2>1. R \in SUBSET Where(s, A)
    BY <1>1 DEF Where
  <2> QED
    BY <2>1, WhereFinite, FS_Subset
<1>4. f \in Bijection(R, Where(Tail(s), A))
  <2>1. \A i \in R : i \in Nat /\ f[i] = i - 1 /\ f[i] \in Where(Tail(s), A)
    BY <1>1 DEF Where
  <2>2. \A i, j \in R : f[i] = f[j] => i = j
    BY <2>1
  <2>3. \A j \in Where(Tail(s), A) : j + 1 \in R /\ f[j + 1] = j
    BY <1>1 DEF Where
  <2> QED
    BY <2>1, <2>2, <2>3 DEF Bijection, Injection, Surjection, IsInjective
<1>5. Cardinality(Where(Tail(s), A)) = Cardinality(R)
  <2>1. ExistsBijection(R, Where(Tail(s), A))
    BY <1>4 DEF ExistsBijection
  <2> QED
    BY <1>3, <2>1, FS_Bijection
<1>6. Cardinality(R) \in Nat
  BY <1>3, FS_CardinalityType
<1>7. Cardinality(Where(s, A)) = Cardinality(R) + (IF Head(s) \in A THEN 1 ELSE 0)
  <2>1. CASE Head(s) \in A
    <3>1. Where(s, A) = R \cup {1}
      BY <1>2, <2>1
    <3> HIDE DEF R
    <3> QED
      BY <1>2, <1>3, <2>1, <3>1, FS_AddElement
  <2>2. CASE Head(s) \notin A
    BY <1>2, <1>6, <2>2
  <2> QED
    BY <2>1, <2>2
<1> QED
  BY <1>5, <1>7

-----------------------------------------------------------------------------
(* The invariant.                                                               *)

AnswersTo(r) == {m \in Answers : m.id = r}

\* The answers to a request that have not been lost.
Number(r) == Cardinality(Where(outgoingQueue.items, AnswersTo(r)))
             + (IF letter \in AnswersTo(r) THEN 1 ELSE 0) + written[r]

Request(r) == Message("request", r)

Queued(r) == Request(r) \in ToSet(requestQueue.items)

\* The dispatcher has a message when it is at work on one.
AtWork ==
  /\ current = None <=> dispatcher \in {"waiting", "stopped"}
  /\ dispatcher = "closing" => current = Request(Shutdown)
  /\ dispatcher = "answering" => \E r \in Requests : current = Request(r)
  /\ dispatcher = "calling" => current.kind = "initialized"

\* A request waits at most once.
QueuedOnce ==
  \A i, j \in DOMAIN requestQueue.items :
    requestQueue.items[i] = requestQueue.items[j] /\ requestQueue.items[i].kind = "request" => i = j

\* A request is in one place, after it was sent, and cannot be cancelled before its handler is started.
OnePlace ==
  \A r \in Requests :
    /\ Queued(r) => Said("request", r) /\ current # Request(r) /\ work[r] = "none" /\ r \notin cancelled
    /\ current = Request(r) => Said("request", r) /\ work[r] = "none"
    /\ work[r] # "none" \/ r \in cancelled => Said("request", r)

\* Its handler has not come to an answer.
Unanswered(r) ==
  \/ ~Said("request", r)
  \/ Queued(r)
  \/ current = Request(r) /\ dispatcher # "answering"
  \/ work[r] = "working"

\* There is no answer before that, and one from then on.
Counted ==
  \A r \in Requests :
    /\ Number(r) <= 1
    /\ Unanswered(r) => Number(r) = 0
    /\ ~Unanswered(r) /\ ~stopping => Number(r) = 1

Tracked == AtWork /\ QueuedOnce /\ OnePlace /\ PendingExact

\* The writer has a message while it writes.
Lettered == writer = "writing" <=> letter # None

Inv == TypeOK /\ TokenKept /\ Tracked /\ Lettered /\ Counted

-----------------------------------------------------------------------------
(* Messages, queues and numbers of answers.                                     *)

LEMMA Messages ==
  /\ \A k, i : Message(k, i).kind = k /\ Message(k, i).id = i
  /\ \A r \in Requests, k \in Outcomes : Message(k, r) \in Answers /\ Message(k, r) \in ToClient
  /\ \A r \in Requests, k \in Outcomes : \A q : Message(k, r) \in AnswersTo(q) <=> q = r
  /\ \A m \in Answers : m.kind \in Outcomes /\ m.id \in Requests
  /\ \A c \in Calls : Message("call", c) \in ToClient /\ Message("call", c) \notin Answers
  /\ \A r \in Requests : Request(r) \in FromClient
<1>1. \A k, i : Message(k, i).kind = k /\ Message(k, i).id = i
  BY DEF Message
<1>2. \A r \in Requests, k \in Outcomes : Message(k, r) \in Answers /\ Message(k, r) \in ToClient
  BY DEF Answers, ToClient
<1>3. \A r \in Requests, k \in Outcomes : \A q : Message(k, r) \in AnswersTo(q) <=> q = r
  BY <1>1, <1>2 DEF AnswersTo
<1>4. \A m \in Answers : m.kind \in Outcomes /\ m.id \in Requests
  <2> SUFFICES ASSUME NEW m \in Answers PROVE m.kind \in Outcomes /\ m.id \in Requests
    OBVIOUS
  <2>1. PICK k \in Outcomes, r \in Requests : m = Message(k, r)
    BY DEF Answers
  <2> QED
    BY <1>1, <2>1
<1>5. \A c \in Calls : Message("call", c) \in ToClient /\ Message("call", c) \notin Answers
  <2>1. \A c \in Calls : Message("call", c) \in ToClient
    BY DEF ToClient
  <2>2. "call" \notin Outcomes
    BY DEF Outcomes
  <2> QED
    BY <1>1, <1>4, <2>1, <2>2
<1>6. \A r \in Requests : Request(r) \in FromClient
  BY DEF FromClient, Request
<1> QED
  BY <1>1, <1>2, <1>3, <1>4, <1>5, <1>6

\* What TokenKept says of one queue.
Token(q) ==
  /\ q.at = "ready" => q.items # <<>>
  /\ q.at = "idle" => q.items = <<>>

LEMMA Put ==
  ASSUME NEW M, NEW q \in Queues(M), NEW m \in M
  PROVE  /\ WithItem(q, m) \in Queues(M) /\ Token(WithItem(q, m))
         /\ WithItem(q, m).items = Append(q.items, m)
<1>1. q.items \in Seq(M)
  BY DEF Queues
<1>2. Append(q.items, m) \in Seq(M) /\ Append(q.items, m) # <<>>
  BY <1>1, AppendProperties
<1> QED
  BY <1>2 DEF Queues, WithItem, Token

LEMMA Take ==
  ASSUME NEW M, NEW q \in Queues(M), q.at = "ready", Token(q)
  PROVE  /\ WithoutItem(q) \in Queues(M) /\ Token(WithoutItem(q))
         /\ WithoutItem(q).items = Tail(q.items)
         /\ q.items \in Seq(M) /\ q.items # <<>> /\ Head(q.items) \in M
<1>1. q.items \in Seq(M) /\ q.items # <<>>
  BY DEF Queues, Token
<1>2. /\ Tail(q.items) \in Seq(M) /\ Len(q.items) \in Nat \ {0}
      /\ Len(Tail(q.items)) = Len(q.items) - 1 /\ Head(q.items) \in M
  BY <1>1, HeadTailProperties, EmptySeq
<1>3. Tail(q.items) = <<>> <=> Len(q.items) = 1
  <2>1. Len(Tail(q.items)) = 0 <=> Tail(q.items) = <<>>
    BY <1>2, EmptySeq
  <2> QED
    BY <1>2, <2>1
<1>4. /\ WithoutItem(q).items = Tail(q.items)
      /\ WithoutItem(q).at = IF Len(q.items) = 1 THEN "idle" ELSE "ready"
      /\ WithoutItem(q) \in Queues(M)
  BY <1>2 DEF Queues, WithoutItem
<1>5. Token(WithoutItem(q))
  BY <1>3, <1>4 DEF Token
<1> QED
  BY <1>1, <1>2, <1>4, <1>5

LEMMA Tokens == TokenKept <=> Token(requestQueue) /\ Token(outgoingQueue)
  BY DEF TokenKept, Token

LEMMA NumberNatural ==
  ASSUME TypeOK, NEW r \in Requests
  PROVE  Number(r) \in Nat
<1>1. outgoingQueue.items \in Seq(ToClient) /\ written[r] \in Nat
  BY DEF TypeOK, Queues
<1> QED
  BY <1>1, WhereFinite DEF Number

\* What is put into the queue counts, unless the server is stopping.
LEMMA Sent ==
  ASSUME TypeOK, TokenKept, NEW m \in ToClient, Sends(m), UNCHANGED <<letter, written>>
  PROVE  /\ outgoingQueue' \in Queues(ToClient) /\ Token(outgoingQueue)'
         /\ \A r \in Requests :
              Number(r)' = Number(r) + (IF m \in AnswersTo(r) /\ ~stopping THEN 1 ELSE 0)
<1>1. outgoingQueue \in Queues(ToClient) /\ outgoingQueue.items \in Seq(ToClient) /\ Token(outgoingQueue)
  BY Tokens DEF TypeOK, Queues
<1>2. CASE stopping
  <2>1. outgoingQueue' = outgoingQueue
    BY <1>2 DEF Sends
  <2>2. \A r \in Requests : Number(r)' = Number(r)
    BY <2>1 DEF Number
  <2> QED
    BY <1>1, <1>2, <2>1, <2>2, NumberNatural DEF Token
<1>3. CASE ~stopping
  <2>1. outgoingQueue' = WithItem(outgoingQueue, m)
    BY <1>3 DEF Sends
  <2>2. /\ outgoingQueue' \in Queues(ToClient) /\ Token(outgoingQueue)'
        /\ outgoingQueue'.items = Append(outgoingQueue.items, m)
    BY <1>1, <2>1, Put DEF Token
  <2>3. ASSUME NEW r \in Requests
        PROVE  Number(r)' = Number(r) + (IF m \in AnswersTo(r) THEN 1 ELSE 0)
    <3> DEFINE A == AnswersTo(r)
    <3>1. A' = A
      BY DEF AnswersTo, Answers, Message
    <3> HIDE DEF A
    <3>2. Cardinality(Where(outgoingQueue'.items, A))
            = Cardinality(Where(outgoingQueue.items, A)) + (IF m \in A THEN 1 ELSE 0)
      BY <1>1, <2>2, WhereAppend
    <3>3. Cardinality(Where(outgoingQueue.items, A)) \in Nat
      BY <1>1, WhereFinite
    <3>4. written[r] \in Nat
      BY DEF TypeOK
    <3>5. /\ Number(r) = Cardinality(Where(outgoingQueue.items, A)) + (IF letter \in A THEN 1 ELSE 0)
                         + written[r]
          /\ Number(r)' = Cardinality(Where(outgoingQueue'.items, A)) + (IF letter \in A THEN 1 ELSE 0)
                          + written[r]
      BY <3>1 DEF Number, A
    <3> QED
      BY <3>2, <3>3, <3>4, <3>5 DEF A
  <2> QED
    BY <1>3, <2>2, <2>3
<1> QED
  BY <1>2, <1>3

LEMMA NumberSame ==
  ASSUME UNCHANGED <<outgoingQueue, letter, written>>
  PROVE  \A r : Number(r)' = Number(r)
  BY DEF Number

\* Steps that answer nothing.
LEMMA CountedStill ==
  ASSUME Counted, stopping => stopping',
         \A r \in Requests : Number(r)' = Number(r) /\ (Unanswered(r)' <=> Unanswered(r))
  PROVE  Counted'
  BY DEF Counted

\* A step that answers one request.
LEMMA CountedOneMore ==
  ASSUME TypeOK, TokenKept, Counted,
         NEW r \in Requests, NEW k \in Outcomes, Sends(Message(k, r)),
         UNCHANGED <<letter, written, stopping>>,
         Unanswered(r), ~Unanswered(r)',
         \A q \in Requests : q # r => (Unanswered(q)' <=> Unanswered(q))
  PROVE  Counted' /\ outgoingQueue' \in Queues(ToClient) /\ Token(outgoingQueue)'
<1>1. Message(k, r) \in ToClient /\ \A q : Message(k, r) \in AnswersTo(q) <=> q = r
  BY Messages
<1>2. /\ outgoingQueue' \in Queues(ToClient) /\ Token(outgoingQueue)'
      /\ \A q \in Requests : Number(q)' = Number(q) + (IF q = r /\ ~stopping THEN 1 ELSE 0)
  BY <1>1, Sent
<1>3. \A q \in Requests : Number(q) \in Nat
  BY NumberNatural
<1>4. Counted'
  BY <1>2, <1>3 DEF Counted
<1> QED
  BY <1>2, <1>4

-----------------------------------------------------------------------------
(* Steps that leave the requests where they are.                                *)

LEMMA NotNone == \A r : Request(r) \in FromClient => Request(r) # None
  BY NoMessage

LEMMA Still ==
  ASSUME Tracked, UNCHANGED <<requestQueue, pending, cancelled, work>>, AtWork',
         dispatcher = "answering" <=> dispatcher' = "answering",
         \A r \in Requests : /\ current = Request(r) <=> current' = Request(r)
                             /\ Said("request", r) <=> Said("request", r)'
  PROVE  Tracked' /\ \A r \in Requests : Unanswered(r)' <=> Unanswered(r)
<1>1. \A r \in Requests : (Queued(r) <=> Queued(r)') /\ (Running(r) <=> Running(r)')
  BY DEF Queued, Running, Request, Message
<1>2. QueuedOnce'
  BY DEF Tracked, QueuedOnce
<1>3. OnePlace'
  BY <1>1 DEF Tracked, OnePlace, Request, Message
<1>4. PendingExact'
  BY <1>1 DEF Tracked, PendingExact
<1>5. \A r \in Requests : Unanswered(r)' <=> Unanswered(r)
  BY <1>1 DEF Unanswered, Request, Message
<1> QED
  BY <1>2, <1>3, <1>4, <1>5 DEF Tracked

LEMMA Stopping ==
  ASSUME Inv, StopReading \/ EndOfInput \/ StopDispatching
  PROVE  Inv'
<1> USE DEF client, reading, dispatching, table, calls, writing
<1>1. /\ UNCHANGED <<sent, requestQueue, outgoingQueue, current, pending, cancelled, work, letter, written>>
      /\ stopping => stopping'
      /\ dispatcher' = dispatcher \/ (dispatcher = "waiting" /\ dispatcher' = "stopped")
  BY DEF StopReading, EndOfInput, StopDispatching, Stops
<1>2. TypeOK'
  BY DEF Inv, TypeOK, StopReading, EndOfInput, StopDispatching
<1>3. TokenKept'
  BY <1>1 DEF Inv, TokenKept
<1>4. AtWork'
  BY <1>1 DEF Inv, Tracked, AtWork, Request, Message
<1>5. \A r \in Requests : (current = Request(r) <=> current' = Request(r))
                          /\ (Said("request", r) <=> Said("request", r)')
  BY <1>1 DEF Said
<1>6. Tracked' /\ \A r \in Requests : Unanswered(r)' <=> Unanswered(r)
  <2>1. dispatcher = "answering" <=> dispatcher' = "answering"
    BY <1>1
  <2> QED
    BY <1>1, <1>4, <1>5, <2>1, Still DEF Inv
<1>7. Counted'
  BY <1>1, <1>6, NumberSame, CountedStill DEF Inv
<1>8. Lettered'
  BY DEF Inv, Lettered, StopReading, EndOfInput, StopDispatching
<1> QED
  BY <1>2, <1>3, <1>6, <1>7, <1>8 DEF Inv

LEMMA Handling ==
  ASSUME Inv, Exit \/ Initialized
  PROVE  Inv'
<1> USE DEF client, reading, dispatching, table, calls, writing
<1>1. /\ UNCHANGED <<sent, requestQueue, outgoingQueue, pending, cancelled, work, letter, written, stopping>>
      /\ dispatcher \in {"handling", "calling"} /\ current.kind \in {"exit", "initialized"}
      /\ \/ dispatcher' = "calling" /\ current' = current /\ current.kind = "initialized" /\ current # None
         \/ dispatcher' = "waiting" /\ current' = None
  BY DEF Exit, Initialized
<1>2. TypeOK'
  BY DEF Inv, TypeOK, Exit, Initialized
<1>3. TokenKept'
  BY <1>1 DEF Inv, TokenKept
<1>4. AtWork'
  BY <1>1 DEF Inv, Tracked, AtWork
<1>5. \A r \in Requests : current # Request(r) /\ current' # Request(r)
                          /\ (Said("request", r) <=> Said("request", r)')
  <2>1. \A r \in Requests : Request(r).kind = "request" /\ Request(r) # None
    BY Messages, NotNone DEF Request
  <2> QED
    BY <1>1, <2>1 DEF Said
<1>6. Tracked' /\ \A r \in Requests : Unanswered(r)' <=> Unanswered(r)
  <2>1. dispatcher # "answering" /\ dispatcher' # "answering"
    BY <1>1
  <2> QED
    BY <1>1, <1>4, <1>5, <2>1, Still DEF Inv
<1>7. Counted'
  BY <1>1, <1>6, NumberSame, CountedStill DEF Inv
<1>8. Lettered'
  BY DEF Inv, Lettered, Exit, Initialized
<1> QED
  BY <1>2, <1>3, <1>6, <1>7, <1>8 DEF Inv

\* Steps of the reader, the writer and the callers that do not concern the requests.
LEMMA Elsewhere ==
  ASSUME Inv, UNCHANGED <<requestQueue, dispatcher, current, pending, cancelled, work>>,
         \A r \in Requests : Said("request", r) <=> Said("request", r)'
  PROVE  Tracked' /\ \A r \in Requests : Unanswered(r)' <=> Unanswered(r)
<1>1. AtWork'
  BY DEF Inv, Tracked, AtWork, Request, Message
<1> QED
  BY <1>1, Still DEF Inv

LEMMA Calling ==
  ASSUME Inv, NEW c \in Calls, ReadReply(c) \/ BeginCall(c) \/ EndCall(c)
  PROVE  Inv'
<1> USE DEF client, reading, dispatching, table, calls, writing
<1>1. /\ UNCHANGED <<requestQueue, dispatcher, current, pending, cancelled, work, letter, written, stopping>>
      /\ \/ UNCHANGED outgoingQueue
         \/ Sends(Message("call", c))
  BY DEF ReadReply, Reads, BeginCall, EndCall
<1>2. /\ outgoingQueue' \in Queues(ToClient) /\ Token(outgoingQueue)'
      /\ \A r \in Requests : Number(r)' = Number(r)
  <2>1. CASE UNCHANGED outgoingQueue
    BY <1>1, <2>1, NumberSame, Tokens DEF Inv, TypeOK, Token
  <2>2. CASE Sends(Message("call", c))
    <3>1. /\ Message("call", c) \in ToClient
          /\ \A r \in Requests : Message("call", c) \notin AnswersTo(r)
      BY Messages DEF AnswersTo
    <3> QED
      BY <1>1, <2>2, <3>1, Sent, NumberNatural DEF Inv
  <2> QED
    BY <1>1, <2>1, <2>2
<1>3. \A r \in Requests : Said("request", r) <=> Said("request", r)'
  <2>1. \A r \in Requests, k \in {"reply", "refusal"} : Message("request", r) # Message(k, c)
    BY Messages
  <2> QED
    BY <2>1 DEF Said, ReadReply, Reads, BeginCall, EndCall
<1>4. TypeOK'
  <2>1. \A k \in {"reply", "refusal"} : Message(k, c) \in FromClient
    BY DEF FromClient
  <2>2. sent' \subseteq FromClient
    BY <2>1 DEF Inv, TypeOK, ReadReply, Reads, BeginCall, EndCall
  <2>3. /\ call' \in [Calls -> {"none", "waiting", "ok", "failed"}]
        /\ reply' \in [Calls -> {"none", "reply", "refusal"}]
        /\ pendingServer' \subseteq Calls
    BY DEF Inv, TypeOK, ReadReply, Reads, BeginCall, EndCall
  <2>4. UNCHANGED <<asked, reader, greeted, session, writer>>
    BY DEF ReadReply, Reads, BeginCall, EndCall
  <2> QED
    BY <1>1, <1>2, <2>2, <2>3, <2>4 DEF Inv, TypeOK
<1>5. TokenKept'
  BY <1>1, <1>2, Tokens DEF Inv, Token, TokenKept
<1>6. Tracked' /\ \A r \in Requests : Unanswered(r)' <=> Unanswered(r)
  BY <1>1, <1>3, Elsewhere
<1>7. Counted'
  BY <1>1, <1>2, <1>6, CountedStill DEF Inv
<1>8. Lettered'
  BY DEF Inv, Lettered, ReadReply, Reads, BeginCall, EndCall
<1> QED
  BY <1>4, <1>5, <1>6, <1>7, <1>8 DEF Inv

-----------------------------------------------------------------------------
(* The writer.                                                                  *)

\* What the writer's steps do to the numbers.
LEMMA Writing ==
  ASSUME Inv,
         UNCHANGED <<sent, requestQueue, dispatcher, current, pending, cancelled, work>>,
         stopping => stopping', TypeOK', Token(outgoingQueue)', Lettered',
         \A r \in Requests : Number(r)' <= Number(r) /\ (~stopping' => Number(r)' = Number(r))
  PROVE  Inv'
<1>1. Tracked' /\ \A r \in Requests : Unanswered(r)' <=> Unanswered(r)
  BY Elsewhere DEF Said
<1>2. \A r \in Requests : Number(r) \in Nat /\ Number(r)' \in Nat
  <2>1. ASSUME NEW r \in Requests PROVE Number(r)' \in Nat
    <3>1. outgoingQueue'.items \in Seq(ToClient) /\ written'[r] \in Nat
      BY DEF TypeOK, Queues
    <3> QED
      BY <3>1, WhereFinite DEF Number
  <2> QED
    BY <2>1, NumberNatural DEF Inv
<1>3. Counted'
  BY <1>1, <1>2 DEF Inv, Counted
<1>4. TokenKept'
  BY Tokens DEF Inv, Token, TokenKept
<1> QED
  BY <1>1, <1>3, <1>4 DEF Inv

\* A message moves from the queue into the writer's hands.
LEMMA Taking ==
  ASSUME Inv, TakeMessage
  PROVE  Inv'
<1> USE DEF client, reading, dispatching, table, calls, writing
<1> DEFINE q == outgoingQueue
<1>1. q \in Queues(ToClient) /\ q.at = "ready" /\ Token(q)
  BY Tokens DEF Inv, TypeOK, TakeMessage
<1>2. /\ WithoutItem(q) \in Queues(ToClient) /\ Token(WithoutItem(q))
      /\ WithoutItem(q).items = Tail(q.items)
      /\ q.items \in Seq(ToClient) /\ q.items # <<>> /\ Head(q.items) \in ToClient
  BY <1>1, Take
<1>3. outgoingQueue' = WithoutItem(q) /\ letter' = Head(q.items) /\ letter = None /\ written' = written
  BY DEF TakeMessage, Inv, Lettered
<1>4. TypeOK'
  BY <1>2, <1>3 DEF TakeMessage, Inv, TypeOK
<1>5. Lettered'
  BY <1>2, <1>3, NoMessage DEF TakeMessage, Lettered
<1>6. ASSUME NEW r \in Requests PROVE Number(r)' = Number(r)
  <2> DEFINE A == AnswersTo(r)
  <2>1. A' = A /\ None \notin A
    BY NoMessage DEF AnswersTo, ToClient
  <2>2. /\ Number(r) = Cardinality(Where(q.items, A)) + (IF letter \in A THEN 1 ELSE 0) + written[r]
        /\ Number(r)' = Cardinality(Where(Tail(q.items), A)) + (IF Head(q.items) \in A THEN 1 ELSE 0)
                        + written[r]
    BY <1>2, <1>3 DEF Number
  <2> HIDE DEF A
  <2>3. Cardinality(Where(q.items, A))
          = Cardinality(Where(Tail(q.items), A)) + (IF Head(q.items) \in A THEN 1 ELSE 0)
    BY <1>2, WhereTail
  <2>4. /\ Cardinality(Where(q.items, A)) \in Nat /\ Cardinality(Where(Tail(q.items), A)) \in Nat
        /\ written[r] \in Nat
    BY <1>2, WhereFinite, HeadTailProperties DEF Inv, TypeOK
  <2> QED
    BY <1>3, <2>1, <2>2, <2>3, <2>4
<1>7. Token(outgoingQueue)'
  BY <1>2, <1>3 DEF Token
<1>8. /\ UNCHANGED <<sent, requestQueue, dispatcher, current, pending, cancelled, work>>
      /\ stopping => stopping'
  BY DEF TakeMessage
<1>9. \A r \in Requests : Number(r)' <= Number(r)
  BY <1>6, NumberNatural DEF Inv
<1> QED
  BY <1>4, <1>5, <1>6, <1>7, <1>8, <1>9, Writing

LEMMA Wrote ==
  ASSUME Inv, Write
  PROVE  Inv'
<1> USE DEF client, reading, dispatching, table, calls, writing
<1>1. letter \in ToClient /\ letter' = None /\ outgoingQueue' = outgoingQueue
  BY DEF Write, Inv, Lettered, TypeOK
<1>2. letter \in Answers => letter.id \in Requests
  BY DEF Answers, Message
<1>3. letter \notin Answers => letter.id \in Calls
  BY <1>1 DEF ToClient, Message
<1>4. TypeOK'
  <2>1. written' \in [Requests -> Nat]
    BY <1>2 DEF Write, Inv, TypeOK
  <2>2. asked' \subseteq Calls
    BY <1>3 DEF Write, Inv, TypeOK
  <2>3. writer' = "waiting" /\ letter' = None
    BY DEF Write
  <2> QED
    BY <2>1, <2>2, <2>3 DEF Write, Inv, TypeOK
<1>5. Lettered'
  BY DEF Write, Lettered
<1>6. ASSUME NEW r \in Requests PROVE Number(r)' = Number(r)
  <2>1. None \notin AnswersTo(r) /\ (letter \in AnswersTo(r) <=> letter \in Answers /\ letter.id = r)
    BY NoMessage DEF AnswersTo, ToClient
  <2>2. written'[r] = written[r] + (IF letter \in AnswersTo(r) THEN 1 ELSE 0)
    BY <1>2, <2>1 DEF Write, Inv, TypeOK
  <2> DEFINE n == Cardinality(Where(outgoingQueue.items, AnswersTo(r)))
  <2>3. n \in Nat /\ written[r] \in Nat
    BY WhereFinite DEF Inv, TypeOK, Queues
  <2>4. /\ Number(r) = n + (IF letter \in AnswersTo(r) THEN 1 ELSE 0) + written[r]
        /\ Number(r)' = n + 0 + written'[r]
    BY <1>1, <2>1 DEF Number
  <2> HIDE DEF n
  <2> QED
    BY <2>2, <2>3, <2>4
<1>7. Token(outgoingQueue)'
  BY <1>1, Tokens DEF Inv, Token
<1>8. /\ UNCHANGED <<sent, requestQueue, dispatcher, current, pending, cancelled, work>>
      /\ stopping => stopping'
  BY DEF Write
<1>9. \A r \in Requests : Number(r)' <= Number(r)
  BY <1>6, NumberNatural DEF Inv
<1> QED
  BY <1>4, <1>5, <1>6, <1>7, <1>8, <1>9, Writing

\* The error takes the place of the result.
LEMMA Replacing ==
  ASSUME Inv, Replace
  PROVE  Inv'
<1> USE DEF client, reading, dispatching, table, calls, writing
<1>1. letter \in ToClient /\ letter' = None /\ letter.kind = "result" /\ written' = written
  BY DEF Replace, Inv, Lettered, TypeOK
<1>2. letter \in Answers /\ letter.id \in Requests
  <2>1. letter \in Answers
    <3>1. \A c \in Calls : letter # Message("call", c)
      BY <1>1 DEF Message
    <3>2. \A m \in ToClient : m \in Answers \/ \E c \in Calls : m = Message("call", c)
      BY DEF ToClient
    <3> QED
      BY <1>1, <3>1, <3>2
  <2>2. \A m \in Answers : m.id \in Requests
    BY Messages
  <2> QED
    BY <2>1, <2>2
<1> DEFINE p == letter.id
           e == Message("error", p)
<1>3. e \in ToClient /\ \A r : e \in AnswersTo(r) <=> p = r
  BY <1>2, Messages DEF Outcomes
<1> DEFINE n(r) == Cardinality(Where(outgoingQueue.items, AnswersTo(r)))
<1>4. \A r \in Requests : n(r) \in Nat /\ written[r] \in Nat
  BY WhereFinite DEF Inv, TypeOK, Queues
<1>5. \A r \in Requests : Number(r) = n(r) + (IF p = r THEN 1 ELSE 0) + written[r]
  BY <1>2 DEF Number, AnswersTo
<1>6. outgoingQueue' \in Queues(ToClient) /\ Token(outgoingQueue)'
      /\ \A r \in Requests : Cardinality(Where(outgoingQueue'.items, AnswersTo(r)))
                               = n(r) + (IF p = r /\ ~stopping THEN 1 ELSE 0)
  <2>1. outgoingQueue \in Queues(ToClient) /\ outgoingQueue.items \in Seq(ToClient) /\ Token(outgoingQueue)
    BY Tokens DEF Inv, TypeOK, Queues
  <2>2. CASE stopping
    <3>1. outgoingQueue' = outgoingQueue
      BY <2>2 DEF Replace, Sends
    <3> QED
      BY <1>4, <2>1, <2>2, <3>1 DEF Token
  <2>3. CASE ~stopping
    <3>1. outgoingQueue' = WithItem(outgoingQueue, e)
      BY <2>3 DEF Replace, Sends
    <3> HIDE DEF e
    <3>2. outgoingQueue' \in Queues(ToClient) /\ Token(outgoingQueue)'
          /\ outgoingQueue'.items = Append(outgoingQueue.items, e)
      BY <1>3, <2>1, <3>1, Put DEF Token
    <3> QED
      BY <1>3, <2>1, <2>3, <3>2, WhereAppend
  <2> QED
    BY <2>2, <2>3
<1>7. \A r \in Requests : Number(r)' = n(r) + (IF p = r /\ ~stopping THEN 1 ELSE 0) + written[r]
  <2>1. \A r \in Requests : None \notin AnswersTo(r) /\ AnswersTo(r)' = AnswersTo(r)
    BY NoMessage DEF AnswersTo, ToClient
  <2>2. \A r \in Requests : Number(r)' = Cardinality(Where(outgoingQueue'.items, AnswersTo(r))) + written[r]
    <3>1. \A r \in Requests :
            Number(r)' = Cardinality(Where(outgoingQueue'.items, AnswersTo(r)')) + 0 + written[r]
      BY <1>1, <2>1 DEF Number
    <3>2. \A r \in Requests : Cardinality(Where(outgoingQueue'.items, AnswersTo(r))) \in Nat
      BY <1>4, <1>6
    <3> QED
      BY <2>1, <3>1, <3>2
  <2> QED
    BY <1>6, <2>2
<1>8. TypeOK'
  BY <1>6 DEF Replace, Inv, TypeOK
<1>9. Lettered'
  BY DEF Replace, Lettered
<1>10. /\ UNCHANGED <<sent, requestQueue, dispatcher, current, pending, cancelled, work, stopping>>
  BY DEF Replace
<1>11. \A r \in Requests : Number(r)' <= Number(r) /\ (~stopping' => Number(r)' = Number(r))
  <2> HIDE DEF n, p
  <2> QED
    BY <1>4, <1>5, <1>7, <1>10
<1> QED
  BY <1>6, <1>8, <1>9, <1>10, <1>11, Writing

LEMMA WriterStops ==
  ASSUME Inv, StopWriting
  PROVE  Inv'
<1> USE DEF client, reading, dispatching, table, calls, writing
<1>1. letter' = None /\ outgoingQueue' = outgoingQueue /\ written' = written /\ stopping'
  BY DEF StopWriting, Stops
<1>2. TypeOK'
  BY DEF StopWriting, Inv, TypeOK
<1>3. Lettered'
  BY DEF StopWriting, Lettered
<1>4. ASSUME NEW r \in Requests PROVE Number(r)' <= Number(r)
  <2>1. None \notin AnswersTo(r)
    BY NoMessage DEF AnswersTo, ToClient
  <2> DEFINE n == Cardinality(Where(outgoingQueue.items, AnswersTo(r)))
  <2>2. n \in Nat /\ written[r] \in Nat
    BY WhereFinite DEF Inv, TypeOK, Queues
  <2>3. /\ Number(r) = n + (IF letter \in AnswersTo(r) THEN 1 ELSE 0) + written[r]
        /\ Number(r)' = n + 0 + written[r]
    BY <1>1, <2>1 DEF Number
  <2> HIDE DEF n
  <2> QED
    BY <2>2, <2>3
<1>5. Token(outgoingQueue)'
  BY <1>1, Tokens DEF Inv, Token
<1>6. UNCHANGED <<sent, requestQueue, dispatcher, current, pending, cancelled, work>>
  BY DEF StopWriting
<1> QED
  BY <1>1, <1>2, <1>3, <1>4, <1>5, <1>6, Writing

-----------------------------------------------------------------------------
(* Requests arrive and are taken up.                                            *)

LEMMA SetAppend ==
  ASSUME NEW M, NEW s \in Seq(M), NEW m \in M
  PROVE  ToSet(Append(s, m)) = ToSet(s) \cup {m}
<1>1. /\ Len(s) \in Nat /\ DOMAIN s = 1 .. Len(s) /\ DOMAIN Append(s, m) = 1 .. (Len(s) + 1)
      /\ \A i \in 1 .. Len(s) : Append(s, m)[i] = s[i]
      /\ Append(s, m)[Len(s) + 1] = m
  BY LenProperties, AppendProperties
<1> QED
  BY <1>1 DEF ToSet

LEMMA SetTail ==
  ASSUME NEW M, NEW s \in Seq(M), s # <<>>
  PROVE  /\ Len(s) \in Nat \ {0} /\ DOMAIN s = 1 .. Len(s) /\ DOMAIN Tail(s) = 1 .. (Len(s) - 1)
         /\ \A i \in 1 .. (Len(s) - 1) : Tail(s)[i] = s[i + 1]
         /\ Head(s) = s[1]
         /\ ToSet(s) = ToSet(Tail(s)) \cup {Head(s)}
<1>1. /\ Len(s) \in Nat \ {0} /\ DOMAIN s = 1 .. Len(s)
      /\ Tail(s) \in Seq(M) /\ DOMAIN Tail(s) = 1 .. (Len(s) - 1)
      /\ \A i \in 1 .. (Len(s) - 1) : Tail(s)[i] = s[i + 1]
      /\ Head(s) = s[1]
  BY LenProperties, EmptySeq, HeadTailProperties
<1>2. ToSet(s) \subseteq ToSet(Tail(s)) \cup {Head(s)}
  <2> SUFFICES ASSUME NEW i \in DOMAIN s, i # 1 PROVE s[i] \in ToSet(Tail(s))
    BY <1>1 DEF ToSet
  <2>1. i - 1 \in DOMAIN Tail(s) /\ Tail(s)[i - 1] = s[i]
    BY <1>1
  <2> QED
    BY <2>1 DEF ToSet
<1>3. ToSet(Tail(s)) \cup {Head(s)} \subseteq ToSet(s)
  <2>1. \A i \in DOMAIN Tail(s) : i + 1 \in DOMAIN s /\ Tail(s)[i] = s[i + 1]
    BY <1>1
  <2> QED
    BY <1>1, <2>1 DEF ToSet
<1> QED
  BY <1>1, <1>2, <1>3

LEMMA RequestMessages ==
  /\ \A m \in FromClient : m.kind = "request" => m.id \in Requests /\ m = Request(m.id)
  /\ \A r : Request(r).kind = "request" /\ Request(r).id = r
  /\ \A r, q : Request(r) = Request(q) => r = q
  BY DEF FromClient, Message, Request

LEMMA ReadingMessage ==
  ASSUME Inv, ReadMessage
  PROVE  Inv'
<1> USE DEF client, reading, dispatching, table, calls, writing
<1>1. PICK m \in FromClient :
         /\ m.kind \in {"initialized", "exit", "request"}
         /\ Reads(m) /\ requestQueue' = WithItem(requestQueue, m)
  BY DEF ReadMessage
<1>2. m \notin sent /\ sent' = sent \cup {m}
  <2>1. MaySay(m)
    BY <1>1 DEF Reads
  <2>2. m.kind = "request" => m \notin sent
    BY <2>1, RequestMessages, Messages DEF MaySay, Message
  <2>3. m.kind \in {"initialized", "exit"} => m \notin sent
    BY <2>1 DEF MaySay, Message
  <2> QED
    BY <1>1, <2>2, <2>3 DEF Reads
<1>3. UNCHANGED <<asked, reader, greeted, outgoingQueue, dispatcher, current, pending, cancelled, work, session,
                  call, reply, pendingServer, writer, letter, written, stopping>>
  BY <1>1 DEF ReadMessage, Reads
<1>4. /\ requestQueue.items \in Seq(FromClient)
      /\ requestQueue' \in Queues(FromClient) /\ Token(requestQueue)'
      /\ requestQueue'.items = Append(requestQueue.items, m)
  <2>1. requestQueue \in Queues(FromClient)
    BY DEF Inv, TypeOK
  <2>2. requestQueue.items \in Seq(FromClient)
    BY <2>1 DEF Queues
  <2>3. /\ WithItem(requestQueue, m) \in Queues(FromClient) /\ Token(WithItem(requestQueue, m))
        /\ WithItem(requestQueue, m).items = Append(requestQueue.items, m)
    BY <2>1, Put
  <2> QED
    BY <1>1, <2>2, <2>3 DEF Token
<1>5. TypeOK'
  BY <1>2, <1>3, <1>4 DEF Inv, TypeOK
<1>6. TokenKept' /\ Lettered'
  BY <1>3, <1>4, Tokens DEF Inv, Token, TokenKept, Lettered
<1>7. ToSet(requestQueue'.items) = ToSet(requestQueue.items) \cup {m}
  BY <1>4, SetAppend
<1>8. ASSUME NEW r \in Requests
      PROVE  /\ Said("request", r)' <=> Said("request", r) \/ m = Request(r)
             /\ Queued(r)' <=> Queued(r) \/ m = Request(r)
             /\ Running(r)' <=> Running(r)
             /\ m = Request(r) => ~Said("request", r)
             /\ (current = Request(r))' <=> current = Request(r)
  BY <1>2, <1>3, <1>7 DEF Said, Queued, Request, Running, Message
<1>9. AtWork'
  BY <1>3 DEF Inv, Tracked, AtWork, Request, Message
<1>10. QueuedOnce'
  <2> DEFINE s == requestQueue.items
  <2>1. /\ Len(s) \in Nat /\ DOMAIN s = 1 .. Len(s) /\ DOMAIN Append(s, m) = 1 .. (Len(s) + 1)
        /\ \A i \in 1 .. Len(s) : Append(s, m)[i] = s[i]
        /\ Append(s, m)[Len(s) + 1] = m
    BY <1>4, LenProperties, AppendProperties
  <2>2. ASSUME NEW i \in DOMAIN s, s[i] = m, m.kind = "request" PROVE FALSE
    <3>1. m.id \in Requests /\ m = Request(m.id)
      BY <2>2, RequestMessages
    <3>2. Queued(m.id)
      BY <2>2, <3>1 DEF Queued, ToSet
    <3>3. Said("request", m.id)
      BY <3>1, <3>2 DEF Inv, Tracked, OnePlace
    <3> QED
      BY <1>2, <3>1, <3>3 DEF Said, Request
  <2>3. \A i, j \in DOMAIN s : s[i] = s[j] /\ s[i].kind = "request" => i = j
    BY DEF Inv, Tracked, QueuedOnce
  <2>4. \A i, j \in DOMAIN Append(s, m) :
           Append(s, m)[i] = Append(s, m)[j] /\ Append(s, m)[i].kind = "request" => i = j
    <3> HIDE DEF s
    <3> QED
      BY <2>1, <2>2, <2>3
  <2> QED
    BY <1>4, <2>4 DEF QueuedOnce
<1>11. OnePlace'
  BY <1>3, <1>8 DEF Inv, Tracked, OnePlace
<1>12. PendingExact'
  BY <1>3, <1>8 DEF Inv, Tracked, PendingExact
<1>13. \A r \in Requests : Unanswered(r)' <=> Unanswered(r)
  BY <1>3, <1>8 DEF Unanswered
<1>14. Counted'
  BY <1>3, <1>13, NumberSame, CountedStill DEF Inv
<1> QED
  BY <1>5, <1>6, <1>9, <1>10, <1>11, <1>12, <1>14 DEF Inv, Tracked

\* Answered by the reader.
LEMMA ReadingEarly ==
  ASSUME Inv, NEW p \in Requests, ReadEarly(p)
  PROVE  Inv'
<1> USE DEF client, reading, dispatching, table, calls, writing
<1>1. /\ Request(p) \notin sent /\ sent' = sent \cup {Request(p)}
      /\ Request(p) \in FromClient
  <2>1. MaySay(Request(p)) /\ sent' = IF Request(p).kind = "cancel" THEN sent ELSE sent \cup {Request(p)}
    BY DEF ReadEarly, Reads, Request
  <2>2. Request(p).kind = "request"
    BY RequestMessages
  <2> QED
    BY <2>1, <2>2, Messages, RequestMessages DEF MaySay, Message
<1>2. UNCHANGED <<asked, reader, requestQueue, dispatcher, current, pending, cancelled, work, session,
                  call, reply, pendingServer, writer, letter, written, stopping>>
      /\ greeted' \in BOOLEAN
  BY DEF ReadEarly, Reads
<1>3. ASSUME NEW r \in Requests
      PROVE  /\ Said("request", r)' <=> Said("request", r) \/ r = p
             /\ ~Said("request", p)
             /\ Queued(r)' <=> Queued(r)
             /\ Running(r)' <=> Running(r)
             /\ (current = Request(r))' <=> current = Request(r)
  BY <1>1, <1>2, RequestMessages DEF Said, Queued, Request, Running, Message
<1>4. PICK k \in Outcomes : Sends(Message(k, p))
  BY DEF ReadEarly, Outcomes
<1>5. Unanswered(p) /\ ~Unanswered(p)' /\ \A q \in Requests : q # p => (Unanswered(q)' <=> Unanswered(q))
  BY <1>2, <1>3 DEF Unanswered, Inv, Tracked, OnePlace
<1>6. Counted' /\ outgoingQueue' \in Queues(ToClient) /\ Token(outgoingQueue)'
  BY <1>2, <1>4, <1>5, CountedOneMore DEF Inv
<1>7. TypeOK'
  BY <1>1, <1>2, <1>6 DEF Inv, TypeOK
<1>8. TokenKept' /\ Lettered'
  BY <1>2, <1>6, Tokens DEF Inv, Token, TokenKept, Lettered
<1>9. AtWork' /\ QueuedOnce'
  BY <1>2 DEF Inv, Tracked, AtWork, QueuedOnce, Request, Message
<1>10. OnePlace'
  BY <1>2, <1>3 DEF Inv, Tracked, OnePlace
<1>11. PendingExact'
  BY <1>2, <1>3 DEF Inv, Tracked, PendingExact
<1> QED
  BY <1>6, <1>7, <1>8, <1>9, <1>10, <1>11 DEF Inv, Tracked

LEMMA ReadingCancel ==
  ASSUME Inv, NEW p \in Requests, ReadCancel(p)
  PROVE  Inv'
<1> USE DEF client, reading, dispatching, table, calls, writing
<1>1. /\ UNCHANGED <<sent, asked, reader, greeted, requestQueue, outgoingQueue, dispatcher, current, work, session,
                     call, reply, pendingServer, writer, letter, written, stopping>>
      /\ cancelled' = IF p \in pending THEN cancelled \cup {p} ELSE cancelled
      /\ pending' = pending \ {p}
  BY DEF ReadCancel, Reads, CancelRequest, Message
<1>2. TypeOK'
  BY <1>1 DEF Inv, TypeOK
<1>3. TokenKept' /\ Lettered'
  BY <1>1 DEF Inv, TokenKept, Lettered
<1>4. \A r \in Requests : /\ Said("request", r)' <=> Said("request", r)
                          /\ Queued(r)' <=> Queued(r)
                          /\ Running(r)' <=> Running(r)
                          /\ (current = Request(r))' <=> current = Request(r)
  BY <1>1 DEF Said, Queued, Running, Request, Message
<1>5. AtWork' /\ QueuedOnce'
  BY <1>1 DEF Inv, Tracked, AtWork, QueuedOnce, Request, Message
<1>6. p \in pending => Running(p) /\ p \notin cancelled
  BY DEF Inv, Tracked, PendingExact
<1>7. OnePlace'
  BY <1>1, <1>4, <1>6 DEF Inv, Tracked, OnePlace, Running, Request
<1>8. PendingExact'
  BY <1>1, <1>4, <1>6 DEF Inv, Tracked, PendingExact
<1>9. \A r \in Requests : Unanswered(r)' <=> Unanswered(r)
  BY <1>1, <1>4 DEF Unanswered
<1>10. Counted'
  BY <1>1, <1>9, NumberSame, CountedStill DEF Inv
<1> QED
  BY <1>2, <1>3, <1>5, <1>7, <1>8, <1>10 DEF Inv, Tracked

LEMMA Dispatching ==
  ASSUME Inv, Dispatch
  PROVE  Inv'
<1> USE DEF client, reading, dispatching, table, calls, writing
<1> DEFINE q == requestQueue
           s == requestQueue.items
           m == Head(requestQueue.items)
<1>1. q \in Queues(FromClient) /\ q.at = "ready" /\ Token(q)
  BY Tokens DEF Inv, TypeOK, Dispatch
<1>2. /\ WithoutItem(q) \in Queues(FromClient) /\ Token(WithoutItem(q))
      /\ WithoutItem(q).items = Tail(s)
      /\ s \in Seq(FromClient) /\ s # <<>> /\ m \in FromClient
  BY <1>1, Take
<1>3. /\ UNCHANGED <<sent, asked, reader, greeted, outgoingQueue, cancelled, work, session,
                     call, reply, pendingServer, writer, letter, written, stopping>>
      /\ dispatcher = "waiting" /\ dispatcher' = "handling"
      /\ requestQueue' = WithoutItem(q) /\ current' = m
      /\ pending' = IF m.kind = "request" THEN pending \cup {m.id} ELSE pending
  BY DEF Dispatch
<1>4. /\ Len(s) \in Nat \ {0} /\ DOMAIN s = 1 .. Len(s) /\ DOMAIN Tail(s) = 1 .. (Len(s) - 1)
      /\ \A i \in 1 .. (Len(s) - 1) : Tail(s)[i] = s[i + 1]
      /\ m = s[1]
      /\ ToSet(s) = ToSet(Tail(s)) \cup {m}
  BY <1>2, SetTail
<1>5. \A i, j \in DOMAIN s : s[i] = s[j] /\ s[i].kind = "request" => i = j
  BY DEF Inv, Tracked, QueuedOnce
<1>6. m \in ToSet(Tail(s)) => m.kind # "request"
  <2> SUFFICES ASSUME NEW i \in DOMAIN Tail(s), Tail(s)[i] = m, m.kind = "request" PROVE FALSE
    BY DEF ToSet
  <2>1. 1 \in DOMAIN s /\ i + 1 \in DOMAIN s /\ s[i + 1] = s[1] /\ i + 1 # 1
    BY <1>4
  <2> QED
    BY <1>4, <1>5, <2>1
<1>7. m.kind = "request" => m.id \in Requests /\ m = Request(m.id)
  BY <1>2, RequestMessages
<1>8. current = None /\ \A r \in Requests : Request(r) # None
  BY <1>3, Messages, NotNone DEF Inv, Tracked, AtWork
<1> HIDE DEF m, s, q
<1>9. \A r \in Requests : m = Request(r) <=> m.kind = "request" /\ m.id = r
  BY <1>7, RequestMessages
<1>10. ASSUME NEW r \in Requests
       PROVE  /\ Said("request", r)' <=> Said("request", r)
              /\ Queued(r) <=> Queued(r)' \/ m = Request(r)
              /\ m = Request(r) => ~Queued(r)'
              /\ current # Request(r)
              /\ (current = Request(r))' <=> m = Request(r)
  <2>1. Queued(r)' <=> Request(r) \in ToSet(Tail(s))
    BY <1>2, <1>3 DEF Queued, Request, Message
  <2>2. Queued(r) <=> Request(r) \in ToSet(s)
    BY DEF Queued, s
  <2>3. Request(r)' = Request(r)
    BY DEF Request, Message
  <2>4. Said("request", r)' <=> Said("request", r)
    BY <1>3 DEF Said
  <2>5. Queued(r) <=> Queued(r)' \/ m = Request(r)
    BY <1>4, <2>1, <2>2
  <2>6. m = Request(r) => ~Queued(r)'
    BY <1>6, <1>9, <2>1
  <2>7. current # Request(r) /\ ((current = Request(r))' <=> m = Request(r))
    BY <1>3, <1>8, <2>3
  <2> QED
    BY <2>4, <2>5, <2>6, <2>7
<1>11. TypeOK'
  <2>1. pending' \cup cancelled' \subseteq Requests
    BY <1>3, <1>7 DEF Inv, TypeOK
  <2>2. requestQueue' \in Queues(FromClient) /\ current' \in FromClient \cup {None}
    BY <1>2, <1>3
  <2> QED
    BY <1>3, <2>1, <2>2 DEF Inv, TypeOK
<1>12. TokenKept' /\ Lettered'
  <2>1. Token(requestQueue)' /\ Token(outgoingQueue)'
    BY <1>2, <1>3, Tokens DEF Inv, Token
  <2>2. Lettered'
    BY <1>3 DEF Inv, Lettered
  <2> QED
    BY <2>1, <2>2 DEF Token, TokenKept
<1>13. AtWork'
  <2>1. m # None
    BY <1>2, NoMessage
  <2> QED
    BY <1>3, <2>1 DEF AtWork
<1>14. QueuedOnce'
  <2>1. requestQueue'.items = Tail(s)
    BY <1>2, <1>3
  <2>2. \A i, j \in DOMAIN Tail(s) : Tail(s)[i] = Tail(s)[j] /\ Tail(s)[i].kind = "request" => i = j
    <3> SUFFICES ASSUME NEW i \in DOMAIN Tail(s), NEW j \in DOMAIN Tail(s),
                        Tail(s)[i] = Tail(s)[j], Tail(s)[i].kind = "request"
                 PROVE  i = j
      OBVIOUS
    <3>1. /\ i \in Nat /\ j \in Nat /\ i + 1 \in DOMAIN s /\ j + 1 \in DOMAIN s
          /\ Tail(s)[i] = s[i + 1] /\ Tail(s)[j] = s[j + 1]
      BY <1>4
    <3>2. i + 1 = j + 1
      BY <1>5, <3>1
    <3> QED
      BY <3>1, <3>2
  <2> QED
    BY <2>1, <2>2 DEF QueuedOnce
<1>15. OnePlace'
  BY <1>3, <1>10 DEF Inv, Tracked, OnePlace
<1>16. PendingExact'
  <2>1. \A r \in Requests : Running(r)' <=> Running(r) \/ m = Request(r)
    BY <1>3, <1>10 DEF Running, Request
  <2>2. \A r \in Requests : m = Request(r) => r \notin cancelled
    BY <1>10 DEF Inv, Tracked, OnePlace
  <2>3. \A r \in Requests : r \in pending' <=> r \in pending \/ m = Request(r)
    BY <1>3, <1>9
  <2>4. pending' \subseteq Requests
    BY <1>11 DEF TypeOK
  <2> QED
    BY <1>3, <2>1, <2>2, <2>3, <2>4 DEF Inv, Tracked, PendingExact
<1>17. \A r \in Requests : Unanswered(r)' <=> Unanswered(r)
  BY <1>3, <1>10 DEF Unanswered
<1>18. Counted'
  BY <1>3, <1>17, NumberSame, CountedStill DEF Inv
<1> QED
  BY <1>11, <1>12, <1>13, <1>14, <1>15, <1>16, <1>18 DEF Inv, Tracked
-----------------------------------------------------------------------------
(* Requests are answered.                                                       *)

\* A handler whose work can wait: the request goes from the dispatcher to a goroutine.
LEMMA HandingOver ==
  ASSUME Inv, NEW p \in Requests, current = Request(p), dispatcher = "handling",
         work' = [work EXCEPT ![p] = "working"], dispatcher' = "waiting", current' = None,
         UNCHANGED <<sent, asked, reader, greeted, requestQueue, outgoingQueue, pending, cancelled, session,
                     call, reply, pendingServer, writer, letter, written, stopping>>
  PROVE  Inv'
<1>1. TypeOK'
  BY DEF Inv, TypeOK
<1>2. TokenKept' /\ Lettered'
  BY DEF Inv, TokenKept, Lettered
<1>3. AtWork' /\ QueuedOnce'
  BY DEF Inv, Tracked, AtWork, QueuedOnce
<1>4. \A r \in Requests : Request(r) # None /\ (current = Request(r) <=> r = p)
  BY Messages, RequestMessages, NotNone
<1>5. \A r \in Requests : work'[r] = IF r = p THEN "working" ELSE work[r]
  BY DEF Inv, TypeOK
<1>6. \A r \in Requests : /\ Said("request", r)' <=> Said("request", r)
                          /\ Queued(r)' <=> Queued(r)
                          /\ ~(current = Request(r))'
                          /\ Running(r)' <=> Running(r)
  BY <1>4, <1>5 DEF Said, Queued, Running, Request, Message
<1>7. OnePlace'
  BY <1>4, <1>5, <1>6 DEF Inv, Tracked, OnePlace
<1>8. PendingExact'
  BY <1>6 DEF Inv, Tracked, PendingExact
<1>9. \A r \in Requests : Unanswered(r)' <=> Unanswered(r)
  BY <1>4, <1>5, <1>6 DEF Unanswered
<1>10. Counted'
  BY <1>9, NumberSame, CountedStill DEF Inv
<1> QED
  BY <1>1, <1>2, <1>3, <1>7, <1>8, <1>10 DEF Inv, Tracked

\* The dispatcher answers a request itself.
LEMMA AnsweringHere ==
  ASSUME Inv, NEW p \in Requests, current = Request(p), dispatcher \in {"handling", "closing"},
         NEW k \in Outcomes, Sends(Message(k, p)), dispatcher' = "answering",
         UNCHANGED <<sent, asked, reader, greeted, requestQueue, current, pending, cancelled, work, session,
                     call, reply, pendingServer, writer, letter, written, stopping>>
  PROVE  Inv'
<1>1. \A r \in Requests : Request(r) # None /\ (current = Request(r) <=> r = p)
  BY Messages, RequestMessages, NotNone
<1>2. \A r \in Requests : /\ Said("request", r)' <=> Said("request", r)
                          /\ Queued(r)' <=> Queued(r)
                          /\ (current = Request(r))' <=> current = Request(r)
                          /\ Running(r)' <=> Running(r)
  BY DEF Said, Queued, Running, Request, Message
<1>3. Unanswered(p) /\ ~Unanswered(p)' /\ \A q \in Requests : q # p => (Unanswered(q)' <=> Unanswered(q))
  BY <1>1, <1>2 DEF Unanswered, Inv, Tracked, OnePlace
<1>4. Counted' /\ outgoingQueue' \in Queues(ToClient) /\ Token(outgoingQueue)'
  BY <1>3, CountedOneMore DEF Inv
<1>5. TypeOK'
  BY <1>4 DEF Inv, TypeOK
<1>6. TokenKept' /\ Lettered'
  BY <1>4, Tokens DEF Inv, Token, TokenKept, Lettered
<1>7. AtWork' /\ QueuedOnce'
  BY <1>1 DEF Inv, Tracked, AtWork, QueuedOnce, Request, Message
<1>8. OnePlace'
  BY <1>2 DEF Inv, Tracked, OnePlace
<1>9. PendingExact'
  BY <1>2 DEF Inv, Tracked, PendingExact
<1> QED
  BY <1>4, <1>5, <1>6, <1>7, <1>8, <1>9 DEF Inv, Tracked

LEMMA HandlingRequest ==
  ASSUME Inv, NEW p \in Requests, Handle(p)
  PROVE  Inv'
<1> USE DEF client, reading, dispatching, table, calls, writing
<1>1. /\ dispatcher = "handling" /\ current = Request(p)
      /\ UNCHANGED <<sent, asked, reader, greeted, requestQueue, exiting, pending, cancelled,
                     call, reply, pendingServer, writer, letter, written, stopping>>
  BY DEF Handle, Request
<1>2. CASE /\ p \notin Sync
           /\ work' = [work EXCEPT ![p] = "working"]
           /\ dispatcher' = "waiting" /\ current' = None
           /\ UNCHANGED <<outgoingQueue, session>>
  BY <1>1, <1>2, HandingOver
<1>3. CASE /\ p # Shutdown
           /\ \E k \in Comes(p) \ (IF p \in Sync THEN {} ELSE {"result"}) : Sends(Message(k, p))
           /\ dispatcher' = "answering"
           /\ UNCHANGED <<current, work, session>>
  <2>1. PICK k \in Outcomes : Sends(Message(k, p))
    BY <1>3 DEF Comes, Outcomes
  <2> QED
    BY <1>1, <1>3, <2>1, AnsweringHere
<1>4. CASE /\ p = Shutdown
           /\ session' = "closing" /\ dispatcher' = "closing"
           /\ UNCHANGED <<current, work, outgoingQueue>>
  <2>1. TypeOK'
    BY <1>1, <1>4 DEF Inv, TypeOK
  <2>2. TokenKept' /\ Lettered'
    BY <1>1, <1>4 DEF Inv, TokenKept, Lettered
  <2>3. AtWork'
    BY <1>1, <1>4, Messages, NotNone DEF AtWork, Request, Message
  <2>4. \A r \in Requests : (current = Request(r) <=> current' = Request(r))
                            /\ (Said("request", r) <=> Said("request", r)')
    BY <1>1, <1>4 DEF Said
  <2>5. Tracked' /\ \A r \in Requests : Unanswered(r)' <=> Unanswered(r)
    <3>1. dispatcher = "answering" <=> dispatcher' = "answering"
      BY <1>1, <1>4
    <3> QED
      BY <1>1, <1>4, <2>3, <2>4, <3>1, Still DEF Inv
  <2>6. Counted'
    BY <1>1, <1>4, <2>5, NumberSame, CountedStill DEF Inv
  <2> QED
    BY <2>1, <2>2, <2>5, <2>6 DEF Inv
<1> QED
  BY <1>2, <1>3, <1>4 DEF Handle

LEMMA Closing ==
  ASSUME Inv, Closed
  PROVE  Inv'
<1> USE DEF client, reading, dispatching, table, calls, writing
<1>1. dispatcher = "closing" /\ current = Request(Shutdown) /\ Shutdown \in Requests
  BY Special DEF Closed, Inv, Tracked, AtWork
<1>2. PICK k \in Outcomes : Sends(Message(k, Shutdown))
  BY DEF Closed, Comes, Outcomes
<1> QED
  BY <1>1, <1>2, AnsweringHere DEF Closed

\* The entry goes when the handler has returned.
LEMMA Forgetting ==
  ASSUME Inv, Answered
  PROVE  Inv'
<1> USE DEF client, reading, dispatching, table, calls, writing
<1>1. PICK p \in Requests : current = Request(p)
  BY DEF Answered, Inv, Tracked, AtWork
<1>2. /\ UNCHANGED <<sent, asked, reader, greeted, requestQueue, outgoingQueue, cancelled, work, session,
                     call, reply, pendingServer, writer, letter, written, stopping>>
      /\ dispatcher = "answering" /\ dispatcher' = "waiting" /\ current' = None
      /\ pending' = pending \ {p}
  BY <1>1, RequestMessages DEF Answered, Removed
<1>3. TypeOK'
  BY <1>2 DEF Inv, TypeOK
<1>4. TokenKept' /\ Lettered'
  BY <1>2 DEF Inv, TokenKept, Lettered
<1>5. AtWork' /\ QueuedOnce'
  BY <1>2 DEF Inv, Tracked, AtWork, QueuedOnce
<1>6. \A r \in Requests : Request(r) # None /\ (current = Request(r) <=> r = p)
  BY <1>1, Messages, RequestMessages, NotNone
<1>7. work[p] = "none"
  BY <1>1 DEF Inv, Tracked, OnePlace
<1>8. \A r \in Requests : /\ Said("request", r)' <=> Said("request", r)
                          /\ Queued(r)' <=> Queued(r)
                          /\ ~(current = Request(r))'
                          /\ Running(r)' <=> Running(r) /\ r # p
  BY <1>2, <1>6, <1>7 DEF Said, Queued, Running, Request, Message
<1>9. OnePlace'
  BY <1>2, <1>8 DEF Inv, Tracked, OnePlace
<1>10. PendingExact'
  BY <1>2, <1>8 DEF Inv, Tracked, PendingExact
<1>11. \A r \in Requests : Unanswered(r)' <=> Unanswered(r)
  BY <1>2, <1>8 DEF Unanswered
<1>12. Counted'
  BY <1>2, <1>11, NumberSame, CountedStill DEF Inv
<1> QED
  BY <1>3, <1>4, <1>5, <1>9, <1>10, <1>12 DEF Inv, Tracked

LEMMA Working ==
  ASSUME Inv, NEW p \in Requests, Work(p)
  PROVE  Inv'
<1> USE DEF client, reading, dispatching, table, calls, writing
<1>1. /\ UNCHANGED <<sent, asked, reader, greeted, requestQueue, dispatcher, current, pending, cancelled, session,
                     call, reply, pendingServer, writer, letter, written, stopping>>
      /\ work[p] = "working" /\ work' = [work EXCEPT ![p] = "answering"]
  BY DEF Work
<1>2. PICK k \in Outcomes : Sends(Message(k, p))
  BY DEF Work, Comes, PanicAnswer, Outcomes
<1>3. \A r \in Requests : work'[r] = IF r = p THEN "answering" ELSE work[r]
  BY <1>1 DEF Inv, TypeOK
<1>4. \A r \in Requests : /\ Said("request", r)' <=> Said("request", r)
                          /\ Queued(r)' <=> Queued(r)
                          /\ (current = Request(r))' <=> current = Request(r)
                          /\ Running(r)' <=> Running(r)
  BY <1>1, <1>3 DEF Said, Queued, Running, Request, Message
<1>5. Unanswered(p) /\ ~Unanswered(p)' /\ \A q \in Requests : q # p => (Unanswered(q)' <=> Unanswered(q))
  BY <1>1, <1>3, <1>4 DEF Unanswered, Inv, Tracked, OnePlace
<1>6. Counted' /\ outgoingQueue' \in Queues(ToClient) /\ Token(outgoingQueue)'
  BY <1>1, <1>2, <1>5, CountedOneMore DEF Inv
<1>7. TypeOK'
  BY <1>1, <1>6 DEF Inv, TypeOK
<1>8. TokenKept' /\ Lettered'
  BY <1>1, <1>6, Tokens DEF Inv, Token, TokenKept, Lettered
<1>9. AtWork' /\ QueuedOnce'
  BY <1>1 DEF Inv, Tracked, AtWork, QueuedOnce, Request, Message
<1>10. OnePlace'
  BY <1>1, <1>3, <1>4 DEF Inv, Tracked, OnePlace
<1>11. PendingExact'
  BY <1>1, <1>4 DEF Inv, Tracked, PendingExact
<1> QED
  BY <1>6, <1>7, <1>8, <1>9, <1>10, <1>11 DEF Inv, Tracked

LEMMA EndingWork ==
  ASSUME Inv, NEW p \in Requests, EndWork(p)
  PROVE  Inv'
<1> USE DEF client, reading, dispatching, table, calls, writing
<1>1. /\ UNCHANGED <<sent, asked, reader, greeted, requestQueue, outgoingQueue, dispatcher, current, cancelled,
                     session, call, reply, pendingServer, writer, letter, written, stopping>>
      /\ work[p] = "answering" /\ work' = [work EXCEPT ![p] = "done"]
      /\ pending' = pending \ {p}
  BY DEF EndWork, Removed
<1>2. TypeOK'
  BY <1>1 DEF Inv, TypeOK
<1>3. TokenKept' /\ Lettered'
  BY <1>1 DEF Inv, TokenKept, Lettered
<1>4. AtWork' /\ QueuedOnce'
  BY <1>1 DEF Inv, Tracked, AtWork, QueuedOnce, Request, Message
<1>5. \A r \in Requests : work'[r] = IF r = p THEN "done" ELSE work[r]
  BY <1>1 DEF Inv, TypeOK
<1>6. current # Request(p)
  BY <1>1 DEF Inv, Tracked, OnePlace
<1>7. \A r \in Requests : /\ Said("request", r)' <=> Said("request", r)
                          /\ Queued(r)' <=> Queued(r)
                          /\ (current = Request(r))' <=> current = Request(r)
                          /\ Running(r)' <=> Running(r) /\ r # p
  BY <1>1, <1>5, <1>6 DEF Said, Queued, Running, Request, Message
<1>8. OnePlace'
  BY <1>1, <1>5, <1>7 DEF Inv, Tracked, OnePlace
<1>9. PendingExact'
  BY <1>1, <1>7 DEF Inv, Tracked, PendingExact
<1>10. \A r \in Requests : Unanswered(r)' <=> Unanswered(r)
  BY <1>1, <1>5, <1>7 DEF Unanswered
<1>11. Counted'
  BY <1>1, <1>10, NumberSame, CountedStill DEF Inv
<1> QED
  BY <1>2, <1>3, <1>4, <1>8, <1>9, <1>11 DEF Inv, Tracked
-----------------------------------------------------------------------------
(* The theorems.                                                                *)

LEMMA Initially == Init => Inv
<1> SUFFICES ASSUME Init PROVE Inv
  OBVIOUS
<1>1. \A M : NewQueue \in Queues(M)
  BY EmptySeq DEF NewQueue, Queues
<1>2. TypeOK
  BY <1>1 DEF Init, TypeOK
<1>3. TokenKept
  BY DEF Init, TokenKept, NewQueue
<1>4. \A r \in Requests : ~Queued(r) /\ ~Said("request", r) /\ ~Running(r) /\ current # Request(r)
  BY Messages, NotNone, <1>2 DEF Init, NewQueue, Queued, ToSet, Said, Running, Request, Message
<1>5. AtWork /\ QueuedOnce
  BY DEF Init, AtWork, QueuedOnce, NewQueue
<1>6. OnePlace
  BY <1>4 DEF Init, OnePlace
<1>7. PendingExact
  BY <1>4 DEF Init, PendingExact
<1>8. Lettered
  BY DEF Init, Lettered
<1>9. \A r \in Requests : Number(r) = 0
  <2>1. \A A : Where(<<>>, A) = {}
    BY DEF Where
  <2>2. \A r \in Requests : letter \notin AnswersTo(r) /\ written[r] = 0
    BY NoMessage DEF Init, AnswersTo, ToClient
  <2>3. outgoingQueue.items = <<>>
    BY DEF Init, NewQueue
  <2>4. \A r \in Requests : Cardinality(Where(outgoingQueue.items, AnswersTo(r))) = 0
    BY <2>1, <2>3, FS_EmptySet
  <2> QED
    BY <2>2, <2>4 DEF Number
<1>10. Counted
  BY <1>4, <1>9 DEF Counted, Unanswered
<1> QED
  BY <1>2, <1>3, <1>5, <1>6, <1>7, <1>8, <1>10 DEF Inv, Tracked

LEMMA Steps == Inv /\ [Next]_vars => Inv'
<1> SUFFICES ASSUME Inv, [Next]_vars PROVE Inv'
  OBVIOUS
<1> USE DEF client, reading, dispatching, table, calls, writing
<1>1. CASE ReadLoop
  BY <1>1, Stopping, ReadingMessage, ReadingEarly, ReadingCancel, Calling DEF ReadLoop
<1>2. CASE DispatchLoop
  BY <1>2, Stopping, Dispatching, Handling, Closing, Forgetting, HandlingRequest DEF DispatchLoop
<1>3. CASE WriteLoop
  BY <1>3, Taking, Wrote, Replacing, WriterStops DEF WriteLoop
<1>4. CASE \E r \in Requests : Worker(r)
  BY <1>4, Working, EndingWork DEF Worker
<1>5. CASE \E c \in Calls : Caller(c)
  BY <1>5, Calling DEF Caller
<1>6. CASE UNCHANGED vars
  <2>1. UNCHANGED <<sent, asked, reader, greeted, requestQueue, outgoingQueue, dispatcher, current, pending,
                    cancelled, work, session, call, reply, pendingServer, writer, letter, written, stopping>>
    BY <1>6 DEF vars
  <2>2. TypeOK' /\ TokenKept' /\ Lettered'
    BY <2>1 DEF Inv, TypeOK, TokenKept, Lettered
  <2>3. Tracked' /\ \A r \in Requests : Unanswered(r)' <=> Unanswered(r)
    BY <2>1, Elsewhere DEF Said
  <2>4. Counted'
    BY <2>1, <2>3, NumberSame, CountedStill DEF Inv
  <2> QED
    BY <2>2, <2>3, <2>4 DEF Inv
<1> QED
  BY <1>1, <1>2, <1>3, <1>4, <1>5, <1>6 DEF Next

LEMMA Always == Spec => []Inv
<1>1. Init => Inv
  BY Initially
<1>2. Inv /\ [Next]_vars => Inv'
  BY Steps
<1> QED
  BY <1>1, <1>2, PTL DEF Spec

LEMMA CopiesNumber == \A r : Copies(r) = Number(r)
  BY DEF Copies, Number, Quantify, Where, AnswersTo

(* Neither an item of a queue nor the right to cancel a running request is ever lost, however many       *)
(* requests there are and in whatever order they are read, dispatched, cancelled and answered.           *)
THEOREM NothingIsMislaid == Spec => []NothingMislaid
<1>1. Inv => NothingMislaid
  BY DEF Inv, Tracked, NothingMislaid
<1> QED
  BY <1>1, Always, PTL

(* No request has two answers, and one whose handler has returned, or panicked, has one, unless the      *)
(* server stops.                                                                                         *)
THEOREM EachAnsweredOnce == Spec => []AnsweredOnce
<1>1. ASSUME Inv, NEW r \in Requests
      PROVE  Copies(r) <= 1 /\ (Over(r) /\ ~stopping => Copies(r) = 1)
  <2>1. Over(r) => ~Unanswered(r)
    BY DEF Over, Running, Unanswered, Queued, Request
  <2> QED
    BY <1>1, <2>1, CopiesNumber DEF Inv, Counted
<1>2. Inv => AnsweredOnce
  BY <1>1 DEF AnsweredOnce
<1> QED
  BY <1>2, Always, PTL
=============================================================================
