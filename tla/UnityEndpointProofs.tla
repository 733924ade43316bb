------------------------- MODULE UnityEndpointProofs -------------------------
(***************************************************************************)
(* For every number of connections, calls, executor threads and messages:  *)
(* the queue in force is that of the newest connection whose sender runs,  *)
(* and calls get the answers to themselves.  The second rests on Paired:   *)
(* while a header is pending, its connection is about to read the message  *)
(* that belongs to it or is reading it; and on Owned: a reader that uses   *)
(* the pending header has set it itself.  Both hold until two connections  *)
(* share a header.                                                         *)
(***************************************************************************)
EXTENDS UnityEndpoint, TLAPS

Ids   == 0..MaxCalls
Kinds == {"message", "register", "request", "response", "body", "handshake"}
Msg   == [kind : Kinds, id : Ids]
Live  == {"registered", "queued", "asleep", "awake"}

Alone  == { <<Message("message", NoCall)>>, <<Message("register", NoCall)>> }
Bodies == { <<Message("body", i)>> : i \in Ids }
Pairs  == { <<Message("request", NoCall), Message("body", NoCall)>> }
          \cup { <<Message("response", i), Message("body", i)>> : i \in Ids }
Shapes == {<<>>} \cup Alone \cup Bodies \cup Pairs

LEMMA ShortSequences ==
  ASSUME NEW a, NEW b
  PROVE  /\ Head(<<a>>) = a /\ Tail(<<a>>) = <<>>
         /\ Head(<<a, b>>) = a /\ Tail(<<a, b>>) = <<b>>
OBVIOUS

LEMMA NoCallIsId == NoCall \in Ids
BY EndpointAssumption DEF Ids, NoCall

LEMMA HeadersHaveBodies ==
  ASSUME NEW s \in Pairs
  PROVE  /\ Head(s).id \in Ids
         /\ Tail(s) = <<Message("body", Head(s).id)>>
<1>1. ASSUME NEW i \in Ids, NEW kind, s = <<Message(kind, i), Message("body", i)>>
      PROVE  Head(s).id = i /\ Tail(s) = <<Message("body", i)>>
  <2>1. Head(s) = Message(kind, i) /\ Tail(s) = <<Message("body", i)>>
    BY <1>1, ShortSequences
  <2> QED BY <2>1 DEF Message
<1>2. \E i \in Ids, kind \in Kinds : s = <<Message(kind, i), Message("body", i)>>
  BY NoCallIsId DEF Pairs, Kinds
<1> QED BY <1>1, <1>2

LEMMA TailsHaveShape ==
  ASSUME NEW s \in Shapes, s # <<>>
  PROVE  /\ Head(s).id \in Ids /\ Tail(s) \in Shapes
         /\ Head(s).kind \in {"request", "response"} => s \in Pairs
<1>1. ASSUME NEW m, NEW i \in Ids, NEW kind \in {"message", "register", "body"},
             s = <<m>>, m = Message(kind, i)
      PROVE  Head(s).id = i /\ Tail(s) = <<>> /\ Head(s).kind = kind
  <2>1. Head(s) = m /\ Tail(s) = <<>>
    BY <1>1, ShortSequences
  <2> QED BY <1>1, <2>1 DEF Message
<1>2. CASE s \in Alone \cup Bodies
  <2>1. \E m, i, kind : i \in Ids /\ kind \in {"message", "register", "body"}
                        /\ s = <<m>> /\ m = Message(kind, i)
    BY <1>2, NoCallIsId DEF Alone, Bodies
  <2> QED BY <1>1, <2>1 DEF Shapes
<1>3. CASE s \in Pairs
  BY <1>3, HeadersHaveBodies DEF Shapes, Bodies
<1> QED BY <1>2, <1>3 DEF Shapes

-----------------------------------------------------------------------------
(* The inductive invariant. *)

MessagesTyped ==
  /\ items \in [Conns -> Seq(Msg)] /\ inbox \in [Conns -> Shapes]
  /\ heard \subseteq Ids
  /\ pending \in [id : Ids, request : BOOLEAN, from : Conns \cup {NoConn}]

CallsTyped ==
  call \in [Calls -> [pc : Live \cup {"none", "done"}, id : Ids, result : Ids]]

(* A sender thread starts after its reader. *)
Started == \A c \in Conns : reader[c] = "none" => sender[c] = "none"

(* Ids are given once, in the order of the calls. *)
OwnId == \A k \in Calls : call[k].pc \in Live => call[k].id = k

OwnWaiting == DOMAIN waiting \subseteq Calls /\ \A i \in DOMAIN waiting : waiting[i] = i

(* A reader at a header has the message of the header in its inbox too. *)
Handling ==
  \A c \in Conns :
    /\ reader[c] \in {"header", "named"} => inbox[c] \in Pairs
    /\ reader[c] \in {"paired", "served"} => inbox[c] # <<>>

(* Unless two connections have shared a header, the reader that is setting *)
(* or using one has set it.                                                *)
Owned ==
  ~mixed => \A c \in Conns : reader[c] \in {"named", "paired", "served"} => pending.from = c

(* Until then, what comes after the header of an answer is the answer. *)
PairedAt(c) ==
  /\ reader[c] # "none"
  /\ reader[c] = "named" => Head(inbox[c]).id = pending.id
  /\ reader[c] \in {"reading", "paired"} => inbox[c] = <<Message("body", pending.id)>>

Paired == ~mixed /\ Announced => PairedAt(pending.from)

Inv == /\ TypeOK /\ MessagesTyped /\ CallsTyped
       /\ Started /\ OwnId /\ OwnWaiting /\ Handling /\ Owned /\ Paired
       /\ QueueIsServed /\ AnswersMatch

LEMMA InitInv == Init => Inv
<1> SUFFICES ASSUME Init PROVE Inv
  OBVIOUS
<1> USE DEF Init
<1>1. TypeOK
  <2>1. nextId \in 1..(MaxCalls + 1)
    BY EndpointAssumption
  <2> QED BY <2>1 DEF TypeOK
<1>2. MessagesTyped
  BY NoCallIsId DEF MessagesTyped, Msg, Shapes, NoPending, Conns
<1>3. CallsTyped
  BY NoCallIsId DEF CallsTyped, NotYet
<1>4. Started /\ Handling /\ Owned /\ Paired /\ QueueIsServed
  BY DEF Started, Handling, Owned, Paired, Announced, NoPending, QueueIsServed
<1>5. OwnId /\ AnswersMatch
  <2>1. \A k \in Calls : call[k].pc = "none"
    BY DEF NotYet
  <2> QED BY <2>1 DEF OwnId, AnswersMatch, Live
<1>6. OwnWaiting
  <2>1. DOMAIN waiting = {}
    OBVIOUS
  <2> QED BY <2>1 DEF OwnWaiting
<1> QED BY <1>1, <1>2, <1>3, <1>4, <1>5, <1>6 DEF Inv

-----------------------------------------------------------------------------
(* What a reader's step does to its connection, whatever it reads. *)

ReaderStops(c) ==
  /\ reader' = [reader EXCEPT ![c] = "done"]
  /\ halted' = [halted EXCEPT ![c] = TRUE]
  /\ peer' = [peer EXCEPT ![c] = FALSE]
  /\ inbox' = [inbox EXCEPT ![c] = <<>>]

ReaderGoesOn(c) ==
  /\ inbox[c] # <<>> /\ inbox' = [inbox EXCEPT ![c] = Tail(@)]
  /\ reader' = [reader EXCEPT ![c] = "reading"]
  /\ UNCHANGED <<halted, peer>>

ReaderMoves(c) ==
  /\ \E pc \in {"paired", "served", "header", "named"} : reader' = [reader EXCEPT ![c] = pc]
  /\ UNCHANGED <<halted, peer, inbox>>

LEMMA ReaderSteps ==
  ASSUME NEW c \in Conns, Read(c), Handling
  PROVE  /\ reader[c] \notin {"none", "done"}
         /\ ReaderStops(c) \/ ReaderGoesOn(c) \/ ReaderMoves(c)
         /\ UNCHANGED <<sender, queue, newest, heard, nextId>>
<1> USE DEF Reads, GoesOn, Moves, Ends, ReaderStops, ReaderGoesOn, ReaderMoves, unityVars
<1>0. reader[c] \in {"header", "named"} => inbox[c] # <<>>
  BY ShortSequences DEF Handling, Pairs
<1>1. CASE ReadPaired(c)
  BY <1>1 DEF ReadPaired, callVars
<1>2. CASE ServeRequest(c)
  BY <1>2 DEF ServeRequest, callVars
<1>3. CASE ServeResponse(c)
  BY <1>3 DEF ServeResponse
<1>4. CASE ServeUnknown(c)
  BY <1>4 DEF ServeUnknown, callVars
<1>5. CASE ClearHeader(c)
  BY <1>5 DEF ClearHeader, Handling, callVars
<1>6. CASE ReadHeader(c)
  BY <1>6 DEF ReadHeader, callVars
<1>7. CASE NameHeader(c)
  BY <1>7 DEF NameHeader, callVars
<1>8. CASE FlagHeader(c)
  BY <1>8, <1>0 DEF FlagHeader, callVars
<1>9. CASE ReadRegistration(c)
  BY <1>9 DEF ReadRegistration, callVars
<1>10. CASE ReadTopicList(c)
  BY <1>10 DEF ReadTopicList, callVars
<1>11. CASE ReadPublished(c)
  BY <1>11 DEF ReadPublished, callVars
<1>12. CASE ReadMessage(c)
  BY <1>12 DEF ReadMessage, callVars
<1>13. CASE ReadFails(c)
  BY <1>13 DEF ReadFails, callVars
<1> QED BY <1>1, <1>2, <1>3, <1>4, <1>5, <1>6, <1>7, <1>8, <1>9, <1>10, <1>11, <1>12, <1>13 DEF Read

(* The steps that touch no thread of a connection. *)
Elsewhere ==
  \/ \E c \in Conns : UnitySends(c)
  \/ Forward \/ Reply
  \/ \E k \in Calls : Call(k) \/ CallQueues(k) \/ CallSleeps(k) \/ CallReturns(k)
  \/ UNCHANGED vars

LEMMA ElsewhereKeeps == Elsewhere => UNCHANGED <<reader, sender, halted, peer, queue, newest>>
BY DEF Elsewhere, UnitySends, Posted, Forward, Reply, Call, CallQueues, CallSleeps,
       CallReturns, vars, connVars

-----------------------------------------------------------------------------
(* The threads of the connections. *)

ThreadsTyped ==
  /\ reader \in [Conns -> {"none", "reading", "paired", "served", "header", "named", "done"}]
  /\ sender \in [Conns -> {"none", "starting", "waiting", "ending", "done"}]
  /\ halted \in [Conns -> BOOLEAN] /\ peer \in [Conns -> BOOLEAN]
  /\ queue \in Conns \cup {NoConn} /\ newest \in Conns \cup {NoConn}

ThreadsInv == ThreadsTyped /\ Started /\ QueueIsServed

LEMMA ThreadsStep ==
  ASSUME ThreadsInv, Handling, [Next]_vars
  PROVE  ThreadsInv'
<1> USE DEF ThreadsInv, ThreadsTyped, Started, QueueIsServed
<1>0. NoConn \notin Conns
  BY DEF NoConn, Conns
<1>1. ASSUME NEW c \in Conns, Connect(c) PROVE ThreadsInv'
  BY <1>0, <1>1 DEF Connect
<1>2. ASSUME NEW c \in Conns, HangUp(c) PROVE ThreadsInv'
  BY <1>2 DEF HangUp
<1>3. ASSUME NEW c \in Conns, SenderInstalls(c) PROVE ThreadsInv'
  BY <1>0, <1>3 DEF SenderInstalls
<1>4. ASSUME NEW c \in Conns, SenderSends(c) PROVE ThreadsInv'
  BY <1>0, <1>4 DEF SenderSends
<1>5. ASSUME NEW c \in Conns, SenderTimesOut(c) PROVE ThreadsInv'
  BY <1>0, <1>5 DEF SenderTimesOut
<1>6. ASSUME NEW c \in Conns, SenderEnds(c) PROVE ThreadsInv'
  BY <1>0, <1>6 DEF SenderEnds, QueueAfter
<1>7. ASSUME NEW c \in Conns, Read(c) PROVE ThreadsInv'
  <2>1. /\ reader[c] \notin {"none", "done"}
        /\ ReaderStops(c) \/ ReaderGoesOn(c) \/ ReaderMoves(c)
        /\ UNCHANGED <<sender, queue, newest>>
    BY <1>7, ReaderSteps
  <2> QED BY <2>1 DEF ReaderStops, ReaderGoesOn, ReaderMoves
<1>8. CASE Elsewhere
  BY <1>8, ElsewhereKeeps
<1> QED BY <1>1, <1>2, <1>3, <1>4, <1>5, <1>6, <1>7, <1>8 DEF Next, Sender, Elsewhere

-----------------------------------------------------------------------------
(* The messages on their way. *)

LEMMA PostedShapes ==
  ASSUME NEW c \in Conns, MessagesTyped, UnitySends(c)
  PROVE  inbox' \in [Conns -> Shapes] /\ heard' \subseteq Ids
         /\ inbox[c] = <<>> /\ \E m \in Shapes : inbox' = [inbox EXCEPT ![c] = m]
<1>1. \E m \in Shapes : Posted(c, m) /\ heard' \subseteq heard
  <2>1. CASE Posted(c, <<Message("message", NoCall)>>) /\ UNCHANGED heard
    BY <2>1 DEF Shapes, Alone
  <2>2. CASE Posted(c, <<Message("register", NoCall)>>) /\ UNCHANGED heard
    BY <2>2 DEF Shapes, Alone
  <2>3. CASE Posted(c, <<Message("request", NoCall), Message("body", NoCall)>>)
             /\ UNCHANGED heard
    BY <2>3 DEF Shapes, Pairs
  <2>4. CASE Posted(c, <<Message("response", NoCall), Message("body", NoCall)>>)
             /\ UNCHANGED heard
    BY <2>4, NoCallIsId DEF Shapes, Pairs
  <2>5. ASSUME NEW i \in heard,
               Posted(c, <<Message("response", i), Message("body", i)>>),
               heard' = heard \ {i}
        PROVE  \E m \in Shapes : Posted(c, m) /\ heard' \subseteq heard
    BY <2>5 DEF Shapes, Pairs, MessagesTyped
  <2> QED BY <2>1, <2>2, <2>3, <2>4, <2>5 DEF UnitySends
<1> QED BY <1>1 DEF Posted, MessagesTyped

LEMMA QueuedItems ==
  ASSUME MessagesTyped, NEW m \in Msg, Enqueued(m), queue \in Conns \cup {NoConn}
  PROVE  items' \in [Conns -> Seq(Msg)]
<1>1. CASE queue = NoConn
  BY <1>1 DEF MessagesTyped, Enqueued
<1>2. CASE queue # NoConn
  <2>1. items[queue] \in Seq(Msg) /\ queue \in Conns
    BY <1>2 DEF MessagesTyped
  <2>2. Append(items[queue], m) \in Seq(Msg)
    BY <2>1
  <2> QED BY <1>2, <2>1, <2>2 DEF MessagesTyped, Enqueued
<1> QED BY <1>1, <1>2

LEMMA SaidItems ==
  ASSUME MessagesTyped, queue \in Conns \cup {NoConn}, Says \/ UNCHANGED items
  PROVE  items' \in [Conns -> Seq(Msg)]
<1>1. Message("message", NoCall) \in Msg
  BY NoCallIsId DEF Message, Msg, Kinds
<1>2. CASE Says
  BY <1>1, <1>2, QueuedItems DEF Says
<1>3. CASE UNCHANGED items
  BY <1>3 DEF MessagesTyped
<1> QED BY <1>2, <1>3

(* What a reader does with the messages it has not left to a call. *)
LEMMA ReaderMessages ==
  ASSUME NEW c \in Conns, Read(c), MessagesTyped, Handling, queue \in Conns \cup {NoConn}
  PROVE  /\ items' \in [Conns -> Seq(Msg)] /\ inbox' \in [Conns -> Shapes]
         /\ heard' \subseteq Ids
         /\ pending' \in [id : Ids, request : BOOLEAN, from : Conns \cup {NoConn}]
<1>1. inbox' \in [Conns -> Shapes] /\ heard' \subseteq Ids
  <2>1. ReaderStops(c) \/ ReaderGoesOn(c) \/ ReaderMoves(c)
    BY ReaderSteps
  <2>2. UNCHANGED heard
    BY ReaderSteps
  <2>3. inbox[c] # <<>> => Tail(inbox[c]) \in Shapes
    BY TailsHaveShape DEF MessagesTyped
  <2> QED BY <2>1, <2>2, <2>3 DEF ReaderStops, ReaderGoesOn, ReaderMoves, MessagesTyped, Shapes
<1>2. items' \in [Conns -> Seq(Msg)]
  <2>1. Says \/ UNCHANGED items
    <3>1. CASE ReadPaired(c)
      BY <3>1 DEF ReadPaired
    <3>2. CASE ServeRequest(c)
      BY <3>2 DEF ServeRequest
    <3>3. CASE ServeResponse(c)
      BY <3>3 DEF ServeResponse
    <3>4. CASE ServeUnknown(c)
      BY <3>4 DEF ServeUnknown
    <3>5. CASE ClearHeader(c)
      BY <3>5 DEF ClearHeader
    <3>6. CASE ReadHeader(c)
      BY <3>6 DEF ReadHeader
    <3>7. CASE NameHeader(c)
      BY <3>7 DEF NameHeader
    <3>8. CASE FlagHeader(c)
      BY <3>8 DEF FlagHeader
    <3>9. CASE ReadRegistration(c)
      BY <3>9 DEF ReadRegistration, Commanded
    <3>10. CASE ReadTopicList(c)
      BY <3>10 DEF ReadTopicList, Commanded
    <3>11. CASE ReadPublished(c)
      BY <3>11 DEF ReadPublished
    <3>12. CASE ReadMessage(c)
      BY <3>12 DEF ReadMessage
    <3>13. CASE ReadFails(c)
      BY <3>13 DEF ReadFails
    <3> QED BY <3>1, <3>2, <3>3, <3>4, <3>5, <3>6, <3>7, <3>8, <3>9, <3>10, <3>11, <3>12,
               <3>13 DEF Read
  <2> QED BY <2>1, SaidItems
<1>3. pending' \in [id : Ids, request : BOOLEAN, from : Conns \cup {NoConn}]
  <2>1. CASE NameHeader(c)
    <3>1. Head(inbox[c]).id \in Ids
      BY <2>1, HeadersHaveBodies DEF NameHeader, Moves, Handling
    <3> QED BY <2>1, <3>1 DEF NameHeader, MessagesTyped
  <2>2. CASE ClearHeader(c)
    BY <2>2, NoCallIsId DEF ClearHeader, MessagesTyped
  <2>3. CASE FlagHeader(c)
    BY <2>3 DEF FlagHeader, MessagesTyped
  <2>4. CASE UNCHANGED pending
    BY <2>4 DEF MessagesTyped
  <2> QED BY <2>1, <2>2, <2>3, <2>4 DEF Read, ReadPaired, ServeRequest, ServeResponse,
             ServeUnknown, ReadHeader, ReadRegistration, ReadTopicList, ReadPublished,
             ReadMessage, ReadFails
<1> QED BY <1>1, <1>2, <1>3

LEMMA MessagesStep ==
  ASSUME Inv, [Next]_vars
  PROVE  MessagesTyped'
<1> USE DEF MessagesTyped
<1>q. queue \in Conns \cup {NoConn}
  BY DEF Inv, TypeOK
<1>m. MessagesTyped
  BY DEF Inv
<1>1. ASSUME NEW c \in Conns, Connect(c) \/ HangUp(c) PROVE MessagesTyped'
  BY <1>1, <1>m DEF Connect, HangUp, unityVars
<1>2. ASSUME NEW c \in Conns, UnitySends(c) PROVE MessagesTyped'
  <2>1. UNCHANGED <<items, pending>>
    BY <1>2 DEF UnitySends, Posted, connVars
  <2> QED BY <1>2, <1>m, <2>1, PostedShapes
<1>3. ASSUME NEW c \in Conns, Sender(c) PROVE MessagesTyped'
  <2>1. CASE SenderInstalls(c)
    <3>1. <<Message("handshake", NoCall)>> \in Seq(Msg)
      BY NoCallIsId DEF Message, Msg, Kinds
    <3> QED BY <2>1, <3>1, <1>m DEF SenderInstalls, unityVars
  <2>2. CASE SenderSends(c)
    <3>1. Head(items[c]) \in Msg /\ Tail(items[c]) \in Seq(Msg)
      BY <2>2, <1>m DEF SenderSends
    <3> QED BY <2>2, <3>1, <1>m DEF SenderSends, Msg
  <2>3. CASE SenderTimesOut(c)
    BY <2>3, <1>m DEF SenderTimesOut, unityVars
  <2>4. CASE SenderEnds(c)
    BY <2>4, <1>m DEF SenderEnds, unityVars
  <2> QED BY <1>3, <2>1, <2>2, <2>3, <2>4 DEF Sender
<1>4. ASSUME NEW c \in Conns, Read(c) PROVE MessagesTyped'
  BY <1>4, <1>m, <1>q, ReaderMessages DEF Inv
<1>5. CASE Forward \/ Reply
  <2>1. (Says \/ UNCHANGED items) /\ UNCHANGED <<inbox, heard, pending>>
    BY <1>5 DEF Forward, Reply, unityVars
  <2> QED BY <2>1, <1>m, <1>q, SaidItems
<1>6. ASSUME NEW k \in Calls, CallQueues(k) PROVE MessagesTyped'
  <2>1. Message("request", call[k].id) \in Msg
    BY DEF Inv, CallsTyped, Message, Msg, Kinds
  <2>2. Enqueued(Message("request", call[k].id)) /\ UNCHANGED <<inbox, heard, pending>>
    BY <1>6 DEF CallQueues, unityVars
  <2> QED BY <2>1, <2>2, <1>m, <1>q, QueuedItems
<1>7. ASSUME NEW k \in Calls, Call(k) \/ CallSleeps(k) \/ CallReturns(k)
      PROVE  MessagesTyped'
  BY <1>7, <1>m DEF Call, CallSleeps, CallReturns, connVars, unityVars
<1>8. CASE UNCHANGED vars
  BY <1>8, <1>m DEF vars, connVars, unityVars
<1> QED BY <1>1, <1>2, <1>3, <1>4, <1>5, <1>6, <1>7, <1>8 DEF Next

-----------------------------------------------------------------------------
(* The calls, and whose answer they get. *)

CallsInv == CallsTyped /\ OwnId /\ OwnWaiting

LEMMA CallsStep ==
  ASSUME Inv, [Next]_vars
  PROVE  CallsInv'
<1> USE DEF CallsInv, CallsTyped, OwnId, OwnWaiting
<1>c. CallsInv
  BY DEF Inv
<1>i. Calls \subseteq Ids /\ NoCall \in Ids
  BY NoCallIsId DEF Calls, Ids
<1>1. ASSUME NEW c \in Conns, ServeResponse(c) PROVE CallsInv'
  <2>1. pending.id \in Calls /\ CallOf(pending.id) = pending.id
    BY <1>1, <1>c DEF ServeResponse, CallOf
  <2>2. Head(inbox[c]).id \in Ids
    BY <1>1, TailsHaveShape DEF ServeResponse, Moves, Inv, Handling, MessagesTyped
  <2>3. call' = Answered(pending.id, Head(inbox[c]).id)
        /\ waiting' = [i \in DOMAIN waiting \ {pending.id} |-> waiting[i]]
    BY <1>1, <2>1 DEF ServeResponse
  <2>4. CallsTyped' /\ OwnId'
    BY <1>c, <2>1, <2>2, <2>3 DEF Answered, Live
  <2>5. OwnWaiting'
    BY <1>c, <2>3
  <2> QED BY <2>4, <2>5
<1>2. ASSUME NEW k \in Calls, Call(k) PROVE CallsInv'
  <2>1. call' = [call EXCEPT ![k] = [pc |-> "registered", id |-> k, result |-> NoCall]]
        /\ waiting' = [i \in DOMAIN waiting \cup {k} |-> IF i = k THEN k ELSE waiting[i]]
    BY <1>2 DEF Call
  <2>2. CallsTyped' /\ OwnId'
    BY <1>c, <1>i, <2>1 DEF Live
  <2>3. OwnWaiting'
    BY <1>c, <2>1
  <2> QED BY <2>2, <2>3
<1>3. ASSUME NEW k \in Calls, CallQueues(k) \/ CallSleeps(k) PROVE CallsInv'
  BY <1>c, <1>3 DEF CallQueues, CallSleeps, Live
<1>4. ASSUME NEW k \in Calls, CallReturns(k) PROVE CallsInv'
  BY <1>c, <1>i, <1>4 DEF CallReturns, NotYet, Live
<1>5. CASE UNCHANGED <<call, waiting>>
  BY <1>c, <1>5
<1>6. ASSUME NEW c \in Conns, Connect(c) \/ UnitySends(c) \/ HangUp(c) \/ Sender(c)
      PROVE  UNCHANGED <<call, waiting>>
  BY <1>6 DEF Connect, UnitySends, Posted, HangUp, Sender, SenderInstalls, SenderSends,
             SenderTimesOut, SenderEnds, callVars
<1>7. ASSUME NEW c \in Conns, Read(c), ~ServeResponse(c)
      PROVE  UNCHANGED <<call, waiting>>
  BY <1>7 DEF Read, ReadPaired, ServeRequest, ServeUnknown, ClearHeader, ReadHeader, NameHeader,
             FlagHeader, ReadRegistration, ReadTopicList, ReadPublished, ReadMessage, ReadFails,
             callVars
<1>8. CASE Forward \/ Reply \/ UNCHANGED vars
  BY <1>8, <1>5 DEF Forward, Reply, vars, callVars
<1> QED BY <1>1, <1>2, <1>3, <1>4, <1>5, <1>6, <1>7, <1>8 DEF Next

(* A reader's step as far as headers are concerned. *)
Serves(c) ==
  /\ reader[c] = "paired" /\ reader' = [reader EXCEPT ![c] = "served"]
  /\ UNCHANGED <<inbox, pending, mixed>>

ReadsOther(c) ==
  /\ reader[c] = "reading" /\ ReaderGoesOn(c) /\ ~Announced
  /\ UNCHANGED <<pending, mixed>>

Leaves(c) == ReaderStops(c) /\ UNCHANGED <<pending, mixed>>

Clears(c) ==
  /\ reader[c] = "served" /\ ~Announced'
  /\ ReaderStops(c) \/ ReaderGoesOn(c)
  /\ UNCHANGED mixed

Flags(c) ==
  /\ reader[c] = "named" /\ pending'.id = pending.id /\ pending'.from = pending.from
  /\ ReaderStops(c) \/ ReaderGoesOn(c)
  /\ UNCHANGED mixed

LEMMA HeaderSteps ==
  ASSUME NEW c \in Conns, Read(c), Handling, MessagesTyped
  PROVE  \/ ReadPaired(c) \/ ReadHeader(c) \/ NameHeader(c)
         \/ Serves(c) \/ ReadsOther(c) \/ Leaves(c) \/ Clears(c) \/ Flags(c)
<1> USE DEF Leaves, Reads, GoesOn, Ends, ReaderStops, ReaderGoesOn
<1>1. CASE ServeRequest(c) \/ ServeResponse(c)
  BY <1>1 DEF ServeRequest, ServeResponse, Serves, Moves, unityVars
<1>2. CASE ServeUnknown(c) \/ ReadFails(c)
  BY <1>2 DEF ServeUnknown, ReadFails
<1>3. CASE ClearHeader(c)
  BY <1>3 DEF ClearHeader, Clears, Announced, Handling, MessagesTyped
<1>4. CASE FlagHeader(c)
  <2>1. inbox[c] # <<>>
    BY <1>4, ShortSequences DEF FlagHeader, Handling, Pairs
  <2> QED BY <1>4, <2>1 DEF FlagHeader, Flags, MessagesTyped
<1>5. CASE ReadRegistration(c)
  BY <1>5 DEF ReadRegistration, ReadsOther
<1>6. CASE ReadTopicList(c)
  BY <1>6 DEF ReadTopicList, ReadsOther
<1>7. CASE ReadPublished(c)
  BY <1>7 DEF ReadPublished, ReadsOther
<1>8. CASE ReadMessage(c)
  BY <1>8 DEF ReadMessage, ReadsOther
<1> QED BY <1>1, <1>2, <1>3, <1>4, <1>5, <1>6, <1>7, <1>8 DEF Read

LEMMA OthersStay ==
  ASSUME NEW c \in Conns, Read(c), Handling, TypeOK, MessagesTyped, NEW d \in Conns \ {c}
  PROVE  reader'[d] = reader[d] /\ inbox'[d] = inbox[d]
<1>1. reader \in [Conns -> {"none", "reading", "paired", "served", "header", "named", "done"}]
      /\ inbox \in [Conns -> Shapes]
  BY DEF TypeOK, MessagesTyped
<1>2. CASE ReaderStops(c)
  BY <1>1, <1>2 DEF ReaderStops
<1>3. CASE ReaderGoesOn(c)
  BY <1>1, <1>3 DEF ReaderGoesOn
<1>4. CASE ReaderMoves(c)
  <2>1. PICK pc \in {"paired", "served", "header", "named"} : reader' = [reader EXCEPT ![c] = pc]
    BY <1>4 DEF ReaderMoves
  <2> QED BY <1>1, <1>4, <2>1 DEF ReaderMoves
<1> QED BY <1>2, <1>3, <1>4, ReaderSteps

(* The steps that touch no reader and no header. *)
LEMMA OtherSteps ==
  ASSUME [Next]_vars
  PROVE  \/ UNCHANGED <<reader, inbox, pending, mixed>>
         \/ \E c \in Conns : Connect(c) \/ UnitySends(c) \/ Read(c)
<1>1. ASSUME NEW c \in Conns, HangUp(c) \/ Sender(c)
      PROVE  UNCHANGED <<reader, inbox, pending, mixed>>
  BY <1>1 DEF HangUp, Sender, SenderInstalls, SenderSends, SenderTimesOut, SenderEnds, unityVars
<1>2. ASSUME Forward \/ Reply \/ UNCHANGED vars
      PROVE  UNCHANGED <<reader, inbox, pending, mixed>>
  BY <1>2 DEF Forward, Reply, vars, connVars, unityVars
<1>3. ASSUME NEW k \in Calls, Call(k) \/ CallQueues(k) \/ CallSleeps(k) \/ CallReturns(k)
      PROVE  UNCHANGED <<reader, inbox, pending, mixed>>
  BY <1>3 DEF Call, CallQueues, CallSleeps, CallReturns, connVars, unityVars
<1> QED BY <1>1, <1>2, <1>3 DEF Next

LEMMA ConnectSteps ==
  ASSUME NEW c \in Conns, Connect(c)
  PROVE  reader[c] = "none" /\ reader' = [reader EXCEPT ![c] = "reading"]
         /\ UNCHANGED <<inbox, pending, mixed>>
BY DEF Connect, unityVars

LEMMA PostSteps ==
  ASSUME NEW c \in Conns, UnitySends(c), MessagesTyped
  PROVE  /\ inbox[c] = <<>> /\ \A d \in Conns \ {c} : inbox'[d] = inbox[d]
         /\ UNCHANGED <<reader, pending, mixed>>
<1>1. inbox[c] = <<>> /\ \E m \in Shapes : inbox' = [inbox EXCEPT ![c] = m]
  BY PostedShapes
<1>2. UNCHANGED <<reader, pending, mixed>>
  BY DEF UnitySends, Posted, connVars
<1> QED BY <1>1, <1>2 DEF MessagesTyped

LEMMA PairsAreLong ==
  ASSUME NEW s \in Pairs
  PROVE  s # <<>>
BY ShortSequences DEF Pairs

LEMMA HandlingStep ==
  ASSUME Inv, [Next]_vars
  PROVE  Handling'
<1> USE DEF Handling
<1>h. Handling /\ TypeOK /\ MessagesTyped
  BY DEF Inv
<1>1. ASSUME NEW c \in Conns, Connect(c) PROVE Handling'
  BY <1>1, <1>h, ConnectSteps DEF TypeOK
<1>2. ASSUME NEW c \in Conns, UnitySends(c) PROVE Handling'
  <2>1. reader[c] \notin {"header", "named", "paired", "served"}
    BY <1>2, <1>h, PostSteps, PairsAreLong
  <2> QED BY <1>2, <1>h, <2>1, PostSteps
<1>3. ASSUME NEW c \in Conns, Read(c) PROVE Handling'
  <2>0. \A d \in Conns \ {c} : reader'[d] = reader[d] /\ inbox'[d] = inbox[d]
    BY <1>3, <1>h, OthersStay
  <2>1. CASE ReadHeader(c)
    <3>1. inbox[c] \in Pairs /\ UNCHANGED inbox /\ reader'[c] = "header"
      BY <2>1, <1>h, TailsHaveShape
         DEF ReadHeader, Reads, Moves, unityVars, TypeOK, MessagesTyped
    <3> QED BY <3>1, <2>0, <1>h
  <2>2. CASE NameHeader(c)
    BY <2>2, <2>0, <1>h DEF NameHeader, Moves, unityVars, TypeOK
  <2>3. CASE ReadPaired(c)
    BY <2>3, <2>0, <1>h DEF ReadPaired, Reads, Moves, unityVars, TypeOK
  <2>4. CASE Serves(c)
    BY <2>4, <2>0, <1>h DEF Serves, TypeOK
  <2>5. CASE ReadsOther(c) \/ Leaves(c) \/ Clears(c) \/ Flags(c)
    <3>1. reader'[c] \in {"reading", "done"}
      BY <2>5, <1>h DEF ReadsOther, Leaves, Clears, Flags, ReaderGoesOn, ReaderStops, TypeOK
    <3> QED BY <3>1, <2>0, <1>h
  <2> QED BY <1>3, <1>h, HeaderSteps, <2>1, <2>2, <2>3, <2>4, <2>5
<1> QED BY <1>1, <1>2, <1>3, <1>h, OtherSteps

(* Who sets or clears a header that another reader has in hand, shares it. *)
LEMMA OwnedStep ==
  ASSUME Inv, [Next]_vars
  PROVE  Owned'
<1> USE DEF Owned
<1>o. Owned /\ TypeOK /\ MessagesTyped /\ Handling
  BY DEF Inv
<1>n. NoConn \notin Conns
  BY DEF NoConn, Conns
<1>1. ASSUME NEW c \in Conns, Connect(c) PROVE Owned'
  BY <1>1, <1>o, ConnectSteps DEF TypeOK
<1>2. ASSUME NEW c \in Conns, UnitySends(c) PROVE Owned'
  BY <1>2, <1>o, PostSteps
<1>3. ASSUME NEW c \in Conns, Read(c) PROVE Owned'
  <2>0. \A d \in Conns \ {c} : reader'[d] = reader[d]
    BY <1>3, <1>o, OthersStay
  <2>1. CASE NameHeader(c)
    <3>1. pending'.from = c /\ (~mixed' => ~mixed /\ pending.from = NoConn)
      BY <2>1, <1>o DEF NameHeader, Announced, MessagesTyped
    <3> QED BY <2>0, <3>1, <1>o, <1>n
  <2>2. CASE ReadPaired(c)
    BY <2>0, <2>2, <1>o DEF ReadPaired, Reads, Moves, TypeOK
  <2>3. CASE ReadHeader(c)
    BY <2>0, <2>3, <1>o DEF ReadHeader, Reads, Moves, TypeOK
  <2>4. CASE Serves(c)
    BY <2>0, <2>4, <1>o DEF Serves, TypeOK
  <2>5. CASE ReadsOther(c) \/ Leaves(c) \/ Flags(c)
    <3>1. reader'[c] \in {"reading", "done"} /\ pending'.from = pending.from /\ UNCHANGED mixed
      BY <2>5, <1>o DEF ReadsOther, Leaves, Flags, ReaderGoesOn, ReaderStops, TypeOK
    <3> QED BY <2>0, <3>1, <1>o
  <2>6. CASE Clears(c)
    <3>1. reader'[c] \in {"reading", "done"} /\ UNCHANGED mixed /\ reader[c] = "served"
      BY <2>6, <1>o DEF Clears, ReaderGoesOn, ReaderStops, TypeOK
    <3> QED BY <2>0, <3>1, <1>o
  <2> QED BY <1>3, <1>o, HeaderSteps, <2>1, <2>2, <2>3, <2>4, <2>5, <2>6
<1> QED BY <1>1, <1>2, <1>3, <1>o, OtherSteps

(* A header that is set up pairs with the message that follows it; nothing *)
(* of its connection is read in between.                                   *)
LEMMA PairedStep ==
  ASSUME Inv, [Next]_vars
  PROVE  Paired'
<1> USE DEF Paired, PairedAt
<1>p. Paired /\ Owned /\ Handling /\ TypeOK /\ MessagesTyped
  BY DEF Inv
<1>f. Announced => pending.from \in Conns
  BY <1>p DEF Announced, MessagesTyped
<1>1. ASSUME NEW c \in Conns, Connect(c) PROVE Paired'
  BY <1>1, <1>p, <1>f, ConnectSteps DEF TypeOK, Announced
<1>2. ASSUME NEW c \in Conns, UnitySends(c) PROVE Paired'
  <2>1. inbox[c] # <<Message("body", pending.id)>> /\ inbox[c] \notin Pairs
    BY <1>2, <1>p, PostSteps, PairsAreLong
  <2>2. \A d \in Conns \ {c} : inbox'[d] = inbox[d]
    BY <1>2, <1>p, PostSteps
  <2>3. UNCHANGED <<reader, pending, mixed>>
    BY <1>2, <1>p, PostSteps
  <2> QED BY <1>p, <1>f, <2>1, <2>2, <2>3 DEF Announced, Handling
<1>3. ASSUME NEW c \in Conns, Read(c) PROVE Paired'
  <2>0. \A d \in Conns \ {c} : reader'[d] = reader[d] /\ inbox'[d] = inbox[d]
    BY <1>3, <1>p, OthersStay
  <2>1. CASE ReadPaired(c)
    <3>1. reader[c] = "reading" /\ reader'[c] = "paired" /\ UNCHANGED <<inbox, pending>>
      BY <2>1, <1>p DEF ReadPaired, Reads, Moves, unityVars, TypeOK
    <3>2. mixed' = (mixed \/ pending.from # c) /\ Announced
      BY <2>1 DEF ReadPaired
    <3>3. SUFFICES ASSUME ~mixed' PROVE PairedAt(c)'
      BY <3>1, <3>2
    <3>4. PairedAt(c)
      BY <3>2, <3>3, <1>p
    <3> QED BY <3>1, <3>4
  <2>2. CASE ReadHeader(c)
    <3>1. ~Announced /\ UNCHANGED pending
      BY <2>2 DEF ReadHeader
    <3> QED BY <3>1 DEF Announced
  <2>3. CASE NameHeader(c)
    <3>1. reader'[c] = "named" /\ UNCHANGED inbox
      BY <2>3, <1>p DEF NameHeader, Moves, unityVars, TypeOK
    <3>2. pending'.from = c /\ pending'.id = Head(inbox[c]).id
      BY <2>3, <1>p DEF NameHeader, MessagesTyped
    <3> QED BY <3>1, <3>2
  <2>4. CASE Serves(c)
    <3>1. reader'[c] = "served" /\ UNCHANGED <<inbox, pending, mixed>>
      BY <2>4, <1>p DEF Serves, TypeOK
    <3> QED BY <2>0, <3>1, <1>p, <1>f DEF Announced
  <2>5. CASE ReadsOther(c) \/ Clears(c)
    BY <2>5 DEF ReadsOther, Clears, Announced
  <2>6. CASE Leaves(c)
    <3>1. reader'[c] = "done" /\ UNCHANGED <<pending, mixed>>
      BY <2>6, <1>p DEF Leaves, ReaderStops, TypeOK
    <3> QED BY <2>0, <3>1, <1>p, <1>f DEF Announced
  <2>7. CASE Flags(c)
    <3>1. SUFFICES ASSUME ~mixed', Announced' PROVE PairedAt(pending.from)'
      OBVIOUS
    <3>2. ~mixed /\ Announced /\ pending.from = c /\ pending'.id = pending.id
      BY <2>7, <3>1, <1>p DEF Flags, Owned, Announced
    <3>3. Head(inbox[c]).id = pending.id /\ inbox[c] \in Pairs
      BY <2>7, <3>2, <1>p DEF Flags, Handling
    <3>4. Tail(inbox[c]) = <<Message("body", pending.id)>>
      BY <3>3, HeadersHaveBodies
    <3>5. reader'[c] = "done"
          \/ (reader'[c] = "reading" /\ inbox'[c] = <<Message("body", pending.id)>>)
      BY <2>7, <3>4, <1>p DEF Flags, ReaderStops, ReaderGoesOn, TypeOK, MessagesTyped
    <3>6. pending'.from = c /\ pending'.id = pending.id
      BY <2>7, <3>2 DEF Flags
    <3> QED BY <3>5, <3>6
  <2> QED BY <1>3, <1>p, HeaderSteps, <2>1, <2>2, <2>3, <2>4, <2>5, <2>6, <2>7
<1>4. CASE UNCHANGED <<reader, inbox, pending, mixed>>
  BY <1>4, <1>p DEF Announced
<1> QED BY <1>1, <1>2, <1>3, <1>4, OtherSteps

LEMMA AnswersStep ==
  ASSUME Inv, [Next]_vars
  PROVE  AnswersMatch'
<1>a. AnswersMatch /\ CallsInv
  BY DEF Inv, CallsInv
<1>m. mixed => mixed'
  BY DEF Next, vars, Connect, UnitySends, Posted, HangUp, Sender, SenderInstalls, SenderSends,
         SenderTimesOut, SenderEnds, Read, ReadPaired, ServeRequest, ServeResponse,
         ServeUnknown, ClearHeader, ReadHeader, NameHeader, FlagHeader, ReadRegistration, ReadTopicList,
         ReadPublished,
         ReadMessage, ReadFails, Forward, Reply, Call, CallQueues, CallSleeps, CallReturns
<1>1. ASSUME NEW c \in Conns, ServeResponse(c) PROVE AnswersMatch'
  <2> DEFINE r == Head(inbox[c]).id
  <2>1. pending.id \in Calls /\ CallOf(pending.id) = pending.id
    BY <1>1, <1>a DEF ServeResponse, CallOf, CallsInv, OwnWaiting
  <2>2. call' = Answered(pending.id, r) /\ UNCHANGED mixed /\ reader[c] = "paired"
    BY <1>1, <2>1 DEF ServeResponse, Moves
  <2>3. ~mixed' => r = pending.id
    <3>1. SUFFICES ASSUME ~mixed' PROVE r = pending.id
      OBVIOUS
    <3>2. inbox[c] = <<Message("body", pending.id)>>
      BY <2>1, <2>2, <3>1 DEF Inv, Owned, Paired, PairedAt, Announced, Conns, NoConn
    <3>3. Head(inbox[c]) = Message("body", pending.id)
      BY <3>2, ShortSequences
    <3> QED BY <3>3 DEF Message
  <2>4. ASSUME NEW k \in Calls, call'[k].pc = "awake", ~mixed'
        PROVE  call'[k].result = call'[k].id
    <3>1. CASE k = pending.id
      <4>1. call'[k].result = r /\ call'[k].id = call[k].id /\ call[k].pc \in Live
        BY <1>a, <2>2, <2>4, <3>1 DEF Answered, CallsInv, CallsTyped, Live
      <4>2. call[k].id = k
        BY <1>a, <4>1 DEF CallsInv, OwnId
      <4> QED BY <2>3, <2>4, <3>1, <4>1, <4>2
    <3>2. CASE k # pending.id
      <4>1. call'[k] = call[k]
        BY <1>a, <2>2, <3>2 DEF Answered, CallsInv, CallsTyped
      <4> QED BY <1>a, <1>m, <2>4, <4>1 DEF AnswersMatch
    <3> QED BY <3>1, <3>2
  <2> QED BY <2>4 DEF AnswersMatch
<1>2. ASSUME NEW k \in Calls, Call(k) \/ CallQueues(k) \/ CallSleeps(k) \/ CallReturns(k)
      PROVE  AnswersMatch'
  BY <1>2, <1>a, <1>m DEF Call, CallQueues, CallSleeps, CallReturns, NotYet, AnswersMatch,
                          CallsInv, CallsTyped
<1>3. CASE UNCHANGED call
  BY <1>3, <1>a, <1>m DEF AnswersMatch
<1>4. ASSUME NEW c \in Conns, Connect(c) \/ UnitySends(c) \/ HangUp(c) \/ Sender(c)
      PROVE  UNCHANGED call
  BY <1>4 DEF Connect, UnitySends, Posted, HangUp, Sender, SenderInstalls, SenderSends,
             SenderTimesOut, SenderEnds, callVars
<1>5. ASSUME NEW c \in Conns, Read(c), ~ServeResponse(c) PROVE UNCHANGED call
  BY <1>5 DEF Read, ReadPaired, ServeRequest, ServeUnknown, ClearHeader, ReadHeader, NameHeader,
             FlagHeader, ReadRegistration, ReadTopicList, ReadPublished, ReadMessage, ReadFails,
             callVars
<1>6. CASE Forward \/ Reply \/ UNCHANGED vars
  BY <1>6, <1>3 DEF Forward, Reply, vars, callVars
<1> QED BY <1>1, <1>2, <1>3, <1>4, <1>5, <1>6 DEF Next

LEMMA RestTyped ==
  ASSUME TypeOK, Handling, [Next]_vars
  PROVE  (tables \in BOOLEAN /\ nextId \in 1..(MaxCalls + 1)
          /\ mixed \in BOOLEAN /\ asked \in BOOLEAN)'
<1> DEFINE Same == UNCHANGED <<tables, mixed, asked>>
<1>1. Same => tables' \in BOOLEAN /\ mixed' \in BOOLEAN /\ asked' \in BOOLEAN
  BY DEF TypeOK
<1>4. ASSUME NEW c \in Conns, Connect(c) \/ UnitySends(c) \/ HangUp(c) \/ Sender(c)
      PROVE  Same
  BY <1>4 DEF Connect, UnitySends, Posted, HangUp, Sender, SenderInstalls, SenderSends,
             SenderTimesOut, SenderEnds
<1>5. ASSUME NEW c \in Conns, Read(c)
      PROVE  tables' \in BOOLEAN /\ mixed' \in BOOLEAN /\ asked' \in BOOLEAN
  <2>1. CASE ServeRequest(c)
    BY <2>1 DEF ServeRequest, TypeOK
  <2>2. CASE ReadPaired(c) \/ NameHeader(c)
    BY <2>2 DEF ReadPaired, NameHeader, TypeOK
  <2>3. CASE ServeResponse(c) \/ ServeUnknown(c) \/ ClearHeader(c) \/ ReadHeader(c) \/ FlagHeader(c)
    BY <2>3, <1>1 DEF ServeResponse, ServeUnknown, ClearHeader, ReadHeader, FlagHeader
  <2>4. CASE ReadRegistration(c)
    BY <2>4 DEF ReadRegistration, Commanded, TypeOK
  <2>5. CASE ReadTopicList(c)
    BY <2>5 DEF ReadTopicList, Commanded, TypeOK
  <2>6. CASE ReadPublished(c) \/ ReadMessage(c) \/ ReadFails(c)
    BY <2>6, <1>1 DEF ReadPublished, ReadMessage, ReadFails
  <2> QED BY <1>5, <2>1, <2>2, <2>3, <2>4, <2>5, <2>6 DEF Read
<1>6. ASSUME Reply
      PROVE  tables' \in BOOLEAN /\ mixed' \in BOOLEAN /\ asked' \in BOOLEAN
  BY <1>6 DEF Reply, TypeOK
<1>7. ASSUME Forward \/ UNCHANGED vars PROVE Same
  BY <1>7 DEF Forward, vars
<1>8. ASSUME NEW k \in Calls, Call(k) \/ CallQueues(k) \/ CallSleeps(k) \/ CallReturns(k)
      PROVE  Same
  BY <1>8 DEF Call, CallQueues, CallSleeps, CallReturns
<1>9. tables' \in BOOLEAN /\ mixed' \in BOOLEAN /\ asked' \in BOOLEAN
  BY <1>1, <1>4, <1>5, <1>6, <1>7, <1>8 DEF Next
<1>2. ASSUME NEW k \in Calls, Call(k) PROVE nextId' \in 1..(MaxCalls + 1)
  BY <1>2, EndpointAssumption DEF Call, Calls
<1>3. UNCHANGED nextId \/ \E k \in Calls : Call(k)
  BY ReaderSteps DEF Next, vars, Connect, UnitySends, Posted, HangUp, Sender, SenderInstalls,
         SenderSends, SenderTimesOut, SenderEnds, Forward, Reply, CallQueues, CallSleeps,
         CallReturns, callVars
<1> QED BY <1>2, <1>3, <1>9 DEF TypeOK

(* The invariant of the endpoint: its types, the threads of every          *)
(* connection, the calls and the messages on their way to them.            *)
THEOREM Invariance == Spec => []Inv
<1>1. Inv /\ [Next]_vars => Inv'
  <2>1. SUFFICES ASSUME Inv, [Next]_vars PROVE Inv'
    OBVIOUS
  <2>2. MessagesTyped' /\ CallsInv' /\ Handling' /\ Owned' /\ Paired' /\ AnswersMatch'
    BY <2>1, MessagesStep, CallsStep, HandlingStep, OwnedStep, PairedStep, AnswersStep
  <2>3. ThreadsInv'
    BY <2>1, ThreadsStep DEF Inv, TypeOK, ThreadsInv, ThreadsTyped
  <2>4. TypeOK'
    BY <2>1, <2>3, RestTyped DEF Inv, TypeOK, ThreadsInv, ThreadsTyped
  <2> QED BY <2>2, <2>3, <2>4 DEF Inv, CallsInv, ThreadsInv
<1> QED BY InitInv, <1>1, PTL DEF Spec

(* Whatever older connections have still to clean up, messages go to the   *)
(* connection that was set up last for as long as its sender runs, and     *)
(* never into the queue of a sender that is gone (enqueue, sender_loop).   *)
THEOREM QueueStaysServed == Spec => []QueueIsServed
<1>1. Inv => QueueIsServed
  BY DEF Inv
<1> QED BY <1>1, Invariance, PTL

(* A call that returns has the answer to itself, unless two connections    *)
(* shared a header (send_unity_service_response, pending_srv_id).          *)
THEOREM AnswersStayMatched == Spec => []AnswersMatch
<1>1. Inv => AnswersMatch
  BY DEF Inv
<1> QED BY <1>1, Invariance, PTL

(* Threads, queues and ids are what the endpoint's code makes of them.     *)
THEOREM TypeCorrect == Spec => []TypeOK
<1>1. Inv => TypeOK
  BY DEF Inv
<1> QED BY <1>1, Invariance, PTL

=============================================================================
