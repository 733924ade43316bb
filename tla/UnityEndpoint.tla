---------------------------- MODULE UnityEndpoint ----------------------------
(***************************************************************************)
(* The ROS-TCP endpoint between ROS 2 and Unity: a reader thread           *)
(* (ClientThread) and a sender thread (UnityTcpSender.sender_loop) for     *)
(* every connection, the executor that runs the callbacks of the           *)
(* registered nodes, and the service calls to Unity, which sleep in an     *)
(* executor thread until a reader hands them the answer.                   *)
(*                                                                         *)
(* Unity is external: it connects, also before it has noticed that an      *)
(* older connection is gone, sends, answers what it has heard and hangs    *)
(* up.  A message is its kind and, where it belongs to a service call,     *)
(* the call's id; an error that Unity is told of is a message.             *)
(*                                                                         *)
(* pending_srv_id and pending_srv_is_request belong to the server, and no  *)
(* lock guards them: a reader tests, uses and clears them, or tests and    *)
(* sets them, in steps between which other connections' readers run.  The  *)
(* message it is at stays in its inbox until it is done.                   *)
(***************************************************************************)
EXTENDS Integers, Sequences, FiniteSets, Functions

CONSTANTS
  Threads,       \* threads of the executor
  MaxConn,       \* connections are numbered 1..MaxConn
  MaxCalls,      \* service calls to Unity are numbered 1..MaxCalls
  MaxItems,      \* items of a sender's queue (bound of the model)
  MaxInbox       \* messages of Unity that are not read yet (bound)

ASSUME EndpointAssumption == {Threads, MaxConn, MaxCalls, MaxItems, MaxInbox} \subseteq Nat

Conns  == 1..MaxConn
Calls  == 1..MaxCalls
NoConn == 0
NoCall == 0

VARIABLES
  reader,        \* of each connection: "none", "reading"; with a message to the
                 \* pending header, "paired" and "served"; with a header,
                 \* "header" and "named"; "done"
  sender,        \* "none", "starting", "waiting" for its queue, "ending", "done"
  halted,        \* halt_event
  peer,          \* whether Unity's end of the connection is open
  items,         \* local_queue
  queue,         \* the connection whose local_queue is in force, or NoConn
  newest,        \* the last sender that put its queue in force (ghost)
  inbox,         \* what Unity has sent and no one has read
  heard,         \* the service requests that Unity has to answer
  tables,        \* whether Unity has registered its topics and services
  pending,       \* pending_srv_id, whose header it was, or NoConn,
                 \* and pending_srv_is_request
  mixed,         \* two connections have shared a header (ghost)
  nextId, waiting, \* next_srv_id and services_waiting
  call,          \* of each call: where it is, its id and its result
  asked          \* whether the call of a ROS service is being served

connVars == <<reader, sender, halted, peer, items, queue, newest>>
unityVars == <<inbox, heard>>
callVars == <<nextId, waiting, call>>
vars == <<connVars, unityVars, tables, pending, mixed, asked, callVars>>

NoPending == [id |-> NoCall, request |-> FALSE, from |-> NoConn]
NotYet     == [pc |-> "none", id |-> NoCall, result |-> NoCall]

Init ==
  /\ reader = [c \in Conns |-> "none"] /\ sender = [c \in Conns |-> "none"]
  /\ halted = [c \in Conns |-> FALSE] /\ peer = [c \in Conns |-> FALSE]
  /\ items = [c \in Conns |-> <<>>] /\ inbox = [c \in Conns |-> <<>>]
  /\ queue = NoConn /\ newest = NoConn
  /\ heard = {} /\ tables = FALSE
  /\ pending = NoPending /\ mixed = FALSE
  /\ nextId = 1 /\ waiting = [i \in {} |-> NoCall]
  /\ call = [k \in Calls |-> NotYet] /\ asked = FALSE

Message(kind, id) == [kind |-> kind, id |-> id]

(***************************************************************************)
(* Unity.                                                                  *)
(***************************************************************************)
(* listen_loop accepts a connection and starts its two threads. *)
Connect(c) ==
  /\ reader[c] = "none" /\ \A d \in 1..(c - 1) : reader[d] # "none"
  /\ reader' = [reader EXCEPT ![c] = "reading"]
  /\ sender' = [sender EXCEPT ![c] = "starting"]
  /\ peer' = [peer EXCEPT ![c] = TRUE]
  /\ UNCHANGED <<halted, items, queue, newest, unityVars, tables, pending,
                 mixed, asked, callVars>>

Unread == FoldFunction(LAMBDA a, b : a + b, 0, [c \in Conns |-> Len(inbox[c])])

Posted(c, ms) ==
  /\ peer[c] /\ inbox[c] = <<>> /\ Unread + Len(ms) <= MaxInbox
  /\ inbox' = [inbox EXCEPT ![c] = ms]
  /\ UNCHANGED <<connVars, tables, pending, mixed, asked, callVars>>

(* A keepalive or a topic's message, its registrations, a call of a ROS    *)
(* service, the answer to a request, or to one of an earlier endpoint.     *)
UnitySends(c) ==
  \/ Posted(c, <<Message("message", NoCall)>>) /\ UNCHANGED heard
  \/ ~tables /\ Posted(c, <<Message("register", NoCall)>>) /\ UNCHANGED heard
  \/ /\ Posted(c, <<Message("request", NoCall), Message("body", NoCall)>>)
     /\ UNCHANGED heard
  \/ /\ Posted(c, <<Message("response", NoCall), Message("body", NoCall)>>)
     /\ UNCHANGED heard
  \/ \E i \in heard :
       /\ Posted(c, <<Message("response", i), Message("body", i)>>)
       /\ heard' = heard \ {i}

HangUp(c) ==
  /\ peer[c]
  /\ peer' = [peer EXCEPT ![c] = FALSE]
  /\ UNCHANGED <<reader, sender, halted, items, queue, newest, unityVars,
                 tables, pending, mixed, asked, callVars>>

(***************************************************************************)
(* The sender threads.                                                     *)
(***************************************************************************)
Enqueued(item) ==
  IF queue = NoConn THEN UNCHANGED items
  ELSE /\ Len(items[queue]) < MaxItems
       /\ items' = [items EXCEPT ![queue] = Append(@, item)]

(* send_unity_error, and whatever else belongs to no call of Unity's. *)
Says == Enqueued(Message("message", NoCall))

SenderInstalls(c) ==
  /\ sender[c] = "starting"
  /\ sender' = [sender EXCEPT ![c] = IF halted[c] THEN "ending" ELSE "waiting"]
  /\ items' = [items EXCEPT ![c] = <<Message("handshake", NoCall)>>]
  /\ queue' = c /\ newest' = c
  /\ UNCHANGED <<reader, halted, peer, unityVars, tables, pending, mixed,
                 asked, callVars>>

(* An item leaves the queue.  After Unity has hung up it is lost, whether  *)
(* sendall still takes it or fails and so ends the loop.                   *)
SenderSends(c) ==
  /\ sender[c] = "waiting" /\ items[c] # <<>>
  /\ items' = [items EXCEPT ![c] = Tail(@)]
  /\ \/ sender' = [sender EXCEPT ![c] = IF halted[c] THEN "ending" ELSE @]
     \/ ~peer[c] /\ sender' = [sender EXCEPT ![c] = "ending"]
  /\ heard' = IF peer[c] /\ Head(items[c]).kind = "request"
              THEN heard \cup {Head(items[c]).id} ELSE heard
  /\ UNCHANGED <<reader, halted, peer, queue, newest, inbox, tables, pending,
                 mixed, asked, callVars>>

SenderTimesOut(c) ==
  /\ sender[c] = "waiting" /\ items[c] = <<>> /\ halted[c]
  /\ sender' = [sender EXCEPT ![c] = "ending"]
  /\ UNCHANGED <<reader, halted, peer, items, queue, newest, unityVars, tables,
                 pending, mixed, asked, callVars>>

(* Mutant of QueueAfter: the ending sender takes away whatever is in force. *)
QueueAfterAny(c) == NoConn

QueueAfter(c) == IF queue = c THEN NoConn ELSE queue

SenderEnds(c) ==
  /\ sender[c] = "ending"
  /\ sender' = [sender EXCEPT ![c] = "done"]
  /\ halted' = [halted EXCEPT ![c] = TRUE]
  /\ items' = [items EXCEPT ![c] = <<>>]
  /\ queue' = QueueAfter(c)
  /\ UNCHANGED <<reader, peer, newest, unityVars, tables, pending, mixed,
                 asked, callVars>>

(***************************************************************************)
(* The reader threads.                                                     *)
(***************************************************************************)
Ends(c) ==
  /\ reader' = [reader EXCEPT ![c] = "done"]
  /\ halted' = [halted EXCEPT ![c] = TRUE]
  /\ peer' = [peer EXCEPT ![c] = FALSE]
  /\ inbox' = [inbox EXCEPT ![c] = <<>>]
  /\ UNCHANGED <<sender, queue, newest, heard>>

Reads(c, kinds) ==
  /\ reader[c] = "reading" /\ inbox[c] # <<>> /\ Head(inbox[c]).kind \in kinds

GoesOn(c) ==
  IF halted[c] THEN Ends(c)
  ELSE /\ inbox' = [inbox EXCEPT ![c] = Tail(@)]
       /\ reader' = [reader EXCEPT ![c] = "reading"]
       /\ UNCHANGED <<sender, halted, peer, queue, newest, heard>>

AnyKind == {"message", "register", "request", "response", "body"}

Announced == pending.from # NoConn

(* What a reader that goes on to its next step for c leaves alone. *)
Moves(c, from, to) ==
  /\ reader[c] = from /\ reader' = [reader EXCEPT ![c] = to]
  /\ UNCHANGED <<sender, halted, peer, queue, newest, unityVars>>

(* The message after a header, whoever's header it was. *)
ReadPaired(c) ==
  /\ Announced
  /\ Reads(c, AnyKind) /\ Moves(c, "reading", "paired")
  /\ mixed' = (mixed \/ pending.from # c)
  /\ UNCHANGED <<items, tables, pending, asked, callVars>>

(* It is the call of a ROS service, in a thread of its own, or an error if *)
(* the service is not registered.                                          *)
ServeRequest(c) ==
  /\ pending.request
  /\ Moves(c, "paired", "served")
  /\ \/ tables /\ asked' = TRUE /\ UNCHANGED items
     \/ Says /\ UNCHANGED asked
  /\ UNCHANGED <<tables, pending, mixed, callVars>>

(* resume_with_result: the answer is there; notify() finds whoever sleeps. *)
Answered(k, result) ==
  [call EXCEPT ![k].result = result, ![k].pc = IF @ = "asleep" THEN "awake" ELSE @]

(* Mutant of CallOf: answers come in the order of the calls. *)
CallOfFirst(i) == waiting[CHOOSE j \in DOMAIN waiting : \A m \in DOMAIN waiting : j <= m]

CallOf(i) == waiting[i]

(* It is a call's answer. *)
ServeResponse(c) ==
  /\ ~pending.request /\ pending.id \in DOMAIN waiting
  /\ Moves(c, "paired", "served")
  /\ call' = Answered(CallOf(pending.id), Head(inbox[c]).id)
  /\ waiting' = [i \in DOMAIN waiting \ {pending.id} |-> waiting[i]]
  /\ UNCHANGED <<items, tables, pending, mixed, asked, nextId>>

(* It answers no call: KeyError, which run() does not expect.  The header  *)
(* stays pending.                                                          *)
ServeUnknown(c) ==
  /\ reader[c] = "paired" /\ ~pending.request /\ pending.id \notin DOMAIN waiting
  /\ Ends(c)
  /\ UNCHANGED <<items, tables, pending, mixed, asked, callVars>>

(* pending_srv_id = None; pending_srv_is_request stays. *)
ClearHeader(c) ==
  /\ reader[c] = "served" /\ GoesOn(c)
  /\ pending' = [pending EXCEPT !.id = NoCall, !.from = NoConn]
  /\ UNCHANGED <<items, tables, mixed, asked, callVars>>

(* The header of a service call, found while none was pending ... *)
ReadHeader(c) ==
  /\ ~Announced
  /\ Reads(c, {"request", "response"}) /\ Moves(c, "reading", "header")
  /\ UNCHANGED <<items, tables, pending, mixed, asked, callVars>>

(* ... sets the id, whoever has set it since ... *)
NameHeader(c) ==
  /\ Moves(c, "header", "named")
  /\ pending' = [pending EXCEPT !.id = Head(inbox[c]).id, !.from = c]
  /\ mixed' = (mixed \/ Announced)
  /\ UNCHANGED <<items, tables, asked, callVars>>

(* ... and then what it announces. *)
FlagHeader(c) ==
  /\ reader[c] = "named" /\ GoesOn(c)
  /\ pending' = [pending EXCEPT !.request = Head(inbox[c]).kind = "request"]
  /\ UNCHANGED <<items, tables, mixed, asked, callVars>>

(* handle_syscommand: a command that is not understood, has no JSON or not *)
(* the arguments of its function is answered with an error.                *)
Commanded(done) ==
  \/ done
  \/ Says /\ UNCHANGED tables

(* A node replaces the one of its topic, or its class is unknown. *)
ReadRegistration(c) ==
  /\ ~Announced
  /\ Reads(c, {"register"}) /\ GoesOn(c)
  /\ Commanded(tables' = TRUE /\ UNCHANGED items)
  /\ UNCHANGED <<pending, mixed, asked, callVars>>

(* send_topic_list, but for a topic of several types that no node is       *)
(* registered for: AttributeError, which nobody expects, ends the reader.  *)
ReadTopicList(c) ==
  /\ ~Announced
  /\ Reads(c, {"message"})
  /\ \/ GoesOn(c) /\ Commanded(Says /\ UNCHANGED tables)
     \/ Ends(c) /\ UNCHANGED <<items, tables>>
  /\ UNCHANGED <<pending, mixed, asked, callVars>>

(* A message to publish, dropped if it is not one of its topic. *)
ReadPublished(c) ==
  /\ ~Announced
  /\ Reads(c, {"message"}) /\ GoesOn(c)
  /\ UNCHANGED <<items, tables, pending, mixed, asked, callVars>>

(* A keepalive, or a message that is not to be published: an error. *)
ReadMessage(c) ==
  /\ ~Announced
  /\ Reads(c, {"message", "body"}) /\ GoesOn(c)
  /\ UNCHANGED items \/ Says
  /\ UNCHANGED <<tables, pending, mixed, asked, callVars>>

ReadFails(c) ==
  /\ reader[c] = "reading" /\ inbox[c] = <<>> /\ ~peer[c]
  /\ Ends(c)
  /\ UNCHANGED <<items, tables, pending, mixed, asked, callVars>>

(***************************************************************************)
(* The executor and the callbacks of the nodes that Unity registered.      *)
(***************************************************************************)
Free == Cardinality({ k \in Calls : call[k].pc \notin {"none", "done"} }) < Threads

(* RosService.send: the response; nothing, if the service is not there or  *)
(* fails; or an exception, for data that is no request.                    *)
ServiceOutcomes == {"response", "nothing", "exception"}

(* service_call_thread tells Unity which, unless it ended by an exception. *)
(* One call is followed at a time.                                         *)
Reply ==
  /\ asked /\ asked' = FALSE
  /\ \E outcome \in ServiceOutcomes :
        IF outcome = "exception" THEN UNCHANGED items ELSE Says
  /\ UNCHANGED <<reader, sender, halted, peer, queue, newest, unityVars, tables,
                 pending, mixed, callVars>>

(* A subscriber's callback. *)
Forward ==
  /\ tables /\ Free
  /\ Says
  /\ UNCHANGED <<reader, sender, halted, peer, queue, newest, unityVars, tables,
                 pending, mixed, asked, callVars>>

(* A Unity service's callback: under srv_lock it takes an id. *)
Call(k) ==
  /\ tables /\ Free
  /\ nextId = k
  /\ call' = [call EXCEPT ![k] = [pc |-> "registered", id |-> nextId, result |-> NoCall]]
  /\ waiting' = [i \in DOMAIN waiting \cup {nextId} |->
                   IF i = nextId THEN k ELSE waiting[i]]
  /\ nextId' = nextId + 1
  /\ UNCHANGED <<connVars, unityVars, tables, pending, mixed, asked>>

(* The request is queued, or lost without a connection. *)
CallQueues(k) ==
  /\ call[k].pc = "registered"
  /\ call' = [call EXCEPT ![k].pc = "queued"]
  /\ Enqueued(Message("request", call[k].id))
  /\ UNCHANGED <<reader, sender, halted, peer, queue, newest, unityVars, tables,
                 pending, mixed, asked, nextId, waiting>>

(* sleep_until_resumed waits, whether or not the answer is there. *)
CallSleeps(k) ==
  /\ call[k].pc = "queued"
  /\ call' = [call EXCEPT ![k].pc = "asleep"]
  /\ UNCHANGED <<connVars, unityVars, tables, pending, mixed, asked, nextId, waiting>>

CallReturns(k) ==
  /\ call[k].pc = "awake"
  /\ call' = [call EXCEPT ![k] = [NotYet EXCEPT !.pc = "done"]]
  /\ UNCHANGED <<connVars, unityVars, tables, pending, mixed, asked, nextId, waiting>>

Read(c) ==
  \/ ReadPaired(c) \/ ServeRequest(c) \/ ServeResponse(c) \/ ServeUnknown(c) \/ ClearHeader(c)
  \/ ReadHeader(c) \/ NameHeader(c) \/ FlagHeader(c)
  \/ ReadRegistration(c) \/ ReadTopicList(c)
  \/ ReadPublished(c) \/ ReadMessage(c) \/ ReadFails(c)

Sender(c) == SenderInstalls(c) \/ SenderSends(c) \/ SenderTimesOut(c) \/ SenderEnds(c)

Next ==
  \/ \E c \in Conns : \/ Connect(c) \/ UnitySends(c) \/ HangUp(c)
                      \/ Sender(c) \/ Read(c)
  \/ Forward \/ Reply
  \/ \E k \in Calls : Call(k) \/ CallQueues(k) \/ CallSleeps(k) \/ CallReturns(k)

Spec == Init /\ [][Next]_vars

-----------------------------------------------------------------------------

TypeOK ==
  /\ reader \in [Conns -> {"none", "reading", "paired", "served", "header", "named", "done"}]
  /\ sender \in [Conns -> {"none", "starting", "waiting", "ending", "done"}]
  /\ halted \in [Conns -> BOOLEAN] /\ peer \in [Conns -> BOOLEAN]
  /\ queue \in Conns \cup {NoConn} /\ newest \in Conns \cup {NoConn}
  /\ tables \in BOOLEAN
  /\ nextId \in 1..(MaxCalls + 1) /\ mixed \in BOOLEAN /\ asked \in BOOLEAN

(* What ROS sends goes to the connection that was set up last, for as long *)
(* as its sender runs, whatever older connections still have to clean up;  *)
(* and never into the queue of a sender that is gone.                      *)
QueueIsServed ==
  /\ newest # NoConn /\ sender[newest] = "waiting" => queue = newest
  /\ queue # NoConn => sender[queue] \in {"waiting", "ending"}

(* A service call that returns has Unity's answer to itself, unless two    *)
(* connections shared a header: one read its message, or wrote its own     *)
(* header, while the other's was pending (send_unity_service_response).    *)
AnswersMatch ==
  \A k \in Calls : call[k].pc = "awake" => call[k].result = call[k].id \/ mixed
=============================================================================
