------------------------------ MODULE RingBuffer -----------------------------
(***************************************************************************)
(* The lock-free ring buffer between one producer and one consumer         *)
(* (ring_buffer in lockfree.hpp).  Telemetry samples leave the 200 Hz loop *)
(* through such buffers, without a lock.  The mailbox that brings targets  *)
(* to the loop is one too, but is only used under _motionMutex, or before  *)
(* the loop exists: of what is shown here it needs the queue alone.        *)
(*                                                                         *)
(* Each side owns one index and keeps a copy of the other side's, which it *)
(* only refreshes when the copy says that it cannot go on.  An action ends *)
(* wherever the other side may see or change what this side uses next.     *)
(* The acquire loads and release stores of the indices are atomic here;    *)
(* the slots are plain memory, so no two accesses to one may meet.         *)
(***************************************************************************)
EXTENDS Naturals

CONSTANTS
  Value,           \* what is queued
  None,            \* not a value
  Capacity         \* _capacity of the constructor

\* assert(_capacity != 0)
ASSUME CapacityAssumption == Capacity \in Nat \ {0}

VARIABLES
  head,            \* head_: the consumer's index
  headCached,      \* head_cached_: the producer's copy of it
  tail,            \* tail_: the producer's index
  tailCached,      \* tail_cached_: the consumer's copy of it
  storage,         \* storage_: one slot more than the capacity
  producer,        \* where push() is
  item,            \* its argument
  accepted,        \* the answer of the last push()
  consumer,        \* where pop() is
  taken,           \* the value it has copied out
  delivered        \* the answer of the last pop(), None for "empty"

producerVars == <<headCached, tail, producer, item, accepted>>
consumerVars == <<head, tailCached, consumer, taken, delivered>>

vars == <<producerVars, consumerVars, storage>>

Index == 0..Capacity

ProducerState == {"idle", "reload", "write", "publish"}
ConsumerState == {"idle", "reload", "read", "advance"}

TypeOK ==
  /\ head \in Index /\ headCached \in Index
  /\ tail \in Index /\ tailCached \in Index
  /\ storage \in [Index -> Value]
  /\ producer \in ProducerState /\ item \in Value /\ accepted \in BOOLEAN
  /\ consumer \in ConsumerState /\ taken \in Value
  /\ delivered \in Value \cup {None}

\* The slots and the locals hold whatever the memory held.
Init ==
  /\ head = 0 /\ headCached = 0 /\ tail = 0 /\ tailCached = 0
  /\ storage \in [Index -> Value]
  /\ producer = "idle" /\ item \in Value /\ accepted = TRUE
  /\ consumer = "idle" /\ taken \in Value /\ delivered = None

NextIndex(index) == IF index = Capacity THEN 0 ELSE index + 1

-----------------------------------------------------------------------------
(* push() *)

\* Mutant of PushCall: nothing is tested before the value is written.
PushCallUnchecked ==
  /\ producer = "idle"
  /\ item' \in Value
  /\ producer' = "write"
  /\ UNCHANGED <<headCached, tail, accepted, consumerVars, storage>>

PushCall ==
  /\ producer = "idle"
  /\ item' \in Value
  /\ producer' = IF NextIndex(tail) = headCached THEN "reload" ELSE "write"
  /\ UNCHANGED <<headCached, tail, accepted, consumerVars, storage>>

PushReload ==
  /\ producer = "reload"
  /\ headCached' = head
  /\ IF NextIndex(tail) = head
       THEN producer' = "idle" /\ accepted' = FALSE
       ELSE producer' = "write" /\ UNCHANGED accepted
  /\ UNCHANGED <<tail, item, consumerVars, storage>>

PushWrite ==
  /\ producer = "write"
  /\ storage' = [storage EXCEPT ![tail] = item]
  /\ producer' = "publish"
  /\ UNCHANGED <<headCached, tail, item, accepted, consumerVars>>

PushPublish ==
  /\ producer = "publish"
  /\ tail' = NextIndex(tail)
  /\ producer' = "idle" /\ accepted' = TRUE
  /\ UNCHANGED <<headCached, item, consumerVars, storage>>

-----------------------------------------------------------------------------
(* pop() *)

\* Mutant of PopCall: the copy of the tail is trusted when it says "empty".
PopCallCached ==
  /\ consumer = "idle"
  /\ IF head = tailCached
       THEN consumer' = "idle" /\ delivered' = None /\ tailCached' = tail
       ELSE consumer' = "read" /\ UNCHANGED <<delivered, tailCached>>
  /\ UNCHANGED <<head, taken, producerVars, storage>>

PopCall ==
  /\ consumer = "idle"
  /\ consumer' = IF head = tailCached THEN "reload" ELSE "read"
  /\ UNCHANGED <<head, tailCached, taken, delivered, producerVars, storage>>

PopReload ==
  /\ consumer = "reload"
  /\ tailCached' = tail
  /\ IF head = tail
       THEN consumer' = "idle" /\ delivered' = None
       ELSE consumer' = "read" /\ UNCHANGED delivered
  /\ UNCHANGED <<head, taken, producerVars, storage>>

PopRead ==
  /\ consumer = "read"
  /\ taken' = storage[head]
  /\ consumer' = "advance"
  /\ UNCHANGED <<head, tailCached, delivered, producerVars, storage>>

PopAdvance ==
  /\ consumer = "advance"
  /\ head' = NextIndex(head)
  /\ consumer' = "idle" /\ delivered' = taken
  /\ UNCHANGED <<tailCached, taken, producerVars, storage>>

-----------------------------------------------------------------------------

Push == PushCall \/ PushReload \/ PushWrite \/ PushPublish

Pop == PopCall \/ PopReload \/ PopRead \/ PopAdvance

Next == Push \/ Pop

Spec == Init /\ [][Next]_vars

-----------------------------------------------------------------------------
(* Properties. *)

\* push() never writes the slot that pop() is about to copy: neither side of
\* a telemetry queue takes a lock, and a torn sample would pass for the pose
\* of the hand, from which motion starts.
NoTornValue == producer = "write" /\ consumer = "read" => tail # head

\* The slots from index a up to and without index b.
Distance(a, b) == IF a <= b THEN b - a ELSE b + (Capacity + 1) - a

Slot(i) ==
  IF head + i <= Capacity + 1 THEN head + i - 1
                              ELSE head + i - 1 - (Capacity + 1)

Queue == [i \in 1..Distance(head, tail) |-> storage[Slot(i)]]

Fifo == INSTANCE BoundedFifo WITH queue <- Queue

\* The ring buffer is a bounded queue, as the mailbox needs it under its mutex
\* and the telemetry queues without one: whatever the two threads' interleaving,
\* values come out once and in order, and the answers "full" and "empty" are
\* never given from an outdated copy of the other side's index.
IsFifo == Fifo!Spec

=============================================================================
