--------------------------- MODULE RingBufferProofs --------------------------
(***************************************************************************)
(* The ring buffer implements a bounded queue for every capacity and every *)
(* set of values.                                                          *)
(*                                                                         *)
(* The inductive invariant says, besides the types, how far each side's    *)
(* copy of the other's index may lag: going round the buffer from the      *)
(* producer's copy of the head one meets the head before the tail, and     *)
(* from the head the consumer's copy of the tail before the tail.  So a    *)
(* side that can go on by its copy can go on in fact.                      *)
(***************************************************************************)
EXTENDS RingBuffer, SequenceTheorems, TLAPS

\* Slots in use.
Used == Distance(head, tail)

\* What the copies of the indices may miss.
Lag ==
  /\ Distance(headCached, head) + Used = Distance(headCached, tail)
  /\ Distance(head, tailCached) <= Used

\* What a side has made sure of before it touches the storage.
Claims ==
  /\ producer \in {"write", "publish"} => Distance(headCached, tail) < Capacity
  /\ producer = "publish" => storage[tail] = item
  /\ consumer \in {"read", "advance"} => head # tailCached
  /\ consumer = "advance" => taken = storage[head]

IInv == TypeOK /\ Lag /\ Claims

-----------------------------------------------------------------------------
(* The arithmetic of the indices. *)

(* NextIndex goes to the next slot of the buffer. *)
LEMMA NextIndexType ==
  ASSUME NEW i \in Index
  PROVE  NextIndex(i) \in Index
BY CapacityAssumption DEF Index, NextIndex

(* A distance is between nothing and the capacity. *)
LEMMA DistanceType ==
  ASSUME NEW i \in Index, NEW j \in Index
  PROVE  /\ Distance(i, j) \in Nat /\ Distance(i, j) <= Capacity
         /\ Distance(i, j) = 0 <=> i = j
BY CapacityAssumption DEF Index, Distance

(* The buffer is full, as seen from i, when the index after j is i. *)
LEMMA DistanceFull ==
  ASSUME NEW i \in Index, NEW j \in Index
  PROVE  NextIndex(j) = i <=> Distance(i, j) = Capacity
BY CapacityAssumption DEF Index, Distance, NextIndex

(* Advancing the far end of a distance that is not full lengthens it. *)
LEMMA DistanceGrows ==
  ASSUME NEW i \in Index, NEW j \in Index, Distance(i, j) < Capacity
  PROVE  Distance(i, NextIndex(j)) = Distance(i, j) + 1
BY CapacityAssumption DEF Index, Distance, NextIndex

(* Advancing the near end of a distance that is not nothing shortens it. *)
LEMMA DistanceShrinks ==
  ASSUME NEW i \in Index, NEW j \in Index, i # j
  PROVE  Distance(NextIndex(i), j) = Distance(i, j) - 1
BY CapacityAssumption DEF Index, Distance, NextIndex

-----------------------------------------------------------------------------
(* The inductive invariant. *)

(* The initial state satisfies the invariant, whatever the memory held. *)
LEMMA InitInvariant == Init => IInv
BY CapacityAssumption
   DEF Init, IInv, TypeOK, Lag, Claims, Used, Distance, Index, ProducerState,
       ConsumerState

(* Every step keeps the types. *)
LEMMA TypeStep ==
  ASSUME TypeOK, [Next]_vars
  PROVE  TypeOK'
<1> USE DEF producerVars, consumerVars
<1>u. CASE UNCHANGED vars
  BY <1>u DEF vars, TypeOK
<1>1. CASE PushCall
  BY <1>1 DEF PushCall, TypeOK, ProducerState
<1>2. CASE PushReload
  BY <1>2 DEF PushReload, TypeOK, ProducerState
<1>3. CASE PushWrite
  BY <1>3 DEF PushWrite, TypeOK, ProducerState
<1>4. CASE PushPublish
  BY <1>4, NextIndexType DEF PushPublish, TypeOK, ProducerState
<1>5. CASE PopCall
  BY <1>5 DEF PopCall, TypeOK, ConsumerState
<1>6. CASE PopReload
  BY <1>6 DEF PopReload, TypeOK, ConsumerState
<1>7. CASE PopRead
  BY <1>7 DEF PopRead, TypeOK, ConsumerState
<1>8. CASE PopAdvance
  BY <1>8, NextIndexType DEF PopAdvance, TypeOK, ConsumerState
<1> QED
  BY <1>u, <1>1, <1>2, <1>3, <1>4, <1>5, <1>6, <1>7, <1>8 DEF Next, Push, Pop

(* What the invariant says of the distances between the four indices. *)
LEMMA Distances ==
  ASSUME IInv
  PROVE  /\ Used \in 0..Capacity
         /\ Distance(headCached, tail) \in 0..Capacity
         /\ Used <= Distance(headCached, tail)
         /\ producer \in {"write", "publish"} => Used < Capacity
         /\ consumer \in {"read", "advance"} => head # tail
<1> USE CapacityAssumption
<1>1. /\ head \in Index /\ tail \in Index
      /\ headCached \in Index /\ tailCached \in Index
  BY DEF IInv, TypeOK
<1>2. /\ Used \in 0..Capacity
      /\ Distance(headCached, tail) \in 0..Capacity
      /\ Distance(headCached, head) \in Nat
      /\ Distance(head, tailCached) \in Nat
  BY <1>1, DistanceType DEF Used
<1>3. Used <= Distance(headCached, tail)
  BY <1>2 DEF IInv, Lag
<1>4. producer \in {"write", "publish"} => Used < Capacity
  BY <1>2, <1>3 DEF IInv, Claims
<1>5. consumer \in {"read", "advance"} => head # tail
  <2>1. head # tailCached => Used # 0
    BY <1>1, <1>2, DistanceType DEF IInv, Lag
  <2> QED BY <1>1, <2>1, DistanceType DEF IInv, Claims, Used
<1> QED BY <1>2, <1>3, <1>4, <1>5

(* The copies never lag by more than the buffer allows. *)
LEMMA LagStep ==
  ASSUME IInv, TypeOK', [Next]_vars
  PROVE  Lag'
<1> USE DEF producerVars, consumerVars
<1>t. /\ head \in Index /\ tail \in Index
      /\ headCached \in Index /\ tailCached \in Index
  BY DEF IInv, TypeOK
<1>d. /\ Distance(headCached, head) \in Nat /\ Used \in Nat
      /\ Distance(headCached, tail) \in Nat
      /\ Distance(head, tailCached) \in Nat
  BY <1>t, DistanceType DEF Used
<1>u. CASE UNCHANGED <<head, headCached, tail, tailCached>>
  BY <1>u DEF IInv, Lag, Used, Distance
<1>2. CASE PushReload
  <2>1. Distance(head, head) = 0
    BY <1>t, DistanceType
  <2>2. headCached' = head /\ UNCHANGED <<head, tail, tailCached>>
    BY <1>2 DEF PushReload
  <2> QED BY <1>d, <2>1, <2>2 DEF IInv, Lag, Used, Distance
<1>4. CASE PushPublish
  <2>1. Distance(headCached, tail) < Capacity /\ Used < Capacity
    BY <1>4, Distances DEF PushPublish, IInv, Claims
  <2>2. /\ Distance(headCached, NextIndex(tail))
             = Distance(headCached, tail) + 1
        /\ Distance(head, NextIndex(tail)) = Distance(head, tail) + 1
    BY <1>t, <2>1, DistanceGrows DEF Used
  <2>3. tail' = NextIndex(tail) /\ UNCHANGED <<head, headCached, tailCached>>
    BY <1>4 DEF PushPublish
  <2>4. /\ Distance(headCached, head) + (Used + 1)
             = Distance(headCached, tail) + 1
        /\ Distance(head, tailCached) <= Used + 1
    BY <1>d DEF IInv, Lag
  <2> QED BY <2>2, <2>3, <2>4 DEF Lag, Used, Distance
<1>6. CASE PopReload
  <2>1. tailCached' = tail /\ UNCHANGED <<head, headCached, tail>>
    BY <1>6 DEF PopReload
  <2> QED BY <1>d, <2>1 DEF IInv, Lag, Used, Distance
<1>8. CASE PopAdvance
  <2>1. head # tail /\ head # tailCached
    BY <1>8, Distances DEF PopAdvance, IInv, Claims
  <2>2. /\ Distance(NextIndex(head), tail) = Distance(head, tail) - 1
        /\ Distance(NextIndex(head), tailCached)
             = Distance(head, tailCached) - 1
    BY <1>t, <2>1, DistanceShrinks
  <2>3. Distance(headCached, head) < Capacity
    BY <1>t, <1>d, <2>1, DistanceType, Distances, CapacityAssumption
       DEF IInv, Lag, Used
  <2>4. Distance(headCached, NextIndex(head))
          = Distance(headCached, head) + 1
    BY <1>t, <2>3, DistanceGrows
  <2>5. head' = NextIndex(head) /\ UNCHANGED <<headCached, tail, tailCached>>
    BY <1>8 DEF PopAdvance
  <2>6. /\ (Distance(headCached, head) + 1) + (Used - 1)
             = Distance(headCached, tail)
        /\ Distance(head, tailCached) - 1 <= Used - 1
    BY <1>d DEF IInv, Lag
  <2> QED BY <2>2, <2>4, <2>5, <2>6 DEF Lag, Used, Distance
<1> QED
  BY <1>u, <1>2, <1>4, <1>6, <1>8
     DEF Next, Push, Pop, PushCall, PushWrite, PopCall, PopRead, vars

(* A side that has found room, or a value, does not lose it again. *)
LEMMA ClaimsStep ==
  ASSUME IInv, TypeOK', [Next]_vars
  PROVE  Claims'
<1> USE DEF producerVars, consumerVars, Distance
<1>t. /\ head \in Index /\ tail \in Index
      /\ headCached \in Index /\ tailCached \in Index
      /\ storage \in [Index -> Value]
  BY DEF IInv, TypeOK
<1>u. CASE UNCHANGED vars
  BY <1>u DEF vars, IInv, Claims
<1>1. CASE PushCall
  <2>1. producer' = "write" => Distance(headCached, tail) < Capacity
    <3>1. NextIndex(tail) # headCached => Distance(headCached, tail) < Capacity
      BY <1>t, DistanceFull, Distances, CapacityAssumption
    <3> QED BY <1>1, <3>1 DEF PushCall
  <2> QED BY <1>1, <2>1 DEF PushCall, IInv, Claims
<1>2. CASE PushReload
  <2>1. producer' = "write" => Distance(head, tail) < Capacity
    <3>1. NextIndex(tail) # head => Distance(head, tail) < Capacity
      BY <1>t, DistanceFull, Distances, CapacityAssumption DEF Used
    <3> QED BY <1>2, <3>1 DEF PushReload
  <2> QED BY <1>2, <2>1 DEF PushReload, IInv, Claims
<1>3. CASE PushWrite
  <2>1. consumer \in {"read", "advance"} => head # tail
    BY Distances
  <2>2. storage'[tail] = item
    BY <1>3, <1>t DEF PushWrite
  <2>3. head # tail => storage'[head] = storage[head]
    BY <1>3, <1>t DEF PushWrite
  <2>4. /\ producer = "write" /\ producer' = "publish"
        /\ UNCHANGED <<headCached, tail, item, head, tailCached, consumer,
                       taken>>
    BY <1>3 DEF PushWrite
  <2> QED BY <2>1, <2>2, <2>3, <2>4 DEF IInv, Claims
<1>4. CASE PushPublish
  BY <1>4 DEF PushPublish, IInv, Claims
<1>5. CASE PopCall
  BY <1>5 DEF PopCall, IInv, Claims
<1>6. CASE PopReload
  BY <1>6 DEF PopReload, IInv, Claims
<1>7. CASE PopRead
  BY <1>7 DEF PopRead, IInv, Claims
<1>8. CASE PopAdvance
  BY <1>8 DEF PopAdvance, IInv, Claims
<1> QED
  BY <1>u, <1>1, <1>2, <1>3, <1>4, <1>5, <1>6, <1>7, <1>8 DEF Next, Push, Pop

(* The invariant holds in every reachable state, for every capacity. *)
THEOREM InductiveInvariant == Spec => []IInv
<1>1. Init => IInv
  BY InitInvariant
<1>2. IInv /\ [Next]_vars => IInv'
  BY TypeStep, LagStep, ClaimsStep DEF IInv
<1> QED BY <1>1, <1>2, PTL DEF Spec

(* The state is well-typed: no index ever leaves the storage. *)
THEOREM TypeCorrect == Spec => []TypeOK
<1>1. IInv => TypeOK
  BY DEF IInv
<1> QED BY <1>1, InductiveInvariant, PTL

(* The two threads never access the same slot at the same time. *)
THEOREM NoTearing == Spec => []NoTornValue
<1>1. IInv => NoTornValue
  BY Distances DEF NoTornValue
<1> QED BY <1>1, InductiveInvariant, PTL

-----------------------------------------------------------------------------
(* The refinement of BoundedFifo. *)

(* The slots in use, from the head on, are slots of the buffer. *)
LEMMA SlotType ==
  ASSUME IInv, NEW i \in 1..Used
  PROVE  /\ Slot(i) \in Index
         /\ Slot(i) # tail
         /\ Slot(1) = head
<1>1. head \in Index /\ tail \in Index /\ Used \in 0..Capacity
  BY Distances DEF IInv, TypeOK
<1> QED BY <1>1, CapacityAssumption DEF Slot, Used, Distance, Index

\* Queue is a sequence, as long as there are slots in use.
QueueTyped ==
  /\ Queue \in Seq(Value) /\ Len(Queue) = Used
  /\ \A i \in 1..Used : Queue[i] = storage[Slot(i)]

(* The values in the slots in use form a sequence. *)
LEMMA QueueType == IInv => QueueTyped
<1> SUFFICES ASSUME IInv PROVE QueueTyped
  OBVIOUS
<1>1. Used \in Nat
  BY Distances
<1>2. \A i \in 1..Used : storage[Slot(i)] \in Value
  BY SlotType DEF IInv, TypeOK
<1>3. Queue = [i \in 1..Used |-> storage[Slot(i)]]
  BY DEF Queue, Used
<1>4. Queue \in [1..Used -> Value]
  BY <1>2, <1>3
<1>5. Queue \in Seq(Value)
  BY <1>1, <1>4, SeqDef
<1>6. DOMAIN Queue = 1..Used /\ DOMAIN Queue = 1..Len(Queue)
  BY <1>3, <1>5, LenProperties
<1>7. Len(Queue) = Used
  BY <1>1, <1>5, <1>6, LenProperties
<1> QED BY <1>3, <1>5, <1>7 DEF QueueTyped

(* Publishing the tail appends the value that was written. *)
LEMMA PublishAppends ==
  ASSUME IInv, IInv', PushPublish
  PROVE  Queue' = Append(Queue, item) /\ Used < Capacity
<1>q. QueueTyped /\ QueueTyped'
  BY QueueType, PTL
<1>1. /\ head \in Index /\ tail \in Index /\ Used \in 0..Capacity
      /\ Used < Capacity
  BY Distances DEF IInv, TypeOK, PushPublish
<1>2. /\ tail' = NextIndex(tail) /\ head' = head /\ storage' = storage
      /\ storage[tail] = item /\ item \in Value
  BY DEF PushPublish, consumerVars, IInv, Claims, TypeOK
<1>3. Used' = Used + 1
  BY <1>1, <1>2, DistanceGrows DEF Used, Distance
<1>4. Slot(Used + 1) = tail
  BY <1>1, CapacityAssumption DEF Slot, Used, Distance, Index
<1>5. \A i \in 1..Used + 1 : Slot(i)' = Slot(i)
  BY <1>2 DEF Slot
<1>6. /\ Append(Queue, item) \in Seq(Value)
      /\ Len(Append(Queue, item)) = Used + 1
      /\ \A i \in 1..Used : Append(Queue, item)[i] = Queue[i]
      /\ Append(Queue, item)[Used + 1] = item
  BY <1>1, <1>2, <1>q, AppendProperties DEF QueueTyped
<1>7. /\ Queue' \in Seq(Value) /\ Len(Queue') = Used'
      /\ \A i \in 1..Used' : Queue'[i] = storage'[Slot(i)']
  BY <1>q DEF QueueTyped
<1>8. \A i \in 1..Used + 1 : Queue'[i] = Append(Queue, item)[i]
  <2> SUFFICES ASSUME NEW i \in 1..Used + 1
               PROVE  Queue'[i] = Append(Queue, item)[i]
    OBVIOUS
  <2>1. Queue'[i] = storage[Slot(i)]
    BY <1>2, <1>3, <1>5, <1>7
  <2>2. CASE i = Used + 1
    BY <2>1, <2>2, <1>2, <1>4, <1>6
  <2>3. CASE i \in 1..Used
    BY <2>1, <2>3, <1>6, <1>q DEF QueueTyped
  <2>4. Used \in Nat
    BY <1>1, CapacityAssumption
  <2>5. i = Used + 1 \/ i \in 1..Used
    BY <2>4
  <2> QED BY <2>2, <2>3, <2>5
<1>9. Queue' = Append(Queue, item)
  BY <1>3, <1>6, <1>7, <1>8, SeqEqual
<1> QED BY <1>1, <1>9

(* Advancing the head removes the value that was taken. *)
LEMMA AdvancePops ==
  ASSUME IInv, IInv', PopAdvance
  PROVE  Queue # <<>> /\ Head(Queue) = taken /\ Queue' = Tail(Queue)
<1>q. QueueTyped /\ QueueTyped'
  BY QueueType, PTL
<1>1. /\ head \in Index /\ tail \in Index /\ Used \in 0..Capacity
      /\ head # tail /\ Used # 0
  BY Distances, DistanceType DEF IInv, TypeOK, PopAdvance, Used
<1>2. /\ head' = NextIndex(head) /\ tail' = tail /\ storage' = storage
      /\ storage[head] = taken
  BY DEF PopAdvance, producerVars, IInv, Claims
<1>3. Used' = Used - 1
  BY <1>1, <1>2, DistanceShrinks DEF Used, Distance
<1>4. \A i \in 1..Used - 1 : Slot(i)' = Slot(i + 1)
  BY <1>1, <1>2, CapacityAssumption
     DEF Slot, NextIndex, Used, Distance, Index
<1>5. Queue # <<>>
  BY <1>1, <1>q, EmptySeq DEF QueueTyped
<1>6. Head(Queue) = taken
  <2>1. Head(Queue) = Queue[1]
    BY <1>5, <1>q DEF QueueTyped
  <2>2. Queue[1] = storage[head]
    BY <1>1, <1>q, SlotType DEF QueueTyped
  <2> QED BY <2>1, <2>2, <1>2
<1>7. /\ Tail(Queue) \in Seq(Value) /\ Len(Tail(Queue)) = Used - 1
      /\ \A i \in 1..Used - 1 : Tail(Queue)[i] = Queue[i + 1]
  BY <1>1, <1>5, <1>q, HeadTailProperties DEF QueueTyped
<1>8. /\ Queue' \in Seq(Value) /\ Len(Queue') = Used'
      /\ \A i \in 1..Used' : Queue'[i] = storage'[Slot(i)']
  BY <1>q DEF QueueTyped
<1>9. \A i \in 1..Used - 1 : Queue'[i] = Tail(Queue)[i]
  <2> SUFFICES ASSUME NEW i \in 1..Used - 1
               PROVE  Queue'[i] = Tail(Queue)[i]
    OBVIOUS
  <2>1. i + 1 \in 1..Used
    BY <1>1
  <2> QED BY <2>1, <1>2, <1>3, <1>4, <1>7, <1>8, <1>q DEF QueueTyped
<1>10. Queue' = Tail(Queue)
  BY <1>3, <1>7, <1>8, <1>9, SeqEqual
<1> QED BY <1>5, <1>6, <1>10

(* Writing the slot at the tail does not touch the queue. *)
LEMMA WriteKeeps ==
  ASSUME IInv, PushWrite
  PROVE  Queue' = Queue
<1>1. \A i \in 1..Used : storage'[Slot(i)] = storage[Slot(i)]
  BY SlotType DEF PushWrite, IInv, TypeOK
<1>2. UNCHANGED <<head, tail>>
  BY DEF PushWrite, consumerVars
<1> QED BY <1>1, <1>2 DEF Queue, Used, Distance, Slot

(* An initial buffer is an empty queue. *)
LEMMA FifoInit == Init => Fifo!Init
<1> SUFFICES ASSUME Init PROVE Fifo!Init
  OBVIOUS
<1>1. IInv /\ Used = 0
  BY InitInvariant, CapacityAssumption DEF Init, Used, Distance
<1>2. Queue = <<>>
  BY <1>1, QueueType, EmptySeq DEF QueueTyped
<1> QED BY <1>2 DEF Init, Fifo!Init

(* Every step of either side is a step of the queue or a stutter. *)
LEMMA FifoStep ==
  ASSUME IInv, IInv', [Next]_vars
  PROVE  [Fifo!Next]_(Fifo!vars)
<1> USE DEF producerVars, consumerVars
<1>s. ASSUME UNCHANGED <<head, tail, storage, accepted, delivered>>
      PROVE  UNCHANGED Fifo!vars
  BY <1>s DEF Fifo!vars, Queue, Distance, Slot
<1>u. CASE UNCHANGED vars
  BY <1>u, <1>s DEF vars
<1>1. CASE PushCall
  BY <1>1, <1>s DEF PushCall
<1>2. CASE PushReload
  <2>1. CASE NextIndex(tail) = head
    <3>1. Len(Queue) = Capacity
      BY <2>1, DistanceFull, QueueType DEF Used, IInv, TypeOK, QueueTyped
    <3>2. UNCHANGED <<head, tail, storage, delivered>> /\ accepted' = FALSE
      BY <1>2, <2>1 DEF PushReload
    <3>3. Queue' = Queue
      BY <3>2 DEF Queue, Distance, Slot
    <3> QED BY <3>1, <3>2, <3>3 DEF Fifo!Next, Fifo!Refuse
  <2>2. CASE NextIndex(tail) # head
    BY <1>2, <2>2, <1>s DEF PushReload
  <2> QED BY <2>1, <2>2
<1>3. CASE PushWrite
  <2>1. UNCHANGED <<accepted, delivered>>
    BY <1>3 DEF PushWrite
  <2> QED BY <1>3, <2>1, WriteKeeps DEF Fifo!vars
<1>4. CASE PushPublish
  <2>1. Queue' = Append(Queue, item) /\ Len(Queue) < Capacity
    BY <1>4, PublishAppends, QueueType DEF QueueTyped
  <2>2. accepted' = TRUE /\ UNCHANGED delivered /\ item \in Value
    BY <1>4 DEF PushPublish, IInv, TypeOK
  <2> QED BY <2>1, <2>2 DEF Fifo!Next, Fifo!Push
<1>5. CASE PopCall
  BY <1>5, <1>s DEF PopCall
<1>6. CASE PopReload
  <2>1. CASE head = tail
    <3>1. Queue = <<>>
      BY <2>1, DistanceType, QueueType, EmptySeq
         DEF Used, IInv, TypeOK, QueueTyped
    <3>2. UNCHANGED <<head, tail, storage, accepted>> /\ delivered' = None
      BY <1>6, <2>1 DEF PopReload
    <3>3. Queue' = Queue
      BY <3>2 DEF Queue, Distance, Slot
    <3> QED BY <3>1, <3>2, <3>3 DEF Fifo!Next, Fifo!Empty
  <2>2. CASE head # tail
    BY <1>6, <2>2, <1>s DEF PopReload
  <2> QED BY <2>1, <2>2
<1>7. CASE PopRead
  BY <1>7, <1>s DEF PopRead
<1>8. CASE PopAdvance
  <2>1. delivered' = taken /\ UNCHANGED accepted
    BY <1>8 DEF PopAdvance
  <2> QED BY <1>8, <2>1, AdvancePops DEF Fifo!Next, Fifo!Pop
<1> QED
  BY <1>u, <1>1, <1>2, <1>3, <1>4, <1>5, <1>6, <1>7, <1>8 DEF Next, Push, Pop

(* For every capacity and every set of values, the ring buffer is a bounded
   queue. *)
THEOREM ImplementsFifo == Spec => IsFifo
<1>1. IInv /\ IInv' /\ [Next]_vars => [Fifo!Next]_(Fifo!vars)
  BY FifoStep
<1> QED
  BY <1>1, FifoInit, InductiveInvariant, PTL DEF Spec, IsFifo, Fifo!Spec

=============================================================================
