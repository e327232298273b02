-------------------------------- MODULE Queue --------------------------------
(***************************************************************************)
(* lib/queue.c: the circular buffer of 32-bit words that every queue of the *)
(* kernel is made of (message queues, scan codes, mouse packets, waiting    *)
(* threads).  All four fields of queue_t are uint16_t, so the "-1" that     *)
(* queue_init and queue_add give to rear is the value UINT16_MAX.           *)
(*                                                                          *)
(* Each call is one step here.  PreemptedQueue.tla takes the calls apart    *)
(* into the steps between which an interrupt may arrive.                    *)
(***************************************************************************)
EXTENDS Integers, Sequences

CONSTANTS Size,     \* q->size
          Words,    \* the values callers store
          NULL,     \* the word 0
          UINT16_MAX \* the largest uint16_t, 65535

ASSUME QueueAssumption == /\ UINT16_MAX \in Nat
                          /\ Size \in 1..UINT16_MAX
                          /\ NULL \in Words

VARIABLES data,     \* q->data[0 .. Size-1]
          count,    \* q->count
          rear,     \* q->rear: the slot written last, or MinusOne
          front,    \* q->front: the slot read next
          ret       \* the value the last queue_remove or queue_peek returned

vars == <<data, count, rear, front, ret>>

Slots == 0 .. Size - 1

MinusOne == UINT16_MAX   \* (uint16_t) -1

\* ++x on a uint16_t
Inc16(x) == IF x = UINT16_MAX THEN 0 ELSE x + 1

-----------------------------------------------------------------------------
(* The operations.                                                          *)

\* malloc does not clear the array, so its first contents are arbitrary.
queue_init == /\ front = 0
              /\ rear = MinusOne
              /\ count = 0
              /\ data \in [Slots -> Words]
              /\ ret = NULL

queue_peek == /\ ret' = IF count = 0 THEN NULL ELSE data[front]
              /\ UNCHANGED <<data, count, rear, front>>

\* (variant) the wrap restarts at slot 0 before the increment
NextRear_skip(r) == Inc16(IF r = Size - 1 THEN 0 ELSE r)

\* The slot queue_add writes: rear restarts at -1 when it is the last slot.
NextRear(r) == Inc16(IF r = Size - 1 THEN MinusOne ELSE r)

\* (variant) an off-by-one in the test for room
queue_add_full(ptr) ==
    /\ count <= Size
    /\ rear' = NextRear(rear)
    /\ data' = [data EXCEPT ![rear'] = ptr]
    /\ count' = count + 1
    /\ UNCHANGED <<front, ret>>

queue_add(ptr) ==
    \/ /\ count < Size
       /\ rear' = NextRear(rear)
       /\ data' = [data EXCEPT ![rear'] = ptr]
       /\ count' = count + 1
       /\ UNCHANGED <<front, ret>>
    \/ /\ count >= Size
       /\ UNCHANGED vars

\* The slot read after slot f.
NextFront(f) == IF f + 1 = Size THEN 0 ELSE f + 1

\* (variant) the youngest word is returned
queue_remove_lifo ==
    /\ count # 0
    /\ ret' = data[rear]
    /\ front' = NextFront(front)
    /\ count' = count - 1
    /\ UNCHANGED <<data, rear>>

queue_remove ==
    \/ /\ count = 0
       /\ ret' = NULL
       /\ UNCHANGED <<data, count, rear, front>>
    \/ /\ count # 0
       /\ ret' = data[front]
       /\ front' = NextFront(front)
       /\ count' = count - 1
       /\ UNCHANGED <<data, rear>>

Next == (\E ptr \in Words : queue_add(ptr)) \/ queue_remove \/ queue_peek

Spec == queue_init /\ [][Next]_vars

-----------------------------------------------------------------------------
(* What the words in the ring mean.                                         *)

\* The slot of the k-th oldest word, k = 1 .. count.
SlotOf(k) == IF front + k - 1 < Size THEN front + k - 1 ELSE front + k - 1 - Size

Contents == [k \in 1..count |-> data[SlotOf(k)]]

Fifo == INSTANCE BoundedFifo WITH fifo <- Contents, answer <- ret

-----------------------------------------------------------------------------
(* Properties.                                                              *)

TypeOK == /\ data \in [Slots -> Words]
          /\ count \in 0..Size
          /\ rear \in Slots \cup {MinusOne}
          /\ front \in Slots
          /\ ret \in Words

\* count, front and rear never disagree: rear is always the slot just before
\* the one where the next word goes, whatever sequence of adds and removes,
\* wraps and full-queue drops led here.  queue_add trusts rear and count,
\* queue_remove trusts front and count, and no code compares the three.
IndicesAgree == LET end == front + count
                IN  \/ count = 0 /\ front = 0 /\ rear = MinusOne
                    \/ rear = IF end = 0 THEN Size - 1
                              ELSE IF end <= Size THEN end - 1
                              ELSE end - 1 - Size

\* Every behaviour of the ring is one of a lossy bounded FIFO: no word is
\* duplicated, reordered or lost once queue_add stored it.
ImplementsFifo == Fifo!FifoSpec
=============================================================================
