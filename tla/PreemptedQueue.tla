--------------------------- MODULE PreemptedQueue ---------------------------
(***************************************************************************)
(* lib/queue.c when a call is interrupted.  Nothing in the kernel locks a   *)
(* queue or disables interrupts around a call, so a call a thread has begun *)
(* (the "low" call) may be suspended between two memory accesses while a    *)
(* whole call on the same queue (a "high" one) runs:                        *)
(*                                                                          *)
(*   kb_queue, mouse_queue    low: the driver thread's queue_remove         *)
(*                            high: queue_add by the device's interrupt     *)
(*   a thread's message_queue low: queue_add by the mouse thread            *)
(*                            high: queue_add by the keyboard thread and    *)
(*                            queue_remove by the receiver, after a tick    *)
(*                                                                          *)
(* The kernel is compiled without optimisation: count++, count-- and ++rear *)
(* are a load, an addition in a register and a store.                       *)
(***************************************************************************)
EXTENDS Queue

CONSTANTS Sharings,     \* who shares the queue, one of them in a behaviour:
                        \*   "device"    a driver removes, its device adds
                        \*   "receiver"  a thread adds, another removes
                        \*   "producers" a thread adds, others add and remove
          MaxAdds       \* bound on the number of words added

ASSUME CallsAssumption == /\ Sharings \subseteq {"device", "receiver", "producers"}
                          /\ MaxAdds \in Nat
                          /\ Words = 0 .. MaxAdds

VARIABLES sharing,
          at,       \* where the low call is, "out" when there is none
          reg,      \* the register the low call has loaded
          word,     \* the word the low queue_add stores
          accepted, \* history: the words stored, in order; words are numbered
          taken,    \* history: the words removes returned, in order
          lapped,   \* history: an add overwrote a word not yet removed
          between,  \* history: an add ran between a wrap test and its ++rear
          outside   \* the low queue_add wrote outside q->data

history == <<accepted, taken, lapped, between>>
low == <<at, reg, word>>
pvars == <<vars, sharing, low, history, outside>>

\* The calls the interruptible thread makes, and those that run inside them.
LowCall == IF sharing = "device" THEN "remove" ELSE "add"
HighCalls == CASE sharing = "device" -> {"add"}
               [] sharing = "receiver" -> {"remove"}
               [] sharing = "producers" -> {"add", "remove"}

\* The words stored and not yet returned.
Unread == Len(accepted) - Len(taken)

\* Every add stores a new number, so that each word is told apart.
NewWord == 1 + Len(accepted) + (IF word = NULL THEN 0 ELSE 1)

-----------------------------------------------------------------------------
(* A whole call, on top of whatever the low call was doing.                 *)

high_add ==
    /\ "add" \in HighCalls
    /\ NewWord <= MaxAdds
    /\ queue_add(NewWord)
    /\ IF count < Size
       THEN /\ accepted' = Append(accepted, NewWord)
            /\ lapped' = (lapped \/ Unread >= Size)
       ELSE UNCHANGED <<accepted, lapped>>
    /\ between' = (between \/ (count < Size /\ at = "rear_load"))
    /\ UNCHANGED <<low, taken, outside>>

high_remove ==
    /\ "remove" \in HighCalls
    /\ queue_remove
    /\ taken' = IF count = 0 THEN taken ELSE Append(taken, ret')
    /\ UNCHANGED <<low, accepted, lapped, between, outside>>

-----------------------------------------------------------------------------
(* queue_remove, step by step.  No high call moves front.                   *)

remove_test ==
    /\ LowCall = "remove"
    /\ at = "out"
    /\ IF count = 0 THEN ret' = NULL /\ UNCHANGED at
                    ELSE at' = "take" /\ UNCHANGED ret
    /\ UNCHANGED <<data, count, rear, front, reg, word, history, outside>>

\* (variant) front is advanced before the word is read
remove_take_next ==
    /\ at = "take"
    /\ ret' = data[NextFront(front)]
    /\ front' = NextFront(front)
    /\ taken' = Append(taken, ret')
    /\ at' = "dec_load"
    /\ UNCHANGED <<data, count, rear, reg, word, accepted, lapped, between, outside>>

\* (variant) front wraps one slot late
remove_take_late ==
    /\ at = "take"
    /\ ret' = data[front]
    /\ front' = IF front = Size THEN 0 ELSE front + 1
    /\ taken' = Append(taken, data[front])
    /\ at' = "dec_load"
    /\ UNCHANGED <<data, count, rear, reg, word, accepted, lapped, between, outside>>

remove_take ==
    /\ at = "take"
    /\ ret' = data[front]
    /\ front' = NextFront(front)
    /\ taken' = Append(taken, data[front])
    /\ at' = "dec_load"
    /\ UNCHANGED <<data, count, rear, reg, word, accepted, lapped, between, outside>>

remove_count_load ==
    /\ at = "dec_load"
    /\ reg' = count
    /\ at' = "dec_store"
    /\ UNCHANGED <<vars, word, history, outside>>

\* (variant) the register is stored back undiminished
remove_count_keep ==
    /\ at = "dec_store"
    /\ count' = reg
    /\ reg' = 0
    /\ at' = "out"
    /\ UNCHANGED <<data, rear, front, ret, word, history, outside>>

remove_count_store ==
    /\ at = "dec_store"
    /\ count' = reg - 1
    /\ reg' = 0
    /\ at' = "out"
    /\ UNCHANGED <<data, rear, front, ret, word, history, outside>>

-----------------------------------------------------------------------------
(* queue_add, step by step.                                                 *)

add_test ==
    /\ LowCall = "add"
    /\ at = "out"
    /\ NewWord <= MaxAdds
    /\ count < Size
    /\ word' = NewWord
    /\ at' = "wrap"
    /\ UNCHANGED <<vars, reg, history, outside>>

\* if( q->rear == (q->size - 1) ): the test ...
add_wrap_test ==
    /\ at = "wrap"
    /\ at' = IF rear = Size - 1 THEN "wrap_store" ELSE "rear_load"
    /\ UNCHANGED <<vars, reg, word, history, outside>>

\* ... and q->rear = -1
add_wrap_store ==
    /\ at = "wrap_store"
    /\ rear' = MinusOne
    /\ at' = "rear_load"
    /\ UNCHANGED <<data, count, front, ret, reg, word, history, outside>>

add_rear_load ==
    /\ at = "rear_load"
    /\ reg' = Inc16(rear)
    /\ at' = "rear_store"
    /\ UNCHANGED <<vars, word, history, outside>>

add_rear_store ==
    /\ at = "rear_store"
    /\ rear' = reg
    /\ at' = "data"
    /\ UNCHANGED <<data, count, front, ret, reg, word, history, outside>>

\* (variant) the word goes behind rear
add_data_next ==
    /\ at = "data"
    /\ IF rear + 1 \in Slots THEN data' = [data EXCEPT ![rear + 1] = word] /\ UNCHANGED outside
                             ELSE outside' = TRUE /\ UNCHANGED data
    /\ at' = "inc_load"
    /\ UNCHANGED <<count, rear, front, ret, reg, word, history>>

\* q->data[++q->rear] = data: rear is read again for the index
add_data ==
    /\ at = "data"
    /\ IF rear \in Slots THEN data' = [data EXCEPT ![rear] = word] /\ UNCHANGED outside
                         ELSE outside' = TRUE /\ UNCHANGED data
    /\ at' = "inc_load"
    /\ UNCHANGED <<count, rear, front, ret, reg, word, history>>

add_count_load ==
    /\ at = "inc_load"
    /\ reg' = count
    /\ at' = "inc_store"
    /\ UNCHANGED <<vars, word, history, outside>>

add_count_store ==
    /\ at = "inc_store"
    /\ count' = reg + 1
    /\ accepted' = Append(accepted, word)
    /\ lapped' = (lapped \/ Unread >= Size)
    /\ word' = NULL
    /\ reg' = 0
    /\ at' = "out"
    /\ UNCHANGED <<data, rear, front, ret, taken, between, outside>>

-----------------------------------------------------------------------------
PInit == /\ queue_init
         /\ sharing \in Sharings
         /\ data = [s \in Slots |-> NULL]
         /\ at = "out" /\ reg = 0 /\ word = NULL
         /\ accepted = <<>> /\ taken = <<>>
         /\ lapped = FALSE /\ between = FALSE /\ outside = FALSE

\* What an out-of-bounds store does to the rest of the kernel is not
\* modelled: the behaviour stops there.
PNext == /\ ~outside
         /\ UNCHANGED sharing
         /\ \/ high_add \/ high_remove
            \/ remove_test \/ remove_take \/ remove_count_load \/ remove_count_store
            \/ add_test \/ add_wrap_test \/ add_wrap_store \/ add_rear_load \/ add_rear_store
            \/ add_data \/ add_count_load \/ add_count_store

PSpec == PInit /\ [][PNext]_pvars

-----------------------------------------------------------------------------
(* Properties.                                                              *)

\* Interrupted or not, a queue_remove under adds, or a queue_add under removes,
\* leaves count, front and rear inside the array and its capacity.
IndicesInRange == sharing # "producers" => /\ data \in [Slots -> Words]
                                           /\ count \in 0 .. Size
                                           /\ rear \in Slots \cup {MinusOne}
                                           /\ front \in Slots
                                           /\ reg \in 0 .. Size

\* Interrupts inside a driver's queue_remove delay words, and nothing else: as
\* long as no add has lapped the reader, what the removes returned is exactly
\* what was stored first, in order, with nothing lost or repeated.
InOrderUntilLapped ==
    sharing = "device" /\ ~lapped =>
        /\ Len(taken) <= Len(accepted)
        /\ \A i \in 1 .. Len(taken) : taken[i] = accepted[i]

\* A lost update of a driver's count only ever hides words: queue_size, which
\* include/queue.h:21 calls the "number of elements", never reports more than
\* there are, so a remove that succeeds has something to return.
SizeNeverOverstates == sharing = "device" /\ at = "out" => count <= Unread

\* A queue_add that found room writes outside the array only if another
\* producer's whole queue_add ran between its wrap test and its ++rear; no other
\* interruption by adds and removes leads out of the array.
OutsideNeedsProducer == outside => between
=============================================================================
