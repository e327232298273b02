----------------------------- MODULE BoundedFifo -----------------------------
(***************************************************************************)
(* What lib/queue.c promises its callers (include/queue.h): a first-in      *)
(* first-out queue of machine words that holds at most Size of them.  An    *)
(* add to a full queue is dropped without notice, and a remove or a peek of *)
(* an empty queue answers NULL, which is also a word a caller may store.    *)
(***************************************************************************)
EXTENDS Naturals, Sequences

CONSTANTS Size,     \* capacity given to queue_init
          Words,    \* the 32-bit values callers store
          NULL      \* the word 0

VARIABLES fifo,     \* the stored words, oldest first
          answer    \* what the last remove or peek returned

fifoVars == <<fifo, answer>>

FifoInit == fifo = <<>> /\ answer = NULL

Add(w) == /\ fifo' = IF Len(fifo) < Size THEN Append(fifo, w) ELSE fifo
          /\ UNCHANGED answer

Remove == \/ fifo = <<>> /\ answer' = NULL /\ UNCHANGED fifo
          \/ fifo # <<>> /\ answer' = Head(fifo) /\ fifo' = Tail(fifo)

Peek == /\ answer' = IF fifo = <<>> THEN NULL ELSE Head(fifo)
        /\ UNCHANGED fifo

FifoNext == (\E w \in Words : Add(w)) \/ Remove \/ Peek

FifoSpec == FifoInit /\ [][FifoNext]_fifoVars
=============================================================================
