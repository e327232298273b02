----------------------------- MODULE QueueProofs -----------------------------
(***************************************************************************)
(* Proofs about lib/queue.c for every capacity that fits its field and for *)
(* every set of words: the type invariant, the agreement of the three      *)
(* indices, the refinement of the lossy bounded FIFO, and what is left of   *)
(* these when interrupts and other threads come into a call.                *)
(***************************************************************************)
EXTENDS PreemptedQueue, SequenceTheorems, TLAPS

\* The invariant the other results rest on.
Inv == TypeOK /\ IndicesAgree

\* The first state of a queue satisfies the invariant.
LEMMA InitInv == queue_init => Inv
BY QueueAssumption DEF queue_init, Inv, TypeOK, IndicesAgree, Slots, MinusOne

\* NextRear is the slot after the youngest word, and a slot of the array.
LEMMA NextRearSlot ==
    ASSUME Inv, count < Size
    PROVE  /\ NextRear(rear) = SlotOf(count + 1)
           /\ NextRear(rear) \in Slots
BY QueueAssumption
   DEF Inv, TypeOK, IndicesAgree, Slots, MinusOne, NextRear, Inc16, SlotOf

\* Every call of queue_add, queue_remove and queue_peek keeps the types and
\* the agreement of count, front and rear.
LEMMA NextInv == Inv /\ [Next]_vars => Inv'
<1> SUFFICES ASSUME Inv, [Next]_vars PROVE Inv'
    OBVIOUS
<1> USE QueueAssumption
<1>1. ASSUME NEW ptr \in Words, queue_add(ptr) PROVE Inv'
    <2>1. CASE count < Size
        <3>1. /\ rear' = NextRear(rear)
              /\ data' = [data EXCEPT ![rear'] = ptr]
              /\ count' = count + 1
              /\ UNCHANGED <<front, ret>>
              BY <1>1, <2>1 DEF queue_add, Inv, TypeOK
        <3>2. rear' \in Slots
              BY <2>1, <3>1, NextRearSlot
        <3>3. TypeOK'
              BY <2>1, <3>1, <3>2 DEF Inv, TypeOK, Slots
        <3>4. IndicesAgree'
              BY <2>1, <3>1, NextRearSlot DEF Inv, TypeOK, IndicesAgree, SlotOf, Slots
        <3> QED BY <3>3, <3>4 DEF Inv
    <2>2. CASE count >= Size
          BY <1>1, <2>2 DEF queue_add, Inv, TypeOK, IndicesAgree, vars
    <2> QED BY <2>1, <2>2 DEF Inv, TypeOK
<1>2. CASE queue_remove
    <2>1. CASE count = 0
          BY <1>2, <2>1 DEF queue_remove, Inv, TypeOK, IndicesAgree
    <2>2. CASE count # 0
        <3>1. TypeOK'
              BY <1>2, <2>2 DEF queue_remove, Inv, TypeOK, NextFront, Slots
        <3>2. IndicesAgree'
              BY <1>2, <2>2 DEF queue_remove, Inv, TypeOK, IndicesAgree, NextFront, Slots, MinusOne
        <3> QED BY <3>1, <3>2 DEF Inv
    <2> QED BY <2>1, <2>2
<1>3. CASE queue_peek
      BY <1>3 DEF queue_peek, Inv, TypeOK, IndicesAgree, Slots
<1>4. CASE UNCHANGED vars
      BY <1>4 DEF vars, Inv, TypeOK, IndicesAgree
<1> QED BY <1>1, <1>2, <1>3, <1>4 DEF Next

\* The type invariant holds of every queue the kernel makes: in particular no
\* call ever touches a word outside q->data.
THEOREM TypeCorrect == Spec => []TypeOK
<1>1. Inv => TypeOK
      BY DEF Inv
<1> QED BY InitInv, NextInv, <1>1, PTL DEF Spec

\* count, front and rear agree after every sequence of calls.
THEOREM IndicesAlwaysAgree == Spec => []IndicesAgree
<1>1. Inv => IndicesAgree
      BY DEF Inv
<1> QED BY InitInv, NextInv, <1>1, PTL DEF Spec

-----------------------------------------------------------------------------
(* The refinement.                                                          *)

\* Append and Tail of a sequence, written index by index.
LEMMA AppendByIndex ==
    ASSUME NEW S, NEW s \in Seq(S), NEW e \in S, NEW t,
           t = [k \in 1..(Len(s) + 1) |-> IF k = Len(s) + 1 THEN e ELSE s[k]]
    PROVE  t = Append(s, e)
<1>1. Len(s) \in Nat /\ \A k \in 1..Len(s) : s[k] \in S
      BY LenProperties, ElementOfSeq
<1>2. t \in Seq(S) /\ Len(t) = Len(s) + 1
      BY <1>1
<1>3. \A k \in 1..Len(t) : t[k] = Append(s, e)[k]
    <2>1. \A k \in 1..Len(s) : t[k] = Append(s, e)[k]
          BY <1>1, AppendProperties
    <2>2. t[Len(s) + 1] = Append(s, e)[Len(s) + 1]
          BY <1>1, AppendProperties
    <2>3. \A k \in 1..Len(t) : k \in 1..Len(s) \/ k = Len(s) + 1
          BY <1>1, <1>2
    <2> QED BY <2>1, <2>2, <2>3, Zenon
<1>4. Append(s, e) \in Seq(S) /\ Len(Append(s, e)) = Len(t)
      BY <1>2, AppendProperties
<1> QED BY <1>2, <1>3, <1>4, SeqEqual, Zenon

LEMMA TailByIndex ==
    ASSUME NEW S, NEW s \in Seq(S), s # <<>>, NEW t,
           t = [k \in 1..(Len(s) - 1) |-> s[k + 1]]
    PROVE  t = Tail(s)
<1>1. Len(s) \in Nat \ {0} /\ \A k \in 1..Len(s) : s[k] \in S
      BY LenProperties, ElementOfSeq, EmptySeq
<1>2. t \in Seq(S) /\ Len(t) = Len(s) - 1
      BY <1>1
<1>3. Tail(s) \in Seq(S) /\ Len(Tail(s)) = Len(s) - 1
      BY HeadTailProperties
<1>4. \A k \in 1..Len(t) : t[k] = Tail(s)[k]
      BY <1>1, <1>2, <1>3, HeadTailProperties
<1> QED BY <1>2, <1>3, <1>4, SeqEqual

\* The words of the ring form a sequence of length count.
LEMMA ContentsSeq ==
    ASSUME Inv
    PROVE  /\ Contents \in Seq(Words)
           /\ Len(Contents) = count
           /\ (Contents = <<>>) <=> (count = 0)
<1> USE QueueAssumption DEF Inv, TypeOK
<1>1. \A k \in 1..count : data[SlotOf(k)] \in Words
      BY DEF SlotOf, Slots
<1>2. Contents \in Seq(Words)
      BY <1>1 DEF Contents
<1>3. Len(Contents) = count
      BY DEF Contents
<1> QED BY <1>2, <1>3

\* queue_add is Add of the abstract queue.
LEMMA AddStep == ASSUME Inv, NEW ptr \in Words, queue_add(ptr)
                 PROVE  Fifo!Add(ptr)
<1> USE QueueAssumption
<1>1. CASE count < Size
    <2>1. /\ rear' = SlotOf(count + 1)
          /\ data' = [data EXCEPT ![SlotOf(count + 1)] = ptr]
          /\ count' = count + 1
          /\ SlotOf(count + 1) \in Slots
          /\ UNCHANGED <<front, ret>>
          BY <1>1, NextRearSlot DEF queue_add, Inv, TypeOK
    <2>2. \A k \in 1..count : SlotOf(k) # SlotOf(count + 1)
          BY <1>1 DEF SlotOf, Inv, TypeOK, Slots
    <2>3. \A k \in 1..(count + 1) : SlotOf(k)' = SlotOf(k)
          BY <2>1 DEF SlotOf
    <2>4. \A k \in 1..count : data'[SlotOf(k)'] = data[SlotOf(k)]
          BY <2>1, <2>2, <2>3 DEF Inv, TypeOK, SlotOf, Slots
    <2>5. \A k \in 1..(count + 1) : k = count + 1 => data'[SlotOf(k)'] = ptr
          BY <2>1, <2>3 DEF Inv, TypeOK
    <2>6. Contents' = [k \in 1..(count + 1) |-> data'[SlotOf(k)']]
          BY <2>1 DEF Contents
    <2> DEFINE C == Contents
               D == Contents'
    <2>7. C \in Seq(Words) /\ Len(C) = count
          BY ContentsSeq
    <2>8. \A k \in 1..(count + 1) : k # count + 1 => data'[SlotOf(k)'] = C[k]
          BY <2>4 DEF Contents, Inv, TypeOK
    <2>9. D = [k \in 1..(count + 1) |-> IF k = count + 1 THEN ptr ELSE C[k]]
          BY <2>5, <2>6, <2>8
    <2> HIDE DEF C, D
    <2>10. D = Append(C, ptr)
          BY <2>7, <2>9, AppendByIndex, ZenonT(30)
    <2> QED BY <1>1, <2>1, <2>7, <2>10 DEF C, D, Fifo!Add
<1>2. CASE count >= Size
    <2>1. UNCHANGED vars
          BY <1>1, <1>2 DEF queue_add, Inv, TypeOK
    <2>2. Contents' = Contents
          BY <2>1 DEF Contents, SlotOf, vars
    <2> QED BY <1>2, <2>1, <2>2, ContentsSeq DEF Fifo!Add, vars, Inv, TypeOK
<1> QED BY <1>1, <1>2 DEF Inv, TypeOK

\* queue_remove is Remove of the abstract queue.
LEMMA RemoveStep == ASSUME Inv, queue_remove
                    PROVE  Fifo!Remove
<1> USE QueueAssumption
<1>1. CASE count = 0
    <2>1. Contents' = Contents
          BY <1>1 DEF queue_remove, Contents, SlotOf
    <2> QED BY <1>1, <2>1, ContentsSeq DEF queue_remove, Fifo!Remove
<1>2. CASE count # 0
    <2>1. /\ ret' = data[front]
          /\ front' = NextFront(front)
          /\ count' = count - 1
          /\ UNCHANGED <<data, rear>>
          BY <1>2 DEF queue_remove
    <2>2. \A k \in 1..(count - 1) : SlotOf(k)' = SlotOf(k + 1)
          BY <1>2, <2>1 DEF SlotOf, NextFront, Inv, TypeOK, Slots
    <2>3. Contents' = [k \in 1..(count - 1) |-> data[SlotOf(k + 1)]]
          BY <2>1, <2>2 DEF Contents
    <2>4. SlotOf(1) = front
          BY DEF SlotOf, Inv, TypeOK, Slots
    <2> DEFINE C == Contents
    <2>5. C \in Seq(Words) /\ Len(C) = count /\ C # <<>>
          BY <1>2, ContentsSeq
    <2>6. Head(C) = data[front]
          BY <1>2, <2>4, <2>5 DEF Contents, Inv, TypeOK
    <2>7. Contents' = [k \in 1..(count - 1) |-> C[k + 1]]
        <3>1. \A k \in 1..(count - 1) : C[k + 1] = data[SlotOf(k + 1)]
              BY DEF Contents, Inv, TypeOK
        <3> QED BY <2>3, <3>1
    <2> HIDE DEF C
    <2>8. Contents' = Tail(C)
          BY <2>5, <2>7, TailByIndex
    <2> QED BY <2>1, <2>5, <2>6, <2>8 DEF C, Fifo!Remove
<1> QED BY <1>1, <1>2

\* queue_peek is Peek of the abstract queue.
LEMMA PeekStep == ASSUME Inv, queue_peek
                  PROVE  Fifo!Peek
<1> USE QueueAssumption
<1>1. Contents' = Contents
      BY DEF queue_peek, Contents, SlotOf
<1>2. count # 0 => Head(Contents) = data[front]
    <2>1. SlotOf(1) = front
          BY DEF SlotOf, Inv, TypeOK, Slots
    <2> QED BY <2>1, ContentsSeq DEF Contents, Inv, TypeOK
<1> QED BY <1>1, <1>2, ContentsSeq DEF queue_peek, Fifo!Peek

\* The ring buffer implements the lossy bounded FIFO, for every capacity and
\* every sequence of calls: what queue_add stored comes out once, in order.
THEOREM QueueImplementsFifo == Spec => ImplementsFifo
<1>1. queue_init => Fifo!FifoInit
    <2> SUFFICES ASSUME queue_init PROVE Fifo!FifoInit
        OBVIOUS
    <2> QED BY InitInv, ContentsSeq DEF queue_init, Fifo!FifoInit
<1>2. Inv /\ [Next]_vars => [Fifo!FifoNext]_Fifo!fifoVars
    <2> SUFFICES ASSUME Inv, [Next]_vars PROVE [Fifo!FifoNext]_Fifo!fifoVars
        OBVIOUS
    <2>1. ASSUME NEW ptr \in Words, queue_add(ptr) PROVE Fifo!FifoNext
          BY <2>1, AddStep DEF Fifo!FifoNext
    <2>2. CASE queue_remove
          BY <2>2, RemoveStep DEF Fifo!FifoNext
    <2>3. CASE queue_peek
          BY <2>3, PeekStep DEF Fifo!FifoNext
    <2>4. CASE UNCHANGED vars
          BY <2>4 DEF vars, Fifo!fifoVars, Contents, SlotOf
    <2> QED BY <2>1, <2>2, <2>3, <2>4 DEF Next
<1> QED BY <1>1, <1>2, InitInv, NextInv, PTL DEF Spec, ImplementsFifo, Fifo!FifoSpec

-----------------------------------------------------------------------------
(* The calls taken apart, under whole calls of others (PreemptedQueue).     *)

RemoveSteps == {"take", "dec_load", "dec_store"}
AddSteps == {"wrap", "wrap_store", "rear_load", "rear_store", "data", "inc_load", "inc_store"}

\* The types, and which thread may be in which call.
CallTypes ==
    /\ sharing \in {"device", "receiver", "producers"}
    /\ data \in [Slots -> Words] /\ front \in Slots
    /\ count \in Nat /\ rear \in Nat /\ reg \in Nat
    /\ word \in Words /\ ret \in Words
    /\ accepted \in Seq(Words) /\ taken \in Seq(Words)
    /\ at \in {"out"} \cup RemoveSteps \cup AddSteps
    /\ at \in RemoveSteps => sharing = "device"
    /\ at \in AddSteps => sharing # "device"
    /\ at \in {"take", "dec_load"} => count >= 1
    /\ at = "dec_store" => 1 <= reg /\ reg <= count

\* Where rear may be, until a second producer's add falls between a wrap test
\* and its ++rear.
RearInv ==
    /\ ~between => /\ rear \in Slots \cup {MinusOne}
                   /\ at = "rear_load" => rear # Size - 1
                   /\ at = "rear_store" => reg \in Slots
                   /\ at = "data" => rear \in Slots
    /\ sharing # "producers" => ~between
    /\ outside => between

\* With one producer, the room a queue_add found stays: a remove only makes more.
RoomInv ==
    sharing # "producers" =>
        /\ count <= Size /\ reg <= Size
        /\ at \in AddSteps \ {"inc_store"} => count < Size
        /\ at = "inc_store" => reg < Size

\* A count that was lost hides words; one that is about to be stored is right.
CountInv ==
    sharing = "device" =>
        /\ at \in {"out", "take"} => count <= Unread
        /\ at \in {"dec_load", "dec_store"} => count - 1 <= Unread

CallInv == CallTypes /\ RearInv /\ RoomInv /\ CountInv

\* PInit starts with the invariant.
LEMMA InitCalls == PInit => CallInv
BY QueueAssumption, CallsAssumption
   DEF PInit, queue_init, CallInv, CallTypes, RearInv, RoomInv, CountInv, Slots, MinusOne, Unread,
       RemoveSteps, AddSteps

\* The slot queue_add writes is one of the array wherever rear may be.
LEMMA NextRearInside ==
    ASSUME rear \in Slots \cup {MinusOne}
    PROVE  /\ NextRear(rear) \in Slots
           /\ rear # Size - 1 => Inc16(rear) \in Slots
BY QueueAssumption DEF Slots, MinusOne, NextRear, Inc16

\* The number of the next word is a word, if the bound allows it.
LEMMA NewWordInWords == ASSUME CallTypes, NewWord <= MaxAdds PROVE NewWord \in Words
BY CallsAssumption DEF CallTypes, NewWord

\* A whole queue_add, inside or outside another call, keeps the invariant.
LEMMA HighAddKeeps == ASSUME CallInv, high_add, UNCHANGED sharing PROVE CallInv'
<1> USE QueueAssumption
<1>1. /\ sharing # "receiver" /\ NewWord \in Words /\ queue_add(NewWord)
      /\ UNCHANGED <<at, reg, word, taken, outside>>
      BY NewWordInWords DEF high_add, HighCalls, CallInv, CallTypes, low
<1>2. CASE count < Size
    <2>1. /\ rear' = NextRear(rear) /\ count' = count + 1
          /\ data' = [data EXCEPT ![rear'] = NewWord]
          /\ UNCHANGED <<front, ret>>
          BY <1>1, <1>2 DEF queue_add, CallInv, CallTypes
    <2>2. accepted' = Append(accepted, NewWord)
          BY <1>2 DEF high_add
    <2>3. between' <=> between \/ at = "rear_load"
          BY <1>2, Zenon DEF high_add
    <2>4. rear' \in Nat
          BY <2>1 DEF NextRear, Inc16, MinusOne, CallInv, CallTypes
    <2>5. CallTypes'
        <3>1. data' \in [Slots -> Words]
              BY <1>1, <2>1 DEF CallInv, CallTypes
        <3>2. accepted' \in Seq(Words)
              BY <1>1, <2>2 DEF CallInv, CallTypes
        <3>3. count' \in Nat /\ count' > count
              BY <2>1 DEF CallInv, CallTypes
        <3> QED BY <1>1, <2>1, <2>4, <3>1, <3>2, <3>3 DEF CallInv, CallTypes
    <2>6. RearInv'
        <3>1. ~between' => ~between /\ at # "rear_load"
              BY <2>3
        <3>2. ~between => rear' \in Slots
              BY <2>1, NextRearInside DEF CallInv, RearInv
        <3>3. sharing # "producers" => at # "rear_load"
              BY <1>1 DEF CallInv, CallTypes, AddSteps
        <3>4. (sharing # "producers" => ~between') /\ (outside => between')
              BY <2>3, <3>3 DEF CallInv, RearInv
        <3> QED BY <1>1, <3>1, <3>2, <3>4 DEF CallInv, RearInv
    <2>7. RoomInv'
          BY <1>1, <1>2, <2>1 DEF CallInv, CallTypes, RoomInv, AddSteps
    <2>8. CountInv'
          BY <1>1, <2>1, <2>2 DEF CallInv, CallTypes, CountInv, Unread
    <2> QED BY <2>5, <2>6, <2>7, <2>8 DEF CallInv
<1>3. CASE ~(count < Size)
    <2>1. UNCHANGED vars /\ UNCHANGED accepted
          BY <1>1, <1>3 DEF queue_add, high_add, CallInv, CallTypes
    <2>2. between' <=> between
          BY <1>3, Zenon DEF high_add
    <2> QED BY <1>1, <2>1, <2>2
            DEF CallInv, CallTypes, RearInv, RoomInv, CountInv, Unread, vars, RemoveSteps, AddSteps
<1> QED BY <1>2, <1>3

\* So does a whole queue_remove, which never runs inside another remove.
LEMMA HighRemoveKeeps == ASSUME CallInv, high_remove, UNCHANGED sharing PROVE CallInv'
<1> USE QueueAssumption
<1>1. /\ sharing # "device" /\ queue_remove /\ UNCHANGED <<at, reg, word, accepted, between, outside>>
      BY DEF high_remove, HighCalls, CallInv, CallTypes, low
<1>2. at \notin RemoveSteps
      BY <1>1 DEF CallInv, CallTypes
<1>3. CASE count = 0
    <2>1. UNCHANGED <<data, count, rear, front, taken>> /\ ret' = NULL
          BY <1>1, <1>3 DEF queue_remove, high_remove
    <2> QED BY <1>1, <1>2, <2>1
            DEF CallInv, CallTypes, RearInv, RoomInv, CountInv, RemoveSteps, AddSteps
<1>4. CASE count # 0
    <2>1. /\ ret' = data[front] /\ front' = NextFront(front) /\ count' = count - 1
          /\ UNCHANGED <<data, rear>> /\ taken' = Append(taken, ret')
          BY <1>1, <1>4 DEF queue_remove, high_remove
    <2>2. front' \in Slots /\ ret' \in Words
          BY <2>1 DEF NextFront, Slots, CallInv, CallTypes
    <2>3. CallTypes'
          BY <1>1, <1>2, <1>4, <2>1, <2>2 DEF CallInv, CallTypes, RemoveSteps, AddSteps
    <2>4. RearInv' /\ RoomInv' /\ CountInv'
          BY <1>1, <2>1 DEF CallInv, CallTypes, RearInv, RoomInv, CountInv
    <2> QED BY <2>3, <2>4 DEF CallInv
<1> QED BY <1>3, <1>4

\* The steps of an interruptible queue_remove.
LEMMA RemoveStepsKeep ==
    ASSUME CallInv, UNCHANGED sharing,
           remove_test \/ remove_take \/ remove_count_load \/ remove_count_store
    PROVE  CallInv'
<1> USE QueueAssumption
<1>1. CASE remove_test
    <2>1. sharing = "device" /\ at = "out"
          BY <1>1 DEF remove_test, LowCall
    <2> QED BY <1>1, <2>1 DEF remove_test, history, CallInv, CallTypes, RearInv, RoomInv, CountInv,
                              Unread, RemoveSteps, AddSteps
<1>2. CASE remove_take
    <2>1. /\ at = "take" /\ at' = "dec_load" /\ ret' = data[front] /\ front' = NextFront(front)
          /\ taken' = Append(taken, ret')
          /\ UNCHANGED <<data, count, rear, reg, word, accepted, between, outside>>
          BY <1>2 DEF remove_take
    <2>2. front' \in Slots /\ ret' \in Words
          BY <2>1 DEF NextFront, Slots, CallInv, CallTypes
    <2> QED BY <2>1, <2>2 DEF CallInv, CallTypes, RearInv, RoomInv, CountInv, Unread,
                              RemoveSteps, AddSteps
<1>3. CASE remove_count_load
      BY <1>3 DEF remove_count_load, vars, history, CallInv, CallTypes, RearInv, RoomInv, CountInv,
                  Unread, RemoveSteps, AddSteps
<1>4. CASE remove_count_store
      BY <1>4 DEF remove_count_store, history, CallInv, CallTypes, RearInv, RoomInv, CountInv,
                  Unread, RemoveSteps, AddSteps
<1> QED BY <1>1, <1>2, <1>3, <1>4

\* The steps of an interruptible queue_add.
LEMMA AddStepsKeep ==
    ASSUME CallInv, UNCHANGED sharing,
           \/ add_test \/ add_wrap_test \/ add_wrap_store \/ add_rear_load \/ add_rear_store
           \/ add_data \/ add_count_load \/ add_count_store
    PROVE  CallInv'
<1> USE QueueAssumption
<1> USE DEF RemoveSteps, AddSteps
<1>1. CASE add_test
    <2>1. sharing # "device" /\ at = "out" /\ at' = "wrap" /\ NewWord \in Words /\ count < Size
          BY <1>1, NewWordInWords DEF add_test, LowCall, CallInv
    <2> QED BY <1>1, <2>1 DEF add_test, vars, history, CallInv, CallTypes, RearInv, RoomInv, CountInv
<1>2. CASE add_wrap_test
      BY <1>2 DEF add_wrap_test, vars, history, CallInv, CallTypes, RearInv, RoomInv, CountInv
<1>3. CASE add_wrap_store
    <2>1. MinusOne \in Nat /\ MinusOne # Size - 1
          BY DEF MinusOne
    <2> QED BY <1>3, <2>1 DEF add_wrap_store, history, CallInv, CallTypes, RearInv, RoomInv, CountInv
<1>4. CASE add_rear_load
    <2>1. /\ at = "rear_load" /\ at' = "rear_store" /\ reg' = Inc16(rear)
          /\ UNCHANGED <<data, count, rear, front, ret, word, accepted, taken, between, outside>>
          BY <1>4 DEF add_rear_load, vars, history
    <2>2. ~between => reg' \in Slots
          BY <2>1, NextRearInside DEF CallInv, RearInv
    <2>3. reg' \in Nat
          BY <2>1 DEF Inc16, CallInv, CallTypes
    <2>4. sharing # "producers" => reg' <= Size
          BY <2>2 DEF CallInv, RearInv, Slots
    <2>5. CallTypes'
          BY <2>1, <2>3 DEF CallInv, CallTypes
    <2> QED BY <2>1, <2>2, <2>4, <2>5 DEF CallInv, CallTypes, RearInv, RoomInv, CountInv
<1>5. CASE add_rear_store
      BY <1>5 DEF add_rear_store, history, CallInv, CallTypes, RearInv, RoomInv, CountInv, Slots
<1>6. CASE add_data
    <2>1. /\ at = "data" /\ at' = "inc_load"
          /\ UNCHANGED <<count, rear, front, ret, reg, word, accepted, taken, between>>
          BY <1>6 DEF add_data, history
    <2>2. data' \in [Slots -> Words] /\ (outside' => outside \/ rear \notin Slots)
          BY <1>6 DEF add_data, CallInv, CallTypes
    <2>3. outside' => between
          BY <2>1, <2>2 DEF CallInv, RearInv
    <2> QED BY <2>1, <2>2, <2>3 DEF CallInv, CallTypes, RearInv, RoomInv, CountInv
<1>7. CASE add_count_load
      BY <1>7 DEF add_count_load, vars, history, CallInv, CallTypes, RearInv, RoomInv, CountInv
<1>8. CASE add_count_store
    <2>1. NULL \in Words
          OBVIOUS
    <2> QED BY <1>8, <2>1 DEF add_count_store, CallInv, CallTypes, RearInv, RoomInv, CountInv
<1> QED BY <1>1, <1>2, <1>3, <1>4, <1>5, <1>6, <1>7, <1>8

\* Every step of a shared queue keeps the invariant.
LEMMA NextCalls == CallInv /\ [PNext]_pvars => CallInv'
<1>1. ASSUME CallInv, PNext PROVE CallInv'
      BY <1>1, HighAddKeeps, HighRemoveKeeps, RemoveStepsKeep, AddStepsKeep DEF PNext
<1>2. ASSUME CallInv, UNCHANGED pvars PROVE CallInv'
      BY <1>2 DEF pvars, vars, low, history, CallInv, CallTypes, RearInv, RoomInv, CountInv, Unread
<1> QED BY <1>1, <1>2

\* The invariant of a shared queue.
LEMMA CallsInvariant == PSpec => []CallInv
BY InitCalls, NextCalls, PTL DEF PSpec

\* A driver's queue_remove under its device's adds, and a queue_add under the
\* receiver's removes, stay inside the array and its capacity, whatever the
\* capacity and wherever they are interrupted.
THEOREM IndicesAlwaysInRange == PSpec => []IndicesInRange
<1>1. CallInv => IndicesInRange
      BY QueueAssumption DEF CallInv, CallTypes, RearInv, RoomInv, IndicesInRange
<1> QED BY <1>1, CallsInvariant, PTL

\* queue_size never reports more than there is on a queue filled by interrupts.
THEOREM NeverOverstates == PSpec => []SizeNeverOverstates
<1>1. CallInv => SizeNeverOverstates
      BY DEF CallInv, CountInv, SizeNeverOverstates
<1> QED BY <1>1, CallsInvariant, PTL

\* Only a second producer between the wrap test and ++rear leads a queue_add
\* out of the array.
THEOREM OutsideNeedsSecond == PSpec => []OutsideNeedsProducer
<1>1. CallInv => OutsideNeedsProducer
      BY DEF CallInv, RearInv, OutsideNeedsProducer
<1> QED BY <1>1, CallsInvariant, PTL
-----------------------------------------------------------------------------
(* What a driver reads.                                                     *)

\* Until an add laps the reader, the words not yet returned are those between
\* front and rear, in order; count may hide some of them.
OrderInv ==
    sharing = "device" /\ ~lapped =>
        /\ Unread \in 0 .. Size
        /\ LET end == front + Unread
           IN  \/ end = 0 /\ rear = MinusOne
               \/ rear = IF end = 0 THEN Size - 1
                         ELSE IF end <= Size THEN end - 1 ELSE end - 1 - Size
        /\ \A k \in 1 .. Unread : data[SlotOf(k)] = accepted[Len(taken) + k]
        /\ \A k \in 1 .. Len(taken) : taken[k] = accepted[k]

\* An add by the device's interrupt stores behind the words not yet returned.
LEMMA HighAddOrder == ASSUME CallInv, OrderInv, high_add, UNCHANGED sharing PROVE OrderInv'
<1> USE QueueAssumption
<1> SUFFICES ASSUME sharing = "device", ~lapped' PROVE OrderInv'
    BY DEF OrderInv
<1>1. /\ UNCHANGED taken /\ queue_add(NewWord)
      BY DEF high_add
<1>2. CASE count < Size
    <2>1. ~lapped /\ ~(Unread >= Size)
          BY <1>2, Zenon DEF high_add
    <2>2. /\ rear' = NextRear(rear)
          /\ data' = [data EXCEPT ![rear'] = NewWord]
          /\ UNCHANGED front /\ accepted' = Append(accepted, NewWord)
          BY <1>1, <1>2 DEF queue_add, high_add, CallInv, CallTypes
    <2>3. Unread \in 0 .. Size - 1 /\ Unread' = Unread + 1 /\ NewWord \in Int
          BY <1>1, <2>1, <2>2 DEF OrderInv, Unread, CallInv, CallTypes, NewWord
    <2>4. rear' = SlotOf(Unread + 1) /\ rear' \in Slots
          BY <2>1, <2>2, <2>3
             DEF OrderInv, NextRear, Inc16, MinusOne, SlotOf, Slots, CallInv, CallTypes
    <2>5. \A k \in 1 .. Unread : SlotOf(k) # rear' /\ SlotOf(k) \in Slots
          BY <2>3, <2>4 DEF SlotOf, Slots, CallInv, CallTypes
    <2>6. \A k \in 1 .. Unread + 1 : SlotOf(k)' = SlotOf(k)
          BY <2>2 DEF SlotOf
    <2>7. /\ \A k \in 1 .. Len(accepted) : accepted'[k] = accepted[k]
          /\ accepted'[Len(accepted) + 1] = NewWord
          /\ Len(accepted) = Len(taken) + Unread /\ Len(taken) \in Nat
          BY <2>2 DEF CallInv, CallTypes, Unread
    <2>8. \A k \in 1 .. Unread' : data'[SlotOf(k)'] = accepted'[Len(taken') + k]
        <3>1. ASSUME NEW k \in 1 .. Unread PROVE data'[SlotOf(k)'] = accepted'[Len(taken') + k]
            <4>1. data'[SlotOf(k)'] = data[SlotOf(k)]
                  BY <2>2, <2>3, <2>5, <2>6 DEF CallInv, CallTypes
            <4>2. data[SlotOf(k)] = accepted[Len(taken) + k]
                  BY <2>1 DEF OrderInv
            <4>3. Len(taken) + k \in 1 .. Len(accepted)
                  BY <2>3, <2>7
            <4> QED BY <1>1, <2>7, <4>1, <4>2, <4>3
        <3>2. ASSUME NEW k \in {Unread + 1} PROVE data'[SlotOf(k)'] = accepted'[Len(taken') + k]
            <4>1. SlotOf(k)' = rear'
                  BY <2>3, <2>4, <2>6
            <4>2. data'[SlotOf(k)'] = NewWord
                  BY <2>2, <2>4, <4>1 DEF CallInv, CallTypes
            <4> QED BY <1>1, <2>3, <2>7, <4>2
        <3>3. \A k \in 1 .. Unread' : k \in 1 .. Unread \/ k \in {Unread + 1}
              BY <2>3
        <3> QED BY <3>1, <3>2, <3>3
    <2>9. \A k \in 1 .. Len(taken') : taken'[k] = accepted'[k]
        <3>1. \A k \in 1 .. Len(taken) : k \in 1 .. Len(accepted) /\ taken[k] = accepted[k]
              BY <2>1, <2>3, <2>7 DEF OrderInv
        <3> QED BY <1>1, <2>7, <3>1
    <2>10. rear' = LET end == front' + Unread'
                   IN  IF end = 0 THEN Size - 1 ELSE IF end <= Size THEN end - 1 ELSE end - 1 - Size
          BY <2>2, <2>3, <2>4 DEF SlotOf, Slots, CallInv, CallTypes
    <2> QED BY <2>3, <2>8, <2>9, <2>10 DEF OrderInv
<1>3. CASE ~(count < Size)
    <2>1. UNCHANGED vars /\ UNCHANGED <<accepted, lapped>>
          BY <1>1, <1>3 DEF queue_add, high_add, CallInv, CallTypes
    <2> QED BY <1>1, <2>1 DEF OrderInv, Unread, SlotOf, vars
<1> QED BY <1>2, <1>3

\* The driver's remove returns the oldest of them.
LEMMA TakeOrder == ASSUME CallInv, OrderInv, remove_take, UNCHANGED sharing PROVE OrderInv'
<1> USE QueueAssumption
<1> SUFFICES ASSUME sharing = "device", ~lapped PROVE OrderInv'
    BY DEF OrderInv, remove_take
<1>1. /\ at = "take" /\ front' = NextFront(front) /\ taken' = Append(taken, data[front])
      /\ UNCHANGED <<data, rear, accepted, lapped>>
      BY DEF remove_take
<1>2. Unread \in 1 .. Size /\ Unread' = Unread - 1
      BY <1>1 DEF CallInv, CallTypes, CountInv, OrderInv, Unread
<1>3. \A k \in 1 .. Unread - 1 : SlotOf(k)' = SlotOf(k + 1)
      BY <1>1, <1>2 DEF SlotOf, NextFront, Slots, CallInv, CallTypes
<1>4. SlotOf(1) = front
      BY DEF SlotOf, Slots, CallInv, CallTypes
<1>5. /\ Len(taken') = Len(taken) + 1 /\ Len(taken) \in Nat
      /\ \A k \in 1 .. Len(taken) : taken'[k] = taken[k]
      /\ taken'[Len(taken) + 1] = data[front]
      BY <1>1 DEF CallInv, CallTypes
<1>6. data[front] = accepted[Len(taken) + 1]
      BY <1>2, <1>4 DEF OrderInv
<1>7. \A k \in 1 .. Unread' : data'[SlotOf(k)'] = accepted'[Len(taken') + k]
    <2> TAKE k \in 1 .. Unread'
    <2>1. k + 1 \in 1 .. Unread /\ SlotOf(k)' = SlotOf(k + 1)
          BY <1>2, <1>3
    <2>2. data[SlotOf(k + 1)] = accepted[Len(taken) + (k + 1)]
          BY <2>1 DEF OrderInv
    <2>3. Len(taken) + (k + 1) = Len(taken') + k
          BY <1>5, <2>1
    <2> QED BY <1>1, <2>1, <2>2, <2>3
<1>8. \A k \in 1 .. Len(taken') : taken'[k] = accepted'[k]
      BY <1>1, <1>5, <1>6 DEF OrderInv
<1>9. LET end == front' + Unread'
      IN  \/ end = 0 /\ rear' = MinusOne
          \/ rear' = IF end = 0 THEN Size - 1
                     ELSE IF end <= Size THEN end - 1 ELSE end - 1 - Size
    <2>1. front \in 0 .. Size - 1
          BY DEF CallInv, CallTypes, Slots
    <2>2. rear = IF front + Unread <= Size THEN front + Unread - 1 ELSE front + Unread - 1 - Size
          BY <1>2, <2>1 DEF OrderInv
    <2>3. CASE front + 1 = Size
        <3>1. front' = 0 /\ front = Size - 1
              BY <1>1, <2>1, <2>3 DEF NextFront
        <3>2. rear = IF Unread = 1 THEN Size - 1 ELSE Unread - 2
              BY <1>2, <2>2, <3>1
        <3> QED BY <1>1, <1>2, <3>1, <3>2
    <2>4. CASE front + 1 # Size
        <3>1. front' = front + 1
              BY <1>1, <2>4 DEF NextFront
        <3> QED BY <1>1, <1>2, <2>1, <2>2, <3>1
    <2> QED BY <2>3, <2>4
<1> QED BY <1>2, <1>7, <1>8, <1>9 DEF OrderInv

\* Nothing else moves a word of a driver's queue.
LEMMA NextOrder == CallInv /\ OrderInv /\ [PNext]_pvars => OrderInv'
<1> SUFFICES ASSUME CallInv, OrderInv, [PNext]_pvars PROVE OrderInv'
    OBVIOUS
<1>1. CASE PNext /\ high_add
      BY <1>1, HighAddOrder DEF PNext
<1>2. CASE PNext /\ remove_take
      BY <1>2, TakeOrder DEF PNext
<1>3. CASE PNext /\ (remove_test \/ remove_count_load \/ remove_count_store)
    <2>1. UNCHANGED <<data, rear, front, sharing, accepted, taken, lapped>>
          BY <1>3 DEF PNext, remove_test, remove_count_load, remove_count_store, vars, history
    <2> QED BY <2>1 DEF OrderInv, Unread, SlotOf
<1>4. CASE PNext /\ high_remove
      BY <1>4 DEF PNext, high_remove, HighCalls, OrderInv
<1>5. CASE PNext /\ add_test
      BY <1>5 DEF PNext, add_test, LowCall, OrderInv
<1>6. CASE PNext /\ \/ add_wrap_test \/ add_wrap_store \/ add_rear_load \/ add_rear_store
                    \/ add_data \/ add_count_load \/ add_count_store
    <2>1. at \in AddSteps /\ UNCHANGED sharing
          BY <1>6 DEF PNext, add_wrap_test, add_wrap_store, add_rear_load, add_rear_store,
                      add_data, add_count_load, add_count_store, AddSteps
    <2> QED BY <2>1 DEF CallInv, CallTypes, OrderInv
<1>7. CASE UNCHANGED pvars
      BY <1>7 DEF pvars, vars, low, history, OrderInv, Unread, SlotOf
<1> QED BY <1>1, <1>2, <1>3, <1>4, <1>5, <1>6, <1>7 DEF PNext

\* A driver reads what its device stored, in order, with nothing lost or
\* repeated, for every capacity and any number of interrupts inside its
\* queue_remove, until an add laps it.
THEOREM DriverReadsInOrder == PSpec => []InOrderUntilLapped
<1>1. PInit => OrderInv
    <2> SUFFICES ASSUME PInit PROVE OrderInv
        OBVIOUS
    <2>1. accepted = <<>> /\ taken = <<>> /\ front = 0 /\ rear = MinusOne
          BY DEF PInit, queue_init
    <2>2. Unread = 0 /\ Len(taken) = 0
          BY <2>1 DEF Unread
    <2> QED BY <2>1, <2>2, QueueAssumption DEF OrderInv
<1>2. CallInv /\ OrderInv => InOrderUntilLapped
      BY DEF CallInv, CallTypes, OrderInv, InOrderUntilLapped, Unread
<1> QED BY <1>1, <1>2, InitCalls, NextCalls, NextOrder, PTL DEF PSpec
=============================================================================
