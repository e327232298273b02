----------------------------- MODULE HeapProofs -----------------------------
(***************************************************************************)
(* For every memory, kernel, page, header and block size: no frame has two  *)
(* owners unless an interrupt took the byte a thread had tested, and        *)
(* frames_free is exact but for the interrupt's lost decrements; the heap   *)
(* uses the frame allocator as Frame.tla says, keeps the boot pages, hands  *)
(* out disjoint blocks and keeps its list whole until an interrupt's malloc *)
(* races with a placement, and leaves less than a header outside the heap.  *)
(***************************************************************************)
EXTENDS Heap, FiniteSetTheorems, Induction

-----------------------------------------------------------------------------
(* Frames.  The invariant is what the two slips of frame.c leave of the     *)
(* bitmap: a byte holds at most the bit of one frame, and that frame is the *)
(* only one of the byte's eight that is owned.  A thread that is about to   *)
(* store a byte finds it still clean unless an interrupt took it meanwhile. *)

\* A frame is determined by its byte and its bit.
LEMMA ByteAndBit ==
    ASSUME NEW i \in FrameSet
    PROVE  /\ Byte(i) \in 0 .. Byte(Frames)
           /\ Bit(i) \in 0 .. 7
           /\ \A j \in FrameSet : Byte(i) = Byte(j) /\ Bit(i) = Bit(j) => i = j
  BY FrameAssumption DEF FrameSet, Byte, Bit

\* Where a frame_get has its frame.
Holding == {"count", "counted", "index", "indexed", "done"}

\* frame_idx and what frame_get goes by.  It passes frames_count by one only
\* when a thread has incremented it behind an interrupt.
IndexInv ==
    /\ \A l \in Levels : get[l].at \in Holding \cup {"set", "clear"} => get[l].i \in FrameSet
    /\ \A l \in Levels : get[l].at \in {"set", "clear"} => get[l].i < frames_count
    /\ \A i \in FrameSet : holders[i] > 0 => i < frames_count
    /\ \A l \in Levels : get[l].at = "counted" => get[l].reg < Word
    /\ get["irq"].at = "scan" => frame_idx = get["irq"].i
    /\ get["irq"].at \in {"set", "count", "counted", "index"} => frame_idx < frames_count
    /\ get["irq"].at = "indexed" => get["irq"].reg < frames_count
    /\ get["thread"].at = "scan" => frame_idx <= frames_count \/ get["thread"].i > frames_count
    /\ get["thread"].at \in {"set", "count", "counted", "index"} => frame_idx <= frames_count
    /\ get["thread"].at = "indexed" => get["thread"].reg <= frames_count
    /\ get["thread"].at = "clear" => holders[get["thread"].i] > 0

ReservedByte(b) == \E r \in FrameSet : r < Reserved /\ Byte(r) = b

\* No frame that shares its byte with a reserved one is found clean or owned.
ReservedInv ==
    /\ \A i \in FrameSet : ReservedByte(Byte(i)) => Dirty(i) /\ holders[i] = 0
    /\ \A l \in Levels : get[l].at \in {"set", "clear"} => ~ReservedByte(Byte(get[l].i))

\* Until two callers contend for a byte: an owned frame's bit is all that is
\* set in its byte, and a frame about to be set has a clean byte.
OwnedInv ==
    ~contended =>
        /\ \A i \in FrameSet : holders[i] > 0 => holders[i] = 1 /\ physical_bitmap[Byte(i)] = {Bit(i)}
        /\ \A l \in Levels : get[l].at = "set" => ~Dirty(get[l].i)
        /\ get["thread"].at = "clear" => get["thread"].byte = {Bit(get["thread"].i)}

FrameInv == TypeOK /\ IndexInv /\ ReservedInv /\ OwnedInv

\* The memory holds the kernel, and the bitmap the memory.
LEMMA SizeType ==
    ASSUME frames_count \in MemSizes
    PROVE  /\ frames_count \in Nat /\ Frames \in Nat /\ Reserved \in Nat
           /\ Reserved <= frames_count /\ frames_count <= Frames
  BY FrameAssumption

\* In each byte the last of its reserved frames is set.
LEMMA SetupFrameInv == frame_setup => FrameInv
<1> SUFFICES ASSUME frame_setup PROVE FrameInv
    OBVIOUS
<1> DEFINE Last(b) == {r \in 0 .. Reserved - 1 :
                          Byte(r) = b /\ (r = Reserved - 1 \/ Bit(r) = 7)}
<1>1. physical_bitmap = [b \in 0 .. Byte(Frames) |-> {Bit(i) : i \in Last(b)}]
      BY DEF frame_setup
<1>2. \A r \in 0 .. Reserved - 1 : r \in FrameSet
      BY FrameAssumption DEF FrameSet
<1>3. /\ frames_free = frames_count - Reserved /\ frame_idx = Reserved
      /\ holders = [i \in FrameSet |-> 0]
      /\ contended = FALSE /\ miscounted = 0
      /\ get = [l \in Levels |-> NoGet] /\ frames_count \in MemSizes
      BY DEF frame_setup
<1>4. TypeOK
    <2>1. \A b : {Bit(i) : i \in Last(b)} \in SUBSET (0..7)
          BY <1>2, ByteAndBit
    <2>2. physical_bitmap \in [0 .. Byte(Frames) -> SUBSET (0..7)]
          BY <1>1, <2>1
    <2> HIDE DEF Last
    <2>3. frames_free \in 0 .. Word - 1 /\ frame_idx \in 0 .. frames_count + 1
          BY <1>3, SizeType, FrameAssumption
    <2>4. get \in [Levels -> Gets]
          BY <1>3, FrameAssumption DEF NoGet, Gets, GetSteps
    <2>5. holders \in [FrameSet -> Nat] /\ contended \in BOOLEAN /\ miscounted \in Nat
          BY <1>3
    <2> QED BY <1>3, <2>2, <2>3, <2>4, <2>5 DEF TypeOK
<1>5. \A l \in Levels : get[l].at = "out"
      BY <1>3 DEF NoGet
<1>6. \A i \in FrameSet : holders[i] = 0
      BY <1>3
<1>7. IndexInv /\ OwnedInv
      BY <1>5, <1>6 DEF IndexInv, Holding, OwnedInv, Levels
<1>8. ReservedInv
    <2> SUFFICES ASSUME NEW i \in FrameSet, NEW r \in FrameSet, r < Reserved, Byte(r) = Byte(i)
                 PROVE  Dirty(i)
        BY <1>5, <1>6 DEF ReservedInv, ReservedByte
    <2>1. PICK s \in 0 .. Reserved - 1 : /\ Byte(s) = Byte(r)
                                         /\ s = Reserved - 1 \/ Bit(s) = 7
        <3>1. CASE Byte(Reserved - 1) = Byte(r)
              BY <3>1, FrameAssumption DEF FrameSet
        <3>2. CASE Byte(Reserved - 1) # Byte(r)
            <4> DEFINE s == 8 * Byte(r) + 7
            <4>1. s \in 0 .. Reserved - 1
                  BY <3>2, FrameAssumption DEF FrameSet, Byte
            <4>2. Byte(s) = Byte(r) /\ Bit(s) = 7
                  BY FrameAssumption DEF FrameSet, Byte, Bit
            <4> QED BY <4>1, <4>2
        <3> QED BY <3>1, <3>2
    <2>2. Bit(s) \in {Bit(j) : j \in Last(Byte(i))}
          BY <2>1
    <2>3. physical_bitmap[Byte(i)] = {Bit(j) : j \in Last(Byte(i))}
          BY <1>1, ByteAndBit
    <2> QED BY <2>2, <2>3 DEF Dirty
<1> QED BY <1>4, <1>7, <1>8 DEF FrameInv

\* Fields of a call's locals stored at once.
LEMMA GetUpdate ==
    ASSUME get \in [Levels -> Gets], NEW l \in Levels, NEW at \in GetSteps,
           NEW n \in 0 .. Frames + 1, NEW r \in Nat
    PROVE  /\ [get EXCEPT ![l].at = at] \in [Levels -> Gets]
           /\ [get EXCEPT ![l].at = at, ![l].i = n] \in [Levels -> Gets]
           /\ [get EXCEPT ![l].at = at, ![l].reg = r] \in [Levels -> Gets]
           /\ [get EXCEPT ![l] = NoGet] \in [Levels -> Gets]
<1> DEFINE c == [get EXCEPT ![l].at = at]
<1>1. c \in [Levels -> Gets]
      BY DEF Gets
<1>2. [c EXCEPT ![l].i = n] \in [Levels -> Gets] /\ [c EXCEPT ![l].reg = r] \in [Levels -> Gets]
    <2> HIDE DEF c
    <2> QED BY <1>1 DEF Gets
<1>3. /\ [c EXCEPT ![l].i = n] = [get EXCEPT ![l].at = at, ![l].i = n]
      /\ [c EXCEPT ![l].reg = r] = [get EXCEPT ![l].at = at, ![l].reg = r]
      OBVIOUS
<1>4. NoGet \in Gets
      BY FrameAssumption DEF NoGet, Gets, GetSteps
<1> QED BY <1>1, <1>2, <1>3, <1>4

\* A step of one level that leaves the bitmap, the owners and the count alone:
\* what it does with frame_idx, and where the call goes.
Quiet(l, at, i, byte) ==
    /\ UNCHANGED <<frames_count, physical_bitmap, holders, contended>>
    /\ get'[l].at = at /\ get'[l].i = i /\ get'[l].byte = byte
    /\ \A k \in Levels \ {l} : get'[k] = get[k]

LEMMA KeepsOwned ==
    ASSUME FrameInv, NEW l \in Levels, NEW at, NEW i, NEW byte, Quiet(l, at, i, byte),
           at = "set" => i \in FrameSet /\ ~Dirty(i),
           at = "clear" => i \in FrameSet /\ holders[i] > 0 /\ byte = physical_bitmap[Byte(i)]
    PROVE  ReservedInv' /\ OwnedInv'
<1> USE DEF Quiet
<1>1. \A j : Dirty(j)' = Dirty(j)
      BY DEF Dirty
<1>2. at \in {"set", "clear"} => ~ReservedByte(Byte(i))
      BY DEF FrameInv, ReservedInv
<1>3. ReservedInv'
      BY <1>1, <1>2 DEF FrameInv, ReservedInv, Levels
<1>4. OwnedInv'
    <2>1. ~contended /\ at = "clear" => byte = {Bit(i)}
          BY DEF FrameInv, OwnedInv
    <2>2. \A k \in Levels : k # l => get'[k] = get[k]
          OBVIOUS
    <2> QED BY <1>1, <2>1, <2>2 DEF FrameInv, OwnedInv, Levels
<1> QED BY <1>3, <1>4

\* frame_set stores the byte of a frame that was found clean.
LEMMA SetFrameInv ==
    ASSUME FrameInv, NEW l \in Levels, get_set(l)
    PROVE  FrameInv'
<1> DEFINE f == get[l].i
<1>1. /\ l = "thread" => get["irq"].at = "out"
      /\ get[l].at = "set" /\ f \in FrameSet
      /\ get \in [Levels -> Gets] /\ holders \in [FrameSet -> Nat]
      /\ physical_bitmap \in [0 .. Byte(Frames) -> SUBSET (0..7)]
      BY DEF FrameInv, TypeOK, IndexInv, get_set, Running
<1>2. /\ physical_bitmap' = [physical_bitmap EXCEPT ![Byte(f)] = {Bit(f)}]
      /\ holders' = [holders EXCEPT ![f] = @ + 1]
      /\ get' = [get EXCEPT ![l].at = "count"]
      /\ UNCHANGED <<frames_count, frames_free, frame_idx, miscounted>>
      BY DEF get_set, Pass, frame_set
<1>3. get'[l].at = "count" /\ get'[l].i = f /\ \A k \in Levels \ {l} : get'[k] = get[k]
      BY <1>1, <1>2 DEF Gets
<1>4. contended' = (contended \/ (l = "irq" /\ get["thread"].at = "set" /\ Byte(get["thread"].i) = Byte(f)))
      BY DEF get_set
<1> HIDE DEF f
<1>5. Byte(f) \in 0 .. Byte(Frames) /\ Bit(f) \in 0 .. 7
      BY <1>1, ByteAndBit
<1>6. \A j \in FrameSet : /\ Byte(j) = Byte(f) => physical_bitmap'[Byte(j)] = {Bit(f)}
                          /\ Byte(j) # Byte(f) => physical_bitmap'[Byte(j)] = physical_bitmap[Byte(j)]
                          /\ holders'[j] = IF j = f THEN holders[f] + 1 ELSE holders[j]
      BY <1>1, <1>2, <1>5, ByteAndBit
<1>7. TypeOK'
    <2>1. physical_bitmap' \in [0 .. Byte(Frames) -> SUBSET (0..7)]
          BY <1>1, <1>2, <1>5
    <2>2. holders' \in [FrameSet -> Nat]
          BY <1>1, <1>2
    <2>3. get' \in [Levels -> Gets]
          BY <1>1, <1>2, ZenonT(30) DEF Gets, GetSteps
    <2>4. contended' \in BOOLEAN
          BY <1>4 DEF FrameInv, TypeOK
    <2> QED BY <1>2, <2>1, <2>2, <2>3, <2>4 DEF FrameInv, TypeOK
<1>8. IndexInv'
    <2>1. get["thread"].at = "clear" => holders'[get["thread"].i] > 0
          BY <1>1, <1>6 DEF FrameInv, IndexInv, Holding, Levels
    <2>2. l = "irq" => frame_idx < frames_count
          BY <1>1 DEF FrameInv, IndexInv
    <2>3. l = "thread" => frame_idx <= frames_count
          BY <1>1 DEF FrameInv, IndexInv
    <2>4. \A j \in FrameSet : holders'[j] > 0 => j < frames_count
          BY <1>1, <1>6 DEF FrameInv, IndexInv, f
    <2> QED BY <1>1, <1>2, <1>3, <2>1, <2>2, <2>3, <2>4 DEF FrameInv, IndexInv, Holding, Levels
<1>9. ReservedInv'
    <2>1. ~ReservedByte(Byte(f))
          BY <1>1 DEF FrameInv, ReservedInv, f
    <2>2. ASSUME NEW j \in FrameSet, ReservedByte(Byte(j))
          PROVE  Dirty(j)' /\ holders'[j] = 0
        <3>1. Byte(j) # Byte(f)
              BY <2>1, <2>2
        <3>2. Dirty(j) /\ holders[j] = 0
              BY <2>2 DEF FrameInv, ReservedInv
        <3> QED BY <1>6, <3>1, <3>2 DEF Dirty
    <2>3. ASSUME NEW k \in Levels, get'[k].at \in {"set", "clear"}
          PROVE  ~ReservedByte(Byte(get'[k].i))
          BY <1>3, <2>3 DEF FrameInv, ReservedInv
    <2> QED BY <2>2, <2>3 DEF ReservedInv
<1>10. OwnedInv'
    <2> SUFFICES ASSUME ~contended'
                 PROVE  /\ \A i \in FrameSet : holders'[i] > 0 => /\ holders'[i] = 1
                                                                  /\ physical_bitmap'[Byte(i)] = {Bit(i)}
                        /\ \A k \in Levels : get'[k].at = "set" => physical_bitmap'[Byte(get'[k].i)] = {}
                        /\ get'["thread"].at = "clear" => get'["thread"].byte = {Bit(get'["thread"].i)}
        BY DEF OwnedInv, Dirty
    <2>1. ~contended /\ ~(l = "irq" /\ get["thread"].at = "set" /\ Byte(get["thread"].i) = Byte(f))
          BY <1>4
    <2>2. physical_bitmap[Byte(f)] = {}
          BY <1>1, <2>1 DEF FrameInv, OwnedInv, Dirty, f
    <2>3. ASSUME NEW j \in FrameSet, Byte(j) = Byte(f)
          PROVE  holders[j] = 0
        <3>1. ~(holders[j] > 0)
              BY <2>1, <2>2, <2>3 DEF FrameInv, OwnedInv
        <3> QED BY <1>1, <3>1
    <2>4. ASSUME NEW j \in FrameSet, holders'[j] > 0
          PROVE  holders'[j] = 1 /\ physical_bitmap'[Byte(j)] = {Bit(j)}
        <3>1. CASE j = f
              BY <1>6, <2>3, <3>1
        <3>2. CASE j # f
            <4>1. holders'[j] = holders[j] /\ holders[j] > 0
                  BY <1>6, <2>4, <3>2
            <4>2. Byte(j) # Byte(f)
                  BY <2>3, <4>1
            <4> QED BY <1>6, <2>1, <4>1, <4>2 DEF FrameInv, OwnedInv
        <3> QED BY <3>1, <3>2
    <2>5. ASSUME NEW k \in Levels, get'[k].at = "set" PROVE physical_bitmap'[Byte(get'[k].i)] = {}
        <3>1. k = "thread" /\ l = "irq" /\ get'[k] = get[k]
              BY <1>1, <1>3, <2>5 DEF Levels
        <3>2. get[k].i \in FrameSet /\ ~Dirty(get[k].i)
              BY <2>1, <2>5, <3>1 DEF FrameInv, IndexInv, OwnedInv
        <3>3. Byte(get[k].i) # Byte(f)
              BY <2>1, <2>5, <3>1
        <3> QED BY <1>6, <3>1, <3>2, <3>3 DEF Dirty
    <2>6. get'["thread"].at = "clear" => get'["thread"].byte = {Bit(get'["thread"].i)}
          BY <1>3, <2>1 DEF FrameInv, OwnedInv, Levels
    <2> QED BY <2>4, <2>5, <2>6
<1> QED BY <1>7, <1>8, <1>9, <1>10 DEF FrameInv

\* The byte of an owned frame is set by that frame only, so clearing it frees
\* none of the others.
LEMMA ClearFrameInv ==
    ASSUME FrameInv, free_clear
    PROVE  FrameInv'
<1> DEFINE f == get["thread"].i
<1>1. /\ get["irq"].at = "out" /\ get["thread"].at = "clear"
      /\ f \in FrameSet /\ holders[f] > 0
      /\ get \in [Levels -> Gets] /\ holders \in [FrameSet -> Nat]
      /\ physical_bitmap \in [0 .. Byte(Frames) -> SUBSET (0..7)]
      BY DEF FrameInv, TypeOK, IndexInv, free_clear, Running, Levels
<1>2. /\ physical_bitmap' = [physical_bitmap EXCEPT ![Byte(f)] = get["thread"].byte \ {Bit(f)}]
      /\ holders' = [holders EXCEPT ![f] = @ - 1]
      /\ get' = [get EXCEPT !["thread"].at = "uncount"]
      /\ UNCHANGED <<frames_count, frames_free, frame_idx, contended, miscounted>>
      BY DEF free_clear, Pass
<1>3. get'["thread"].at = "uncount" /\ get'["irq"] = get["irq"] /\ get["thread"].byte \in SUBSET (0..7)
      BY <1>1, <1>2 DEF Gets, Levels
<1> HIDE DEF f
<1>4. Byte(f) \in 0 .. Byte(Frames)
      BY <1>1, ByteAndBit
<1>5. \A j \in FrameSet : /\ Byte(j) # Byte(f) => physical_bitmap'[Byte(j)] = physical_bitmap[Byte(j)]
                          /\ holders'[j] = IF j = f THEN holders[f] - 1 ELSE holders[j]
      BY <1>1, <1>2, <1>4, ByteAndBit
<1>6. TypeOK'
    <2>1. physical_bitmap' \in [0 .. Byte(Frames) -> SUBSET (0..7)]
          BY <1>1, <1>2, <1>3, <1>4
    <2>2. holders' \in [FrameSet -> Nat]
          BY <1>1, <1>2
    <2>3. get' \in [Levels -> Gets]
          BY <1>1, <1>2, ZenonT(30) DEF Gets, GetSteps
    <2> QED BY <1>2, <2>1, <2>2, <2>3 DEF FrameInv, TypeOK
<1>7. IndexInv'
    <2>1. \A j \in FrameSet : holders'[j] > 0 => j < frames_count
          BY <1>1, <1>5 DEF FrameInv, IndexInv
    <2> QED BY <1>1, <1>2, <1>3, <2>1 DEF IndexInv, Holding, Levels
<1>8. ReservedInv'
    <2>1. ~ReservedByte(Byte(f))
          BY <1>1 DEF FrameInv, ReservedInv, Levels, f
    <2>2. ASSUME NEW j \in FrameSet, ReservedByte(Byte(j))
          PROVE  Dirty(j)' /\ holders'[j] = 0
        <3>1. Byte(j) # Byte(f)
              BY <2>1, <2>2
        <3>2. Dirty(j) /\ holders[j] = 0
              BY <2>2 DEF FrameInv, ReservedInv
        <3> QED BY <1>5, <3>1, <3>2 DEF Dirty
    <2> QED BY <1>1, <1>3, <2>2 DEF ReservedInv, Levels
<1>9. OwnedInv'
    <2> SUFFICES ASSUME ~contended, NEW j \in FrameSet, holders'[j] > 0
                 PROVE  holders'[j] = 1 /\ physical_bitmap'[Byte(j)] = {Bit(j)}
        BY <1>1, <1>2, <1>3 DEF OwnedInv, Levels
    <2>1. holders[f] = 1 /\ physical_bitmap[Byte(f)] = {Bit(f)}
          BY <1>1 DEF FrameInv, OwnedInv
    <2>2. j # f /\ holders'[j] = holders[j]
          BY <1>5, <2>1
    <2>3. holders[j] = 1 /\ physical_bitmap[Byte(j)] = {Bit(j)}
          BY <2>2 DEF FrameInv, OwnedInv
    <2>4. Byte(j) # Byte(f)
        <3>1. ASSUME Byte(j) = Byte(f) PROVE FALSE
            <4>1. Bit(j) = Bit(f)
                  BY <2>1, <2>3, <3>1
            <4> QED BY <1>1, <2>2, <3>1, <4>1, ByteAndBit
        <3> QED BY <3>1
    <2> QED BY <1>5, <2>2, <2>3, <2>4
<1> QED BY <1>6, <1>7, <1>8, <1>9 DEF FrameInv

\* The other steps move one call on, and frame_idx.
LEMMA QuietFrameInv ==
    ASSUME FrameInv, NEW l \in Levels,
           \/ frame_get(l) \/ get_test(l) \/ get_start(l) \/ get_scan(l) \/ get_reset(l)
           \/ get_count_load(l) \/ get_count_store(l) \/ get_idx_load(l) \/ get_idx_store(l)
           \/ frame_return(l)
    PROVE  FrameInv'
<1>1. /\ get \in [Levels -> Gets] /\ frames_free \in 0 .. Word - 1 /\ frame_idx \in 0 .. frames_count + 1
      /\ holders \in [FrameSet -> Nat] /\ miscounted \in Nat /\ frames_count \in MemSizes
      /\ physical_bitmap \in [0 .. Byte(Frames) -> SUBSET (0..7)] /\ contended \in BOOLEAN
      BY DEF FrameInv, TypeOK
<1>2. UNCHANGED <<frames_count, physical_bitmap, holders, contended>>
      BY DEF frame_get, get_test, get_start, get_scan, get_reset, get_count_load, get_count_store,
             get_idx_load, get_idx_store, frame_return
<1>3. l = "thread" => get["irq"].at = "out"
      BY DEF frame_get, get_test, get_start, get_scan, get_reset, get_count_load, get_count_store,
             get_idx_load, get_idx_store, frame_return, Running
<1>4. ASSUME NEW at \in GetSteps, get' = [get EXCEPT ![l].at = at], at \notin {"set", "clear"},
             frames_free' \in 0 .. Word - 1, frame_idx' \in 0 .. frames_count + 1, miscounted' \in Nat, IndexInv'
      PROVE  FrameInv'
    <2>1. get' \in [Levels -> Gets]
          BY <1>1, <1>4 DEF Gets
    <2>2. Quiet(l, at, get[l].i, get[l].byte)
          BY <1>1, <1>2, <1>4 DEF Quiet, Gets
    <2>3. ReservedInv' /\ OwnedInv'
          BY <1>4, <2>2, KeepsOwned
    <2> QED BY <1>1, <1>2, <1>4, <2>1, <2>3 DEF FrameInv, TypeOK
<1>5. ASSUME NEW at \in GetSteps, get' = [get EXCEPT ![l].at = at]
      PROVE  /\ get'[l].at = at /\ get'[l].i = get[l].i /\ get'[l].reg = get[l].reg
             /\ \A k \in Levels \ {l} : get'[k] = get[k]
      BY <1>1, <1>5 DEF Gets
<1>6. CASE frame_get(l)
    <2>1. get' = [get EXCEPT ![l].at = "test"] /\ UNCHANGED <<frames_count, frames_free, frame_idx, miscounted>>
          BY <1>6 DEF frame_get, Pass
    <2>2. IndexInv'
          BY <1>2, <1>5, <2>1 DEF FrameInv, IndexInv, Holding, Levels, GetSteps
    <2> QED BY <1>1, <1>4, <2>1, <2>2 DEF GetSteps
<1>7. CASE get_test(l)
    <2>1. PICK at \in {"none", "start"} : get' = [get EXCEPT ![l].at = at]
          BY <1>7 DEF get_test, Pass
    <2>2. UNCHANGED <<frames_count, frames_free, frame_idx, miscounted>>
          BY <1>7 DEF get_test
    <2>3. at \in GetSteps
          BY DEF GetSteps
    <2>4. IndexInv'
          BY <1>2, <1>5, <2>1, <2>2, <2>3 DEF FrameInv, IndexInv, Holding, Levels
    <2> QED BY <1>1, <1>4, <2>1, <2>2, <2>3, <2>4
<1>8. CASE get_start(l)
    <2>1. /\ get' = [get EXCEPT ![l].at = "scan", ![l].i = frame_idx]
          /\ UNCHANGED <<frames_count, frames_free, frame_idx, miscounted>>
          BY <1>8 DEF get_start
    <2>2. /\ get'[l].at = "scan" /\ get'[l].i = frame_idx /\ get'[l].byte = get[l].byte
          /\ \A k \in Levels \ {l} : get'[k] = get[k]
          BY <1>1, <2>1 DEF Gets
    <2>3. get' \in [Levels -> Gets]
        <3>1. frame_idx \in 0 .. Frames + 1 /\ "scan" \in GetSteps /\ 0 \in Nat
              BY <1>1, SizeType DEF GetSteps
        <3> QED BY <1>1, <2>1, <3>1, GetUpdate
    <2>4. IndexInv'
          BY <1>1, <1>2, <1>3, <2>1, <2>2, SizeType DEF FrameInv, IndexInv, Holding, Levels
    <2>5. ReservedInv' /\ OwnedInv'
          BY <1>2, <2>2, KeepsOwned DEF Quiet
    <2> QED BY <1>1, <1>2, <2>1, <2>3, <2>4, <2>5 DEF FrameInv, TypeOK
<1>9. CASE get_scan(l)
    <2>1. UNCHANGED <<frames_count, frames_free, frame_idx, miscounted>> /\ get[l].at = "scan"
          BY <1>9 DEF get_scan, Running
    <2>2. CASE Pass(l, "reset")
        <3>1. get' = [get EXCEPT ![l].at = "reset"] /\ "reset" \in GetSteps
              BY <2>2 DEF Pass, GetSteps
        <3>2. IndexInv'
              BY <1>2, <1>5, <2>1, <3>1 DEF FrameInv, IndexInv, Holding, Levels
        <3> QED BY <1>1, <1>4, <2>1, <3>1, <3>2
    <2>3. ASSUME NEW i \in FrameSet, Found(get[l].i, i),
                 get' = [get EXCEPT ![l].at = "set", ![l].i = i]
          PROVE  FrameInv'
        <3>1. /\ get'[l].at = "set" /\ get'[l].i = i /\ get'[l].byte = get[l].byte
              /\ \A k \in Levels \ {l} : get'[k] = get[k]
              BY <1>1, <2>3 DEF Gets
        <3>2. i \in 0 .. Frames + 1 /\ i < frames_count
              BY <2>3, FrameAssumption DEF FrameSet, Found
        <3>3. get' \in [Levels -> Gets]
              BY <1>1, <2>3, <3>2, GetUpdate, ZenonT(30) DEF GetSteps
        <3>4. get[l].i \in 0 .. Frames + 1 /\ get[l].i <= i /\ ~Dirty(i)
              BY <1>1, <2>3, FrameAssumption DEF Found, FrameSet, Gets
        <3>5. (l = "irq" => frame_idx < frames_count) /\ (l = "thread" => frame_idx <= frames_count)
            <4>1. l = "irq" => frame_idx = get[l].i
                  BY <2>1 DEF FrameInv, IndexInv
            <4>2. l = "thread" => frame_idx <= frames_count \/ get[l].i > frames_count
                  BY <2>1 DEF FrameInv, IndexInv
            <4> QED BY <1>1, <3>2, <3>4, <4>1, <4>2, SizeType, FrameAssumption DEF FrameSet
        <3>6. IndexInv'
              BY <1>2, <2>1, <3>1, <3>2, <3>5 DEF FrameInv, IndexInv, Holding, Levels
        <3>7. ReservedInv' /\ OwnedInv'
              BY <1>2, <3>1, <3>4, KeepsOwned DEF Quiet
        <3> QED BY <1>1, <1>2, <2>1, <3>3, <3>6, <3>7 DEF FrameInv, TypeOK
    <2> QED BY <1>9, <2>2, <2>3 DEF get_scan
<1>10. CASE get_reset(l)
    <2>1. get' = [get EXCEPT ![l].at = "test"] /\ frame_idx' = 0 /\ UNCHANGED <<frames_count, frames_free, miscounted>>
          BY <1>10 DEF get_reset, Pass
    <2>2. frame_idx' \in 0 .. frames_count + 1 /\ 0 <= frames_count
          BY <1>1, <2>1, SizeType
    <2>3. IndexInv'
          BY <1>2, <1>3, <1>5, <2>1, <2>2 DEF FrameInv, IndexInv, Holding, Levels, GetSteps
    <2> QED BY <1>1, <1>4, <2>1, <2>2, <2>3 DEF GetSteps
<1>11. CASE get_count_load(l)
    <2>1. /\ get' = [get EXCEPT ![l].at = "counted", ![l].reg = frames_free]
          /\ UNCHANGED <<frames_count, frames_free, frame_idx, miscounted>> /\ get[l].at = "count"
          BY <1>11 DEF get_count_load, Running
    <2>2. /\ get'[l].at = "counted" /\ get'[l].reg = frames_free /\ get'[l].i = get[l].i /\ get'[l].byte = get[l].byte
          /\ \A k \in Levels \ {l} : get'[k] = get[k]
          BY <1>1, <2>1 DEF Gets
    <2>3. frames_free \in Nat /\ frames_free < Word
          BY <1>1, FrameAssumption
    <2>4. get' \in [Levels -> Gets]
        <3>1. 0 \in 0 .. Frames + 1 /\ "counted" \in GetSteps
              BY FrameAssumption DEF GetSteps
        <3> QED BY <1>1, <2>1, <2>3, <3>1, GetUpdate
    <2>5. IndexInv'
          BY <1>2, <2>1, <2>2, <2>3 DEF FrameInv, IndexInv, Holding, Levels
    <2>6. ReservedInv' /\ OwnedInv'
          BY <1>2, <2>2, KeepsOwned DEF Quiet
    <2> QED BY <1>1, <1>2, <2>1, <2>4, <2>5, <2>6 DEF FrameInv, TypeOK
<1>12. CASE get_count_store(l)
    <2>1. /\ get' = [get EXCEPT ![l].at = "index"] /\ get[l].at = "counted" /\ UNCHANGED frame_idx
          /\ frames_free' = IF get[l].reg = 0 THEN Word - 1 ELSE get[l].reg - 1
          /\ miscounted' \in {miscounted, miscounted + 1}
          BY <1>12 DEF get_count_store, Pass, Running
    <2>2. frames_free' \in 0 .. Word - 1 /\ miscounted' \in Nat
        <3>1. get[l].reg \in Nat /\ get[l].reg < Word
              BY <1>1, <2>1 DEF FrameInv, IndexInv, Gets
        <3> QED BY <1>1, <2>1, <3>1, FrameAssumption, SMTT(30)
    <2>3. IndexInv'
          BY <1>2, <1>5, <2>1 DEF FrameInv, IndexInv, Holding, Levels, GetSteps
    <2> QED BY <1>1, <1>4, <2>1, <2>2, <2>3 DEF GetSteps
<1>13. CASE get_idx_load(l)
    <2>1. /\ get' = [get EXCEPT ![l].at = "indexed", ![l].reg = frame_idx]
          /\ UNCHANGED <<frames_count, frames_free, frame_idx, miscounted>> /\ get[l].at = "index"
          BY <1>13 DEF get_idx_load, Running
    <2>2. /\ get'[l].at = "indexed" /\ get'[l].reg = frame_idx
          /\ get'[l].i = get[l].i /\ get'[l].byte = get[l].byte
          /\ \A k \in Levels \ {l} : get'[k] = get[k]
          BY <1>1, <2>1 DEF Gets
    <2>3. frame_idx \in Nat
          BY <1>1, SizeType
    <2>4. get' \in [Levels -> Gets]
        <3>1. 0 \in 0 .. Frames + 1 /\ "indexed" \in GetSteps
              BY FrameAssumption DEF GetSteps
        <3> QED BY <1>1, <2>1, <2>3, <3>1, GetUpdate
    <2>5. IndexInv'
          BY <1>2, <2>1, <2>2 DEF FrameInv, IndexInv, Holding, Levels
    <2>6. ReservedInv' /\ OwnedInv'
          BY <1>2, <2>2, KeepsOwned DEF Quiet
    <2> QED BY <1>1, <1>2, <2>1, <2>4, <2>5, <2>6 DEF FrameInv, TypeOK
<1>14. CASE get_idx_store(l)
    <2>1. /\ get' = [get EXCEPT ![l].at = "done"] /\ get[l].at = "indexed"
          /\ frame_idx' = get[l].reg + 1 /\ UNCHANGED <<frames_count, frames_free, miscounted>>
          BY <1>14 DEF get_idx_store, Pass, Running
    <2>2. get[l].reg \in Nat /\ (l = "irq" => get[l].reg < frames_count) /\ (l = "thread" => get[l].reg <= frames_count)
          BY <1>1, <2>1 DEF FrameInv, IndexInv, Gets
    <2>3. frame_idx' \in 0 .. frames_count + 1 /\ (l = "irq" => frame_idx' <= frames_count)
          BY <1>1, <2>1, <2>2, SizeType DEF Levels
    <2>4. IndexInv'
          BY <1>2, <1>3, <1>5, <2>1, <2>3 DEF FrameInv, IndexInv, Holding, Levels, GetSteps
    <2> QED BY <1>1, <1>4, <2>1, <2>3, <2>4 DEF GetSteps
<1>15. CASE frame_return(l)
    <2>1. get' = [get EXCEPT ![l] = NoGet] /\ UNCHANGED <<frames_count, frames_free, frame_idx, miscounted>>
          BY <1>15 DEF frame_return
    <2>2. get' \in [Levels -> Gets]
        <3>1. NoGet \in Gets
              BY FrameAssumption DEF NoGet, Gets, GetSteps
        <3> QED BY <1>1, <2>1, <3>1
    <2>3. /\ get'[l] = NoGet /\ NoGet.at = "out" /\ \A k \in Levels \ {l} : get'[k] = get[k]
          BY <1>1, <2>1 DEF NoGet
    <2>4. IndexInv'
          BY <1>2, <2>1, <2>3 DEF FrameInv, IndexInv, Holding, Levels
    <2>5. ReservedInv' /\ OwnedInv'
          BY <1>2, <2>3, KeepsOwned DEF Quiet, NoGet
    <2> QED BY <1>1, <1>2, <2>1, <2>2, <2>4, <2>5 DEF FrameInv, TypeOK
<1> QED BY <1>6, <1>7, <1>8, <1>9, <1>10, <1>11, <1>12, <1>13, <1>14, <1>15

\* The steps of frame_free besides its store of the byte.
LEMMA FreeFrameInv ==
    ASSUME FrameInv, (\E i \in FrameSet : frame_free(i)) \/ free_count_load \/ free_count_store
    PROVE  FrameInv'
<1>1. /\ get \in [Levels -> Gets] /\ frames_free \in 0 .. Word - 1 /\ frame_idx \in 0 .. frames_count + 1
      /\ physical_bitmap \in [0 .. Byte(Frames) -> SUBSET (0..7)]
      /\ UNCHANGED <<frames_count, physical_bitmap, holders, contended, frame_idx, miscounted>>
      /\ get["irq"].at = "out" /\ "thread" \in Levels
      BY DEF FrameInv, TypeOK, frame_free, free_count_load, free_count_store, Running, Levels
<1>2. ASSUME NEW i \in FrameSet, frame_free(i) PROVE FrameInv'
    <2> DEFINE c == [NoGet EXCEPT !.at = "clear", !.i = i, !.byte = physical_bitmap[Byte(i)]]
    <2>1. get' = [get EXCEPT !["thread"] = c] /\ holders[i] > 0 /\ UNCHANGED frames_free
          BY <1>2 DEF frame_free
    <2>2. /\ c.at = "clear" /\ c.i = i /\ c.byte = physical_bitmap[Byte(i)]
          /\ c \in Gets
        <3>1. i \in 0 .. Frames + 1 /\ physical_bitmap[Byte(i)] \in SUBSET (0..7) /\ 0 \in Nat
              BY <1>1, ByteAndBit, FrameAssumption DEF FrameSet
        <3> QED BY <3>1 DEF NoGet, Gets, GetSteps
    <2> HIDE DEF c
    <2>3. get'["thread"] = c /\ get'["irq"] = get["irq"] /\ get' \in [Levels -> Gets]
          BY <1>1, <2>1, <2>2 DEF Levels
    <2>4. IndexInv'
          BY <1>1, <2>1, <2>2, <2>3 DEF FrameInv, IndexInv, Holding, Levels
    <2>5. ReservedInv' /\ OwnedInv'
        <3>1. Quiet("thread", "clear", i, physical_bitmap[Byte(i)])
              BY <1>1, <2>2, <2>3 DEF Quiet, Levels
        <3> QED BY <1>1, <2>1, <3>1, KeepsOwned
    <2> QED BY <1>1, <2>1, <2>3, <2>4, <2>5 DEF FrameInv, TypeOK
<1>3. CASE free_count_load
    <2>1. /\ get' = [get EXCEPT !["thread"].at = "uncounted", !["thread"].reg = frames_free]
          /\ UNCHANGED frames_free
          BY <1>3 DEF free_count_load
    <2>2. /\ get'["thread"].at = "uncounted" /\ get'["irq"] = get["irq"]
          /\ get'["thread"].i = get["thread"].i /\ get'["thread"].byte = get["thread"].byte
          BY <1>1, <2>1 DEF Gets, Levels
    <2>3. get' \in [Levels -> Gets]
        <3>1. 0 \in 0 .. Frames + 1 /\ "uncounted" \in GetSteps /\ frames_free \in Nat
              BY <1>1, FrameAssumption DEF GetSteps
        <3> QED BY <1>1, <2>1, <3>1, GetUpdate
    <2>4. IndexInv'
          BY <1>1, <2>2 DEF FrameInv, IndexInv, Holding, Levels
    <2>5. ReservedInv' /\ OwnedInv'
        <3>1. Quiet("thread", "uncounted", get["thread"].i, get["thread"].byte)
              BY <1>1, <2>2 DEF Quiet, Levels
        <3> QED BY <1>1, <3>1, KeepsOwned
    <2> QED BY <1>1, <2>1, <2>3, <2>4, <2>5 DEF FrameInv, TypeOK
<1>4. CASE free_count_store
    <2>1. /\ get' = [get EXCEPT !["thread"].at = "freed"] /\ get["thread"].at = "uncounted"
          /\ frames_free' = (get["thread"].reg + 1) % Word
          BY <1>4 DEF free_count_store, Pass, Running
    <2>2. /\ get'["thread"].at = "freed" /\ get'["irq"] = get["irq"]
          /\ get'["thread"].i = get["thread"].i /\ get'["thread"].byte = get["thread"].byte
          BY <1>1, <2>1 DEF Gets, Levels
    <2>3. get' \in [Levels -> Gets]
          BY <1>1, <2>1, ZenonT(30) DEF Gets, GetSteps
    <2>4. frames_free' \in 0 .. Word - 1
        <3>1. get["thread"].reg + 1 \in Nat /\ Word \in Nat /\ Word > 0
              BY <1>1, FrameAssumption DEF Gets
        <3> QED BY <2>1, <3>1
    <2>5. IndexInv'
          BY <1>1, <2>2 DEF FrameInv, IndexInv, Holding, Levels
    <2>6. ReservedInv' /\ OwnedInv'
        <3>1. Quiet("thread", "freed", get["thread"].i, get["thread"].byte)
              BY <1>1, <2>2 DEF Quiet, Levels
        <3> QED BY <1>1, <3>1, KeepsOwned
    <2> QED BY <1>1, <2>3, <2>4, <2>5, <2>6 DEF FrameInv, TypeOK
<1> QED BY <1>2, <1>3, <1>4

\* Every step of the allocator keeps its invariant.
LEMMA NextFrameInv == FrameInv /\ [Next]_vars => FrameInv'
<1> SUFFICES ASSUME FrameInv, [Next]_vars PROVE FrameInv'
    OBVIOUS
<1>1. CASE UNCHANGED vars
    <2>1. TypeOK'
          BY <1>1 DEF vars, FrameInv, TypeOK
    <2>2. IndexInv'
          BY <1>1 DEF vars, FrameInv, IndexInv
    <2>3. ReservedInv' /\ OwnedInv'
          BY <1>1 DEF vars, FrameInv, ReservedInv, OwnedInv, Dirty
    <2> QED BY <2>1, <2>2, <2>3 DEF FrameInv
<1>2. ASSUME NEW l \in Levels, frame_get(l) \/ FrameStep(l) \/ frame_return(l)
      PROVE  FrameInv'
      BY <1>2, SetFrameInv, ClearFrameInv, QuietFrameInv, FreeFrameInv DEF FrameStep
<1> QED BY <1>1, <1>2, FreeFrameInv DEF Next

LEMMA FrameInvariant == Spec => []FrameInv
  BY SetupFrameInv, NextFrameInv, PTL DEF Spec

\* For every memory and kernel size and every interleaving of an interrupt's
\* calls with a thread's, the bitmap and the scan index stay within bounds.
THEOREM FrameTypeCorrect == Spec => []TypeOK
<1>1. FrameInv => TypeOK
      BY DEF FrameInv
<1> QED BY <1>1, FrameInvariant, PTL

LEMMA FrameInvShares == FrameInv => FramesNotShared
<1> SUFFICES ASSUME FrameInv, NEW i \in FrameSet
             PROVE  (i < Reserved => holders[i] = 0) /\ (~contended => holders[i] <= 1)
    BY DEF FramesNotShared
<1>1. holders[i] \in Nat
      BY DEF FrameInv, TypeOK
<1>2. i < Reserved => ReservedByte(Byte(i))
      BY DEF ReservedByte
<1>3. ~contended /\ holders[i] > 0 => holders[i] = 1
      BY DEF FrameInv, OwnedInv
<1> QED BY <1>1, <1>2, <1>3 DEF FrameInv, ReservedInv

\* For every memory and kernel size and every interleaving of frame_get and
\* frame_free with an interrupt's frame_get, the kernel's frames have no owner
\* and no frame has two, unless the interrupt took the byte a thread had tested.
THEOREM FramesNeverShared == Spec => []FramesNotShared
  BY FrameInvShares, FrameInvariant, PTL

-----------------------------------------------------------------------------
(* The count.  A thread's decrement in progress is carried in its register: *)
(* while it is between load and store, the register and not frames_free is  *)
(* what will be left, and each decrement made meanwhile is one too many.    *)

Owned == {i \in FrameSet : holders[i] > 0}

\* Frames taken or returned and not yet counted.
Pending(l) == IF get[l].at \in {"count", "counted"} THEN 1 ELSE 0
Returning == IF get["thread"].at \in {"uncount", "uncounted"} THEN 1 ELSE 0

Count == IF Counting THEN get["thread"].reg ELSE frames_free

\* Nothing comes between an interrupt's test of frames_free and its decrement.
IrqCounts == /\ get["irq"].at \in {"start", "scan", "set", "count", "counted"} => frames_free > 0
             /\ get["irq"].at = "counted" => get["irq"].reg = frames_free

CountInv ==
    /\ IrqCounts
    /\ ~contended /\ Frames + miscounted < Word =>
          Count + Returning = frames_count - Reserved - Cardinality(Owned)
                              + Pending("thread") + Pending("irq") + miscounted

\* The owned frames are not reserved.
LEMMA OwnedFinite == FrameInv => IsFiniteSet(Owned) /\ Cardinality(Owned) \in 0 .. frames_count - Reserved
<1> SUFFICES ASSUME FrameInv
             PROVE  IsFiniteSet(Owned) /\ Cardinality(Owned) \in 0 .. frames_count - Reserved
    OBVIOUS
<1>0. frames_count \in Nat /\ Reserved \in Nat /\ Reserved <= frames_count
      BY SizeType DEF FrameInv, TypeOK
<1> DEFINE S == Reserved .. frames_count - 1
<1>1. Owned \subseteq S
    <2> SUFFICES ASSUME NEW i \in FrameSet, holders[i] > 0 PROVE i \in S
        BY DEF Owned
    <2>1. ~(i < Reserved)
          BY FrameInvShares DEF FramesNotShared
    <2>2. i < frames_count
          BY DEF FrameInv, IndexInv
    <2> QED BY <1>0, <2>1, <2>2 DEF FrameSet
<1>2. IsFiniteSet(S) /\ Cardinality(S) = frames_count - Reserved
    <2>1. Reserved \in Int /\ frames_count - 1 \in Int /\ Reserved <= frames_count
          BY <1>0
    <2>2. /\ IsFiniteSet(S)
          /\ Cardinality(S) = IF Reserved > frames_count - 1 THEN 0 ELSE frames_count - 1 - Reserved + 1
          BY <2>1, FS_Interval
    <2> QED BY <1>0, <2>1, <2>2
<1> HIDE DEF S
<1>3. IsFiniteSet(Owned) /\ Cardinality(Owned) <= Cardinality(S)
      BY <1>1, <1>2, FS_Subset
<1> QED BY <1>0, <1>2, <1>3, FS_CardinalityType

\* A frame about to be set has no owner, so storing its byte makes one frame
\* more owned.
LEMMA SetCounts ==
    ASSUME FrameInv, FrameInv', NEW l \in Levels, get_set(l), ~contended'
    PROVE  Cardinality(Owned') = Cardinality(Owned) + 1
<1> DEFINE f == get[l].i
<1>1. /\ get[l].at = "set" /\ ~contended /\ holders' = [holders EXCEPT ![f] = @ + 1]
      BY DEF get_set, Running
<1>2. f \in FrameSet /\ ~Dirty(f) /\ holders \in [FrameSet -> Nat]
      BY <1>1 DEF FrameInv, TypeOK, IndexInv, OwnedInv
<1> HIDE DEF f
<1>3. ~(holders[f] > 0)
      BY <1>1, <1>2 DEF FrameInv, OwnedInv, Dirty
<1>4. Owned' = Owned \cup {f} /\ f \notin Owned
      BY <1>1, <1>2, <1>3 DEF Owned
<1> QED BY <1>4, OwnedFinite, FS_AddElement

\* Its one owner gives a frame back, so one frame less is owned.
LEMMA ClearCounts ==
    ASSUME FrameInv, FrameInv', free_clear, ~contended
    PROVE  Cardinality(Owned') = Cardinality(Owned) - 1
<1> DEFINE f == get["thread"].i
<1>1. /\ get["thread"].at = "clear" /\ holders' = [holders EXCEPT ![f] = @ - 1]
      BY DEF free_clear, Running
<1>2. f \in FrameSet /\ holders[f] > 0 /\ holders \in [FrameSet -> Nat]
      BY <1>1 DEF FrameInv, TypeOK, IndexInv, Levels
<1> HIDE DEF f
<1>3. holders[f] = 1
      BY <1>2 DEF FrameInv, OwnedInv
<1>4. Owned' = Owned \ {f} /\ f \in Owned
      BY <1>1, <1>2, <1>3 DEF Owned
<1> QED BY <1>4, OwnedFinite, FS_RemoveElement

\* Every step keeps the count.
LEMMA NextCount == FrameInv /\ CountInv /\ [Next]_vars => CountInv'
<1> SUFFICES ASSUME FrameInv, CountInv, [Next]_vars PROVE CountInv'
    OBVIOUS
<1>1. FrameInv'
      BY NextFrameInv
<1>2. /\ get \in [Levels -> Gets] /\ frames_free \in Nat /\ miscounted \in Nat
      /\ Cardinality(Owned) \in 0 .. frames_count - Reserved /\ Cardinality(Owned') \in 0 .. frames_count - Reserved
      /\ Frames \in Nat /\ Reserved \in Nat /\ Word \in Nat
      /\ frames_count \in Nat /\ Reserved <= frames_count /\ frames_count <= Frames
      /\ UNCHANGED frames_count
      /\ \A l \in Levels : get[l].reg \in Nat
    <2>1. get \in [Levels -> Gets] /\ frames_free \in Nat /\ miscounted \in Nat
          BY FrameAssumption DEF FrameInv, TypeOK
    <2>2. (IsFiniteSet(Owned) /\ Cardinality(Owned) \in 0 .. frames_count - Reserved)'
          BY <1>1, OwnedFinite, PTL
    <2>3. frames_count \in Nat /\ Reserved <= frames_count /\ frames_count <= Frames
          BY SizeType DEF FrameInv, TypeOK
    <2>4. UNCHANGED frames_count
        <3>1. ASSUME NEW l \in Levels, FrameStep(l) PROVE UNCHANGED frames_count
              BY <3>1 DEF FrameStep, get_test, get_start, get_scan, get_reset, get_set, get_count_load,
                 get_count_store, get_idx_load, get_idx_store, free_clear, free_count_load, free_count_store
        <3> QED BY <3>1 DEF Next, vars, frame_get, frame_return, frame_free
    <2> QED BY <2>1, <2>2, <2>3, <2>4, OwnedFinite, FrameAssumption DEF Gets
<1>3. ASSUME NEW l \in Levels, NEW at, UNCHANGED <<frames_count, frames_free, holders, contended, miscounted>>,
             get'[l].at = at, \A k \in Levels \ {l} : get'[k] = get[k],
             get[l].at \notin {"count", "counted", "uncount", "uncounted"},
             at \notin {"count", "counted", "uncount", "uncounted"}, IrqCounts'
      PROVE  CountInv'
    <2>1. Owned' = Owned
          BY <1>3 DEF Owned
    <2>2. /\ Pending("thread")' = Pending("thread") /\ Pending("irq")' = Pending("irq")
          /\ Returning' = Returning /\ Count' = Count
          BY <1>3 DEF Pending, Returning, Count, Counting, Levels
    <2> QED BY <1>3, <2>1, <2>2 DEF CountInv
<1>4. ASSUME NEW l \in Levels, frame_get(l) \/ get_test(l) \/ get_start(l) \/ get_scan(l) \/ get_reset(l)
      PROVE  CountInv'
    <2>1. /\ get[l].at \in {"out", "test", "start", "scan", "reset"}
          /\ UNCHANGED <<frames_count, frames_free, holders, contended, miscounted>>
          BY <1>4 DEF frame_get, get_test, get_start, get_scan, get_reset, Running
    <2>2. /\ get'[l].at \in {"test", "none", "start", "scan", "set", "reset"}
          /\ \A k \in Levels \ {l} : get'[k] = get[k]
          BY <1>2, <1>4 DEF frame_get, get_test, get_start, get_scan, get_reset, Pass, Gets
    <2>3. l = "irq" /\ get'[l].at \in {"start", "scan", "set"} => frames_free > 0
        <3>1. CASE get_test(l)
              BY <1>2, <3>1 DEF get_test, Pass, Gets
        <3>2. CASE frame_get(l) \/ get_reset(l)
              BY <1>2, <3>2 DEF frame_get, get_reset, Pass, Gets
        <3>3. CASE get_start(l) \/ get_scan(l)
              BY <3>3 DEF get_start, get_scan, Running, CountInv, IrqCounts
        <3> QED BY <1>4, <3>1, <3>2, <3>3
    <2>4. IrqCounts'
          BY <2>1, <2>2, <2>3 DEF CountInv, IrqCounts, Levels
    <2> QED BY <1>3, <2>1, <2>2, <2>4
<1>5. ASSUME NEW l \in Levels, get_idx_load(l) \/ get_idx_store(l) \/ frame_return(l)
      PROVE  CountInv'
    <2>1. /\ get[l].at \in {"index", "indexed", "done", "none", "freed"}
          /\ UNCHANGED <<frames_count, frames_free, holders, contended, miscounted>>
          BY <1>5 DEF get_idx_load, get_idx_store, frame_return, Running
    <2>2. /\ get'[l].at \in {"indexed", "done", "out"}
          /\ \A k \in Levels \ {l} : get'[k] = get[k]
          BY <1>2, <1>5 DEF get_idx_load, get_idx_store, frame_return, Pass, Gets, NoGet
    <2>3. IrqCounts'
          BY <2>1, <2>2 DEF CountInv, IrqCounts, Levels
    <2> QED BY <1>3, <2>1, <2>2, <2>3
<1>6. ASSUME NEW i \in FrameSet, frame_free(i) PROVE CountInv'
    <2>1. /\ get["thread"].at = "out" /\ "thread" \in Levels
          /\ UNCHANGED <<frames_count, frames_free, holders, contended, miscounted>>
          BY <1>6 DEF frame_free, Running, Levels
    <2>2. /\ get'["thread"].at = "clear"
          /\ \A k \in Levels \ {"thread"} : get'[k] = get[k]
          BY <1>2, <1>6 DEF frame_free, NoGet, Levels
    <2>3. IrqCounts'
          BY <2>1, <2>2 DEF CountInv, IrqCounts, Levels
    <2> QED BY <1>3, <2>1, <2>2, <2>3
<1>7. ASSUME NEW l \in Levels, get_set(l) PROVE CountInv'
    <2>1. /\ get[l].at = "set" /\ get'[l].at = "count" /\ \A k \in Levels \ {l} : get'[k] = get[k]
          /\ UNCHANGED <<frames_count, frames_free, miscounted>>
          BY <1>2, <1>7 DEF get_set, Pass, Running, Gets
    <2>2. /\ Pending("thread")' + Pending("irq")' = Pending("thread") + Pending("irq") + 1
          /\ Returning' = Returning /\ Count' = Count
          /\ Pending("thread") \in 0 .. 1 /\ Pending("irq") \in 0 .. 1 /\ Returning \in 0 .. 1 /\ Count \in Nat
          /\ Pending("thread")' \in 0 .. 1 /\ Pending("irq")' \in 0 .. 1
          BY <1>2, <2>1 DEF Pending, Returning, Count, Counting, Levels
    <2>3. IrqCounts'
          BY <2>1 DEF CountInv, IrqCounts, Levels
    <2>4. ASSUME ~contended', Frames + miscounted < Word
          PROVE  Count' + Returning' = frames_count - Reserved - Cardinality(Owned')
                                       + Pending("thread")' + Pending("irq")' + miscounted'
        <3>1. ~contended /\ Cardinality(Owned') = Cardinality(Owned) + 1
              BY <1>1, <1>7, <2>4, SetCounts DEF get_set
        <3>2. Count + Returning = frames_count - Reserved - Cardinality(Owned)
                                  + Pending("thread") + Pending("irq") + miscounted
              BY <2>4, <3>1 DEF CountInv
        <3> QED BY <1>2, <2>1, <2>2, <3>1, <3>2
    <2> QED BY <2>1, <2>3, <2>4 DEF CountInv
<1>8. ASSUME NEW l \in Levels, get_count_load(l) PROVE CountInv'
    <2>1. /\ get[l].at = "count" /\ get'[l].at = "counted" /\ get'[l].reg = frames_free
          /\ \A k \in Levels \ {l} : get'[k] = get[k]
          /\ UNCHANGED <<frames_count, frames_free, holders, contended, miscounted>>
          BY <1>2, <1>8 DEF get_count_load, Running, Gets
    <2>2. /\ Pending("thread")' = Pending("thread") /\ Pending("irq")' = Pending("irq")
          /\ Returning' = Returning /\ Count' = Count /\ Owned' = Owned
          BY <2>1 DEF Pending, Returning, Count, Counting, Levels, Owned
    <2>3. IrqCounts'
          BY <2>1 DEF CountInv, IrqCounts, Levels
    <2> QED BY <2>1, <2>2, <2>3 DEF CountInv
<1>9. ASSUME NEW l \in Levels, get_count_store(l) PROVE CountInv'
    <2>1. /\ get[l].at = "counted" /\ get'[l].at = "index"
          /\ \A k \in Levels \ {l} : get'[k] = get[k]
          /\ l = "thread" => get["irq"].at = "out"
          /\ frames_free' = IF get[l].reg = 0 THEN Word - 1 ELSE get[l].reg - 1
          /\ miscounted' = IF l = "irq" /\ Counting THEN miscounted + 1 ELSE miscounted
          /\ UNCHANGED <<frames_count, holders, contended>>
          BY <1>2, <1>9 DEF get_count_store, Running, Pass, Gets
    <2>2. /\ Pending("thread")' + Pending("irq")' = Pending("thread") + Pending("irq") - 1
          /\ Pending("thread") + Pending("irq") >= 1
          /\ Returning' = Returning /\ Owned' = Owned
          /\ Pending("thread") \in 0 .. 1 /\ Pending("irq") \in 0 .. 1 /\ Returning \in 0 .. 1 /\ Count \in Nat
          /\ Pending("thread")' \in 0 .. 1 /\ Pending("irq")' \in 0 .. 1
          BY <1>2, <2>1 DEF Pending, Returning, Count, Counting, Levels, Owned
    <2>3. IrqCounts'
          BY <2>1 DEF IrqCounts, Levels
    <2>4. ASSUME ~contended', Frames + miscounted' < Word
          PROVE  Count' + Returning' = frames_count - Reserved - Cardinality(Owned')
                                       + Pending("thread")' + Pending("irq")' + miscounted'
        <3>1. Count + Returning = frames_count - Reserved - Cardinality(Owned)
                                  + Pending("thread") + Pending("irq") + miscounted
            <4>1. Frames + miscounted < Word
                  BY <1>2, <2>1, <2>4
            <4> QED BY <2>1, <2>4, <4>1 DEF CountInv
        <3>2. CASE l = "irq" /\ Counting
            <4>1. Count' = Count /\ miscounted' = miscounted + 1
                  BY <2>1, <3>2 DEF Count, Counting, Levels
            <4> QED BY <1>2, <2>2, <3>1, <4>1
        <3>3. CASE ~(l = "irq" /\ Counting)
            <4>1. /\ miscounted' = miscounted /\ get[l].reg = Count /\ Count' = frames_free'
                  /\ l = "thread" => Returning = 0
                  /\ l = "irq" => Count > 0
                  BY <2>1, <3>3 DEF Count, Counting, CountInv, IrqCounts, Returning, Levels
            <4>2. Count >= 1
                  BY <1>2, <2>2, <3>1, <4>1 DEF Levels
            <4>3. Count' = Count - 1
                  BY <2>1, <2>2, <4>1, <4>2
            <4>4. /\ Cardinality(Owned) \in Nat /\ miscounted \in Nat /\ Reserved \in Nat
                  /\ frames_count \in Nat /\ Reserved <= frames_count /\ UNCHANGED frames_count
                  BY <1>2
            <4>5. Cardinality(Owned') = Cardinality(Owned)
                  BY <2>2
            <4> QED BY <2>2, <3>1, <4>1, <4>3, <4>4, <4>5
        <3> QED BY <3>2, <3>3
    <2> QED BY <2>1, <2>3, <2>4 DEF CountInv
<1>10. CASE free_clear
    <2>1. /\ get["thread"].at = "clear" /\ get'["thread"].at = "uncount" /\ get'["irq"] = get["irq"]
          /\ get["irq"].at = "out"
          /\ UNCHANGED <<frames_count, frames_free, contended, miscounted>>
          BY <1>2, <1>10 DEF free_clear, Pass, Running, Gets, Levels
    <2>2. /\ Pending("thread") = 0 /\ Pending("irq") = 0 /\ Returning = 0 /\ Count = frames_free
          /\ Pending("thread")' = 0 /\ Pending("irq")' = 0 /\ Returning' = 1 /\ Count' = frames_free
          BY <2>1 DEF Pending, Returning, Count, Counting
    <2>3. ASSUME ~contended, Frames + miscounted < Word
          PROVE  Count' + Returning' = frames_count - Reserved - Cardinality(Owned')
                                       + Pending("thread")' + Pending("irq")' + miscounted'
        <3>1. Cardinality(Owned') = Cardinality(Owned) - 1
              BY <1>1, <1>10, <2>3, ClearCounts
        <3>2. Count + Returning = frames_count - Reserved - Cardinality(Owned)
                                  + Pending("thread") + Pending("irq") + miscounted
              BY <2>3 DEF CountInv
        <3> QED BY <1>2, <2>1, <2>2, <3>1, <3>2
    <2>4. IrqCounts'
          BY <2>1 DEF IrqCounts
    <2> QED BY <2>1, <2>3, <2>4 DEF CountInv
<1>11. CASE free_count_load
    <2>1. /\ get["thread"].at = "uncount" /\ get'["thread"].at = "uncounted"
          /\ get'["thread"].reg = frames_free /\ get'["irq"] = get["irq"]
          /\ UNCHANGED <<frames_count, frames_free, holders, contended, miscounted>>
          BY <1>2, <1>11 DEF free_count_load, Running, Gets, Levels
    <2>2. /\ Pending("thread")' = Pending("thread") /\ Pending("irq")' = Pending("irq")
          /\ Returning' = Returning /\ Count' = Count /\ Owned' = Owned
          BY <2>1 DEF Pending, Returning, Count, Counting, Owned
    <2>3. IrqCounts'
          BY <2>1 DEF CountInv, IrqCounts
    <2> QED BY <2>1, <2>2, <2>3 DEF CountInv
<1>12. CASE free_count_store
    <2>1. /\ get["thread"].at = "uncounted" /\ get'["thread"].at = "freed" /\ get'["irq"] = get["irq"]
          /\ get["irq"].at = "out"
          /\ frames_free' = (get["thread"].reg + 1) % Word
          /\ UNCHANGED <<frames_count, holders, contended, miscounted>>
          BY <1>2, <1>12 DEF free_count_store, Pass, Running, Gets, Levels
    <2>2. /\ Pending("thread") = 0 /\ Pending("irq") = 0 /\ Returning = 1 /\ Count = get["thread"].reg
          /\ Pending("thread")' = 0 /\ Pending("irq")' = 0 /\ Returning' = 0 /\ Count' = frames_free'
          /\ Owned' = Owned
          BY <2>1 DEF Pending, Returning, Count, Counting, Owned
    <2>3. ASSUME ~contended, Frames + miscounted < Word
          PROVE  Count' + Returning' = frames_count - Reserved - Cardinality(Owned')
                                       + Pending("thread")' + Pending("irq")' + miscounted'
        <3>1. Count + 1 = frames_count - Reserved - Cardinality(Owned) + miscounted
            <4>1. Count + Returning = frames_count - Reserved - Cardinality(Owned)
                                      + Pending("thread") + Pending("irq") + miscounted
                  BY <2>3 DEF CountInv
            <4> QED BY <1>2, <2>2, <4>1
        <3>2. Count + 1 \in 0 .. Word - 1
              BY <1>2, <2>3, <3>1
        <3>3. (Count + 1) % Word = Count + 1
              BY <1>2, <3>2
        <3> QED BY <1>2, <2>1, <2>2, <3>1, <3>3
    <2>4. IrqCounts'
          BY <2>1 DEF IrqCounts
    <2> QED BY <2>1, <2>3, <2>4 DEF CountInv
<1>13. CASE UNCHANGED vars
      BY <1>13 DEF vars, CountInv, IrqCounts, Count, Counting, Pending, Returning, Owned
<1>14. ASSUME NEW l \in Levels, FrameStep(l) PROVE CountInv'
      BY <1>4, <1>5, <1>7, <1>8, <1>9, <1>10, <1>11, <1>12, <1>14 DEF FrameStep
<1> QED BY <1>4, <1>5, <1>6, <1>13, <1>14 DEF Next

\* For every memory and kernel size, frame_free_count() is the number of frames
\* that are neither reserved nor owned and the decrements lost to a thread's
\* store, in whatever order frames are taken and freed.
THEOREM FreeAlwaysCounted == Spec => []FreeIsCounted
<1>1. frame_setup => CountInv
    <2> SUFFICES ASSUME frame_setup PROVE CountInv
        OBVIOUS
    <2>1. /\ frames_free = frames_count - Reserved /\ miscounted = 0 /\ \A i \in FrameSet : holders[i] = 0
          /\ get["thread"].at = "out" /\ get["irq"].at = "out"
          BY DEF frame_setup, NoGet, Levels
    <2>2. Owned = {}
          BY <2>1 DEF Owned
    <2>3. Cardinality(Owned) = 0
          BY <2>2, FS_EmptySet
    <2>4. Pending("thread") = 0 /\ Pending("irq") = 0 /\ Returning = 0 /\ Count = frames_free
          BY <2>1 DEF Pending, Returning, Count, Counting
    <2>5. frames_count \in Nat /\ Reserved \in Nat
          BY SizeType DEF frame_setup
    <2> QED BY <2>1, <2>3, <2>4, <2>5 DEF CountInv, IrqCounts
<1>2. FrameInv /\ CountInv => FreeIsCounted
    <2> SUFFICES ASSUME FrameInv, CountInv, ~contended, Frames + miscounted < Word,
                        \A l \in Levels : get[l].at \in {"out", "done", "none", "freed"}
                 PROVE  frames_free = frames_count - Reserved - Cardinality(Owned) + miscounted
        BY DEF FreeIsCounted, Owned
    <2>1. Pending("thread") = 0 /\ Pending("irq") = 0 /\ Returning = 0 /\ Count = frames_free
          BY DEF Pending, Returning, Count, Counting, Levels
    <2>2. frames_free \in Nat /\ miscounted \in Nat /\ Cardinality(Owned) \in Nat
          BY OwnedFinite, FrameAssumption DEF FrameInv, TypeOK
    <2>3. frames_count \in Nat /\ Reserved \in Nat
          BY SizeType DEF FrameInv, TypeOK
    <2> QED BY <2>1, <2>2, <2>3 DEF CountInv
<1> QED BY <1>1, <1>2, SetupFrameInv, NextFrameInv, NextCount, PTL DEF Spec

-----------------------------------------------------------------------------
(* The heap.                                                                *)

Steps == {"out", "sum", "test", "expand", "upper", "map", "frame", "enter", "table", "entry",
          "block", "header", "link", "last", "top", "unmap", "user"}

Call == [at : Steps, size : Nat, page : Nat, last : Nat, frame : Nat, b : Nat]

\* Where a malloc has its pages under way, and where it has a frame for one.
Mapping(l) == call[l].at \in {"map", "frame", "enter", "table", "entry"}
HasFrame(l) == call[l].at \in {"enter", "table", "entry"}

\* Where its block has its header.
Placed(l) == call[l].at \in {"link", "last", "top"}

HeapTypes == /\ malloc_top \in Nat /\ heap \in Nat
             /\ call \in [Levels -> Call]
             /\ handed \in Seq(Nat \X Nat)

BlockTypes == /\ mblocks = [a \in DOMAIN mblocks |-> mblocks[a]]
              /\ \A a \in DOMAIN mblocks : mblocks[a] \in [size : Nat, next : Nat]
              /\ \A l \in Levels : Placed(l) => call[l].b \in DOMAIN mblocks

\* The boot pages have their frames; pages that are or will be mapped or
\* unmapped lie behind them, and have real frames.
PagesInv == /\ BootPagesStay
            /\ \A p \in DOMAIN entries : p \in Nat /\ (p >= BootPages => entries[p] \in FrameSet)
            /\ \A l \in Levels : /\ Mapping(l) \/ call[l].at = "unmap" => call[l].page >= BootPages
                                 /\ HasFrame(l) => call[l].frame \in FrameSet

\* The quotient and the limit that page_map_until returns.
LEMMA PageOfNat ==
    ASSUME NEW a \in Nat
    PROVE  PageOf(a) \in Nat /\ (PageOf(a) + 1) * PageSize \in Nat /\ a < (PageOf(a) + 1) * PageSize
<1> DEFINE q == a \div PageSize
<1>1. PageSize \in Nat /\ PageSize > 0
      BY HeapAssumption
<1>2. q \in Int
      BY <1>1
<1>3. a < PageSize * (q + 1)
      BY <1>1
<1> HIDE DEF q
<1>4. PageSize * (q + 1) \in Int
      BY <1>1, <1>2
<1>5. q >= 0
    <2>1. SUFFICES ASSUME q + 1 <= 0 PROVE FALSE
          BY <1>2
    <2>2. PageSize * (q + 1) <= 0
          BY <1>1, <1>2, <2>1
    <2> QED BY <1>3, <1>4, <2>2
<1>6. (q + 1) * PageSize = PageSize * (q + 1)
      BY <1>1, <1>2
<1> QED BY <1>2, <1>3, <1>4, <1>5, <1>6 DEF PageOf, q

\* A page behind the boot pages is in another table than they are.
LEMMA OtherTable ==
    ASSUME NEW p \in Nat, p >= BootPages, NEW q \in 0 .. BootPages - 1
    PROVE  TableOf(q) # TableOf(p)
<1> DEFINE B == BootPages
           d == p \div B
           e == q \div B
<1>1. B \in Nat /\ B > 0
      BY HeapAssumption
<1>2. d \in Int /\ e \in Int /\ p < B * (d + 1) /\ B * e <= q
      BY <1>1
<1>3. q < B /\ p >= B
      BY <1>1
<1> HIDE DEF d, e, B
<1>4. d >= 1
    <2>1. SUFFICES ASSUME d + 1 <= 1 PROVE FALSE
          BY <1>2
    <2>2. B * (d + 1) <= B
          BY <1>1, <1>2, <2>1
    <2>3. B * (d + 1) \in Int
          BY <1>1, <1>2
    <2> QED BY <1>1, <1>2, <1>3, <2>2, <2>3
<1>5. e <= 0
    <2>1. SUFFICES ASSUME e >= 1 PROVE FALSE
          BY <1>2
    <2>2. B * e >= B
          BY <1>1, <1>2, <2>1
    <2>3. B * e \in Int
          BY <1>1, <1>2
    <2> QED BY <1>1, <1>2, <1>3, <2>2, <2>3
<1> QED BY <1>2, <1>4, <1>5 DEF TableOf, d, e, B

\* Whatever page_upper takes for a table, its walk does not stop inside the boot
\* pages: none of their entries is zero.
LEMMA UpperBehindBoot ==
    ASSUME PagesInv
    PROVE  \A u \in page_upper : u + 1 \in Nat /\ u + 1 >= BootPages
<1> SUFFICES ASSUME NEW q \in 0 .. LimitPages, q = LimitPages \/ MayBeZero(q)
             PROVE  q - 1 + 1 \in Nat /\ q - 1 + 1 >= BootPages
    BY DEF page_upper
<1>1. BootPages \in Nat /\ LimitPages \in Nat /\ LimitPages >= BootPages /\ q \in Nat
      BY HeapAssumption
<1>2. q \notin 0 .. BootPages - 1 \/ q = LimitPages
      BY DEF MayBeZero, PagesInv, BootPagesStay
<1>3. q >= BootPages
      BY <1>1, <1>2
<1> QED BY <1>1, <1>3

\* Several fields of a malloc's locals stored at once.
LEMMA CallUpdate ==
    ASSUME call \in [Levels -> Call], NEW l \in Levels, NEW at \in Steps, NEW n \in Nat
    PROVE  /\ [call EXCEPT ![l].at = at] \in [Levels -> Call]
           /\ [call EXCEPT ![l].at = at, ![l].page = n] \in [Levels -> Call]
           /\ [call EXCEPT ![l].at = at, ![l].last = n] \in [Levels -> Call]
           /\ [call EXCEPT ![l].at = at, ![l].frame = n] \in [Levels -> Call]
<1> DEFINE c == [call EXCEPT ![l].at = at]
<1>1. c \in [Levels -> Call]
      BY DEF Call
<1>2. /\ [c EXCEPT ![l].page = n] \in [Levels -> Call]
      /\ [c EXCEPT ![l].last = n] \in [Levels -> Call]
      /\ [c EXCEPT ![l].frame = n] \in [Levels -> Call]
    <2> HIDE DEF c
    <2> QED BY <1>1 DEF Call
<1>3. /\ [c EXCEPT ![l].page = n] = [call EXCEPT ![l].at = at, ![l].page = n]
      /\ [c EXCEPT ![l].last = n] = [call EXCEPT ![l].at = at, ![l].last = n]
      /\ [c EXCEPT ![l].frame = n] = [call EXCEPT ![l].at = at, ![l].frame = n]
      OBVIOUS
<1> QED BY <1>1, <1>2, <1>3

-----------------------------------------------------------------------------
(* Steps that leave the list alone.                                         *)

\* Level l moves on, neither from nor to the placing of a block.
Aside(l) ==
    /\ UNCHANGED <<malloc_top, last_block, mblocks, handed, raced>>
    /\ \A k \in Levels \ {l} : call'[k] = call[k]
    /\ ~Placing(l) /\ ~Placing(l)'

\* What a step in which level l goes from one step to another does to the rest.
LEMMA AsideSteps ==
    ASSUME HeapTypes, NEW l \in Levels,
           \/ \E size \in Sizes : malloc(l, size)
           \/ malloc_sum(l) \/ malloc_test(l) \/ expand(l) \/ map_upper(l)
           \/ map_frame(l) \/ map_denied(l) \/ map_given(l)
           \/ page_map(l) \/ page_table(l) \/ page_entry(l) \/ mapped_until(l)
    PROVE  Aside(l)
<1> USE DEF HeapTypes, Call, Placing, At, Aside
<1>1. ASSUME NEW size \in Sizes, malloc(l, size) PROVE Aside(l)
      BY <1>1 DEF malloc, NoCall
<1>2. CASE malloc_sum(l)
      BY <1>2 DEF malloc_sum
<1>3. CASE malloc_test(l)
      BY <1>3 DEF malloc_test, Go
<1>4. CASE expand(l)
      BY <1>4 DEF expand
<1>5. CASE map_upper(l)
    <2>1. PICK u \in page_upper : call' = [call EXCEPT ![l].at = "map", ![l].page = u + 1]
          BY <1>5 DEF map_upper
    <2>2. call[l].at = "upper" /\ UNCHANGED <<malloc_top, last_block, mblocks, handed, raced>>
          BY <1>5 DEF map_upper
    <2> QED BY <2>1, <2>2
<1>6. CASE map_frame(l)
      BY <1>6 DEF map_frame, Go
<1>7. CASE map_denied(l)
      BY <1>7 DEF map_denied, Go
<1>8. CASE map_given(l)
      BY <1>8 DEF map_given
<1>9. CASE page_map(l)
      BY <1>9 DEF page_map, Go
<1>10. CASE page_table(l)
      BY <1>10 DEF page_table, Go
<1>11. CASE page_entry(l)
      BY <1>11 DEF page_entry
<1>12. CASE mapped_until(l)
      BY <1>12 DEF mapped_until, Go
<1> QED BY <1>1, <1>2, <1>3, <1>4, <1>5, <1>6, <1>7, <1>8, <1>9, <1>10, <1>11, <1>12

LEMMA AsideUsers ==
    ASSUME HeapTypes,
           (\E p \in DOMAIN entries : page_unmap(p)) \/ page_unmapped \/ user_page \/ user_mapped
    PROVE  Aside("thread")
<1> USE DEF HeapTypes, Call, Placing, At, Aside, Levels
<1>1. ASSUME NEW p \in DOMAIN entries, page_unmap(p) PROVE Aside("thread")
      BY <1>1 DEF page_unmap
<1>2. CASE page_unmapped
      BY <1>2 DEF page_unmapped, NoCall
<1>3. CASE user_page
      BY <1>3 DEF user_page, Go
<1>4. CASE user_mapped
      BY <1>4 DEF user_mapped, Go
<1> QED BY <1>1, <1>2, <1>3, <1>4

\* Every step is such a step, places a block, or leaves malloc alone.
LEMMA HeapSteps ==
    ASSUME HeapTypes, [HNext]_allvars
    PROVE  \/ \E l \in Levels : Aside(l)
           \/ \E l \in Levels : \/ malloc_block(l) \/ malloc_header(l) \/ malloc_link(l)
                                \/ malloc_last(l) \/ malloc_done(l)
           \/ UNCHANGED <<malloc_top, last_block, mblocks, handed, raced, call>>
<1>1. CASE schedule \/ (\E l \in Levels : frame_step(l)) \/ UNCHANGED allvars
      BY <1>1 DEF schedule, frame_step, allvars, hvars
<1>2. CASE (\E p \in DOMAIN entries : page_unmap(p)) \/ page_unmapped \/ user_page \/ user_mapped
      BY <1>2, AsideUsers DEF Levels
<1> QED BY <1>1, <1>2, AsideSteps DEF HNext

-----------------------------------------------------------------------------
(* Types.                                                                   *)

TypesInv == HeapTypes /\ BlockTypes

\* mm() starts well typed.
LEMMA InitTypes == mm => TypesInv
<1> SUFFICES ASSUME mm PROVE TypesInv
    OBVIOUS
<1>1. HeapTypes
      BY HeapAssumption DEF mm, HeapTypes, NoCall, Null, Call, Steps
<1>2. BlockTypes
      BY HeapAssumption DEF mm, BlockTypes, NoCall, Null, Placed
<1> QED BY <1>1, <1>2 DEF TypesInv

\* The locals and the limit of a malloc on its way to its block.
LEMMA CallTypes ==
    ASSUME HeapTypes, PagesInv, FrameInv, NEW l \in Levels,
           \/ \E size \in Sizes : malloc(l, size)
           \/ malloc_sum(l) \/ malloc_test(l) \/ expand(l) \/ map_upper(l)
           \/ map_frame(l) \/ map_denied(l) \/ map_given(l)
           \/ page_map(l) \/ page_table(l) \/ page_entry(l) \/ mapped_until(l)
    PROVE  call' \in [Levels -> Call] /\ heap' \in Nat
<1>1. /\ call \in [Levels -> Call] /\ heap \in Nat /\ malloc_top \in Nat
      /\ call[l].size \in Nat /\ call[l].page \in Nat /\ call[l].last \in Nat
      BY DEF HeapTypes, Call
<1>2. ASSUME NEW at \in Steps, call' = [call EXCEPT ![l].at = at] PROVE call' \in [Levels -> Call]
    <2>1. 0 \in Nat
          OBVIOUS
    <2> QED BY <1>1, <1>2, <2>1, CallUpdate, Zenon
<1>3. ASSUME NEW size \in Sizes, malloc(l, size) PROVE call' \in [Levels -> Call] /\ heap' \in Nat
    <2>1. size \in Nat
          BY HeapAssumption
    <2> QED BY <1>1, <1>3, <2>1 DEF malloc, Call, Steps, NoCall, Null
<1>4. CASE malloc_sum(l)
    <2>1. malloc_top + call[l].size + Header \in Nat /\ "test" \in Steps
          BY <1>1, HeapAssumption DEF Steps
    <2>2. call' = [call EXCEPT ![l].at = "test", ![l].last = malloc_top + call[l].size + Header] /\ UNCHANGED heap
          BY <1>4 DEF malloc_sum
    <2> QED BY <1>1, <2>1, <2>2, CallUpdate, Zenon
<1>5. CASE malloc_test(l)
    <2>1. PICK at \in {"expand", "block"} : call' = [call EXCEPT ![l].at = at]
          BY <1>5 DEF malloc_test, Go
    <2>2. at \in Steps /\ UNCHANGED heap
          BY <1>5 DEF Steps, malloc_test
    <2> QED BY <1>1, <1>2, <2>1, <2>2
<1>6. CASE expand(l)
    <2>1. malloc_top + call[l].size \in Nat /\ "upper" \in Steps
          BY <1>1 DEF Steps
    <2>2. PageOf(malloc_top + call[l].size) \in Nat
          BY <2>1, PageOfNat
    <2>3. call' = [call EXCEPT ![l].at = "upper", ![l].last = PageOf(malloc_top + call[l].size)] /\ UNCHANGED heap
          BY <1>6 DEF expand
    <2> QED BY <1>1, <2>1, <2>2, <2>3, CallUpdate, Zenon
<1>7. CASE map_upper(l)
    <2>1. PICK u \in page_upper : call' = [call EXCEPT ![l].at = "map", ![l].page = u + 1]
          BY <1>7 DEF map_upper
    <2>2. u + 1 \in Nat /\ "map" \in Steps /\ UNCHANGED heap
          BY <1>7, UpperBehindBoot DEF Steps, map_upper
    <2> QED BY <1>1, <2>1, <2>2, CallUpdate, Zenon
<1>8. CASE map_frame(l)
      BY <1>1, <1>2, <1>8 DEF map_frame, Go, Steps
<1>9. CASE map_denied(l)
    <2>1. call[l].page * PageSize \in Nat
          BY <1>1, HeapAssumption
    <2> QED BY <1>1, <1>2, <1>9, <2>1 DEF map_denied, Go, Steps
<1>10. CASE map_given(l)
    <2>1. get[l].i \in Nat
          BY FrameAssumption DEF FrameInv, TypeOK, Gets
    <2>2. call' = [call EXCEPT ![l].at = "enter", ![l].frame = get[l].i] /\ UNCHANGED heap /\ "enter" \in Steps
          BY <1>10 DEF map_given, Steps
    <2> QED BY <1>1, <2>1, <2>2, CallUpdate, Zenon
<1>11. CASE page_map(l)
    <2>1. PICK at \in {"entry", "table"} : call' = [call EXCEPT ![l].at = at]
          BY <1>11 DEF page_map, Go
    <2>2. at \in Steps /\ UNCHANGED heap
          BY <1>11 DEF Steps, page_map
    <2> QED BY <1>1, <1>2, <2>1, <2>2
<1>12. CASE page_table(l)
      BY <1>1, <1>2, <1>12 DEF page_table, Go, Steps
<1>13. CASE page_entry(l)
    <2>1. call[l].page + 1 \in Nat /\ "map" \in Steps
          BY <1>1 DEF Steps
    <2>2. call' = [call EXCEPT ![l].at = "map", ![l].page = call[l].page + 1] /\ UNCHANGED heap
          BY <1>13 DEF page_entry
    <2> QED BY <1>1, <2>1, <2>2, CallUpdate, Zenon
<1>14. CASE mapped_until(l)
    <2>1. (call[l].last + 1) * PageSize \in Nat
          BY <1>1, HeapAssumption
    <2> QED BY <1>1, <1>2, <1>14, <2>1 DEF mapped_until, Go, Steps
<1> QED BY <1>3, <1>4, <1>5, <1>6, <1>7, <1>8, <1>9, <1>10, <1>11, <1>12, <1>13, <1>14

\* Every step keeps the heap's variables well typed and the headers in place.
LEMMA StepTypes == TypesInv /\ PagesInv /\ FrameInv /\ [HNext]_allvars => TypesInv'
<1> SUFFICES ASSUME HeapTypes, BlockTypes, PagesInv, FrameInv, [HNext]_allvars
             PROVE  HeapTypes' /\ BlockTypes'
    BY DEF TypesInv
<1>1. ASSUME NEW l \in Levels, Aside(l), call' \in [Levels -> Call], heap' \in Nat
      PROVE  HeapTypes' /\ BlockTypes'
    <2>1. HeapTypes'
          BY <1>1 DEF HeapTypes, Aside
    <2>2. \A k \in Levels : Placed(k)' => Placed(k) /\ call'[k].b = call[k].b
          BY <1>1 DEF Aside, Placed, Placing
    <2>3. BlockTypes'
          BY <1>1, <2>2 DEF BlockTypes, Aside
    <2> QED BY <2>1, <2>3
<1>2. ASSUME NEW l \in Levels,
           \/ \E size \in Sizes : malloc(l, size)
           \/ malloc_sum(l) \/ malloc_test(l) \/ expand(l) \/ map_upper(l)
           \/ map_frame(l) \/ map_denied(l) \/ map_given(l)
           \/ page_map(l) \/ page_table(l) \/ page_entry(l) \/ mapped_until(l)
      PROVE  HeapTypes' /\ BlockTypes'
      BY <1>1, <1>2, AsideSteps, CallTypes, Zenon
<1>3. CASE (\E p \in DOMAIN entries : page_unmap(p)) \/ page_unmapped \/ user_page \/ user_mapped
    <2>1. "thread" \in Levels /\ UNCHANGED heap /\ call \in [Levels -> Call] /\ heap \in Nat
          BY <1>3 DEF page_unmap, page_unmapped, user_page, user_mapped, Levels, HeapTypes
    <2>2. call' \in [Levels -> Call]
        <3>1. ASSUME NEW p \in DOMAIN entries, page_unmap(p) PROVE call' \in [Levels -> Call]
            <4>1. p \in Nat /\ "unmap" \in Steps
                  BY DEF PagesInv, Steps
            <4>2. call' = [call EXCEPT !["thread"].at = "unmap", !["thread"].page = p]
                  BY <3>1 DEF page_unmap
            <4> QED BY <2>1, <4>1, <4>2, CallUpdate, Zenon
        <3>2. CASE page_unmapped
              BY <2>1, <3>2 DEF page_unmapped, NoCall, Null, Call, Steps
        <3>3. ASSUME NEW at \in {"user", "out"}, call' = [call EXCEPT !["thread"].at = at]
              PROVE  call' \in [Levels -> Call]
            <4>1. 0 \in Nat /\ at \in Steps
                  BY DEF Steps
            <4> QED BY <2>1, <3>3, <4>1, CallUpdate, Zenon
        <3>4. CASE user_page \/ user_mapped
              BY <3>3, <3>4 DEF user_page, user_mapped, Go
        <3> QED BY <1>3, <3>1, <3>2, <3>4
    <2> QED BY <1>1, <1>3, <2>1, <2>2, AsideUsers
<1>4. ASSUME NEW l \in Levels, malloc_block(l) PROVE HeapTypes' /\ BlockTypes'
    <2>1. HeapTypes'
          BY <1>4, ZenonT(30) DEF malloc_block, HeapTypes, Call, Steps
    <2>2. /\ UNCHANGED mblocks /\ ~Placed(l)'
          /\ \A k \in Levels \ {l} : call'[k] = call[k]
          BY <1>4 DEF malloc_block, HeapTypes, Call, Placed
    <2>3. BlockTypes'
          BY <2>2 DEF BlockTypes, Placed
    <2> QED BY <2>1, <2>3
<1>5. ASSUME NEW l \in Levels, malloc_header(l) PROVE HeapTypes' /\ BlockTypes'
    <2>1. HeapTypes'
          BY <1>5, ZenonT(30) DEF malloc_header, Go, HeapTypes, Call, Steps
    <2>2. BlockTypes'
          BY <1>5 DEF malloc_header, Go, HeapTypes, BlockTypes, Call, Steps, Placed, Null
    <2> QED BY <2>1, <2>2
<1>6. ASSUME NEW l \in Levels, malloc_link(l) PROVE HeapTypes' /\ BlockTypes'
    <2>1. HeapTypes'
          BY <1>6, ZenonT(30) DEF malloc_link, Go, HeapTypes, Call, Steps
    <2>2. BlockTypes'
          BY <1>6, ZenonT(30) DEF malloc_link, At, Go, HeapTypes, BlockTypes, Call, Steps, Placed
    <2> QED BY <2>1, <2>2
<1>7. ASSUME NEW l \in Levels, malloc_last(l) PROVE HeapTypes' /\ BlockTypes'
    <2>1. HeapTypes'
          BY <1>7, ZenonT(30) DEF malloc_last, Go, HeapTypes, Call, Steps
    <2>2. /\ UNCHANGED mblocks /\ Placed(l) /\ call'[l].b = call[l].b
          /\ \A k \in Levels \ {l} : call'[k] = call[k]
          BY <1>7 DEF malloc_last, At, Go, HeapTypes, Call, Placed
    <2>3. BlockTypes'
          BY <2>2 DEF BlockTypes, Placed
    <2> QED BY <2>1, <2>3
<1>8. ASSUME NEW l \in Levels, malloc_done(l) PROVE HeapTypes' /\ BlockTypes'
    <2>1. mblocks[call[l].b].size \in Nat
          BY <1>8 DEF malloc_done, At, BlockTypes, Placed
    <2>2. call[l].b + Header + mblocks[call[l].b].size \in Nat
          BY <2>1, HeapAssumption DEF HeapTypes, Call, Steps
    <2>3. HeapTypes'
          BY <1>8, <2>2 DEF malloc_done, HeapTypes, Call, Steps, NoCall, Null
    <2>4. /\ UNCHANGED mblocks /\ ~Placed(l)'
          /\ \A k \in Levels \ {l} : call'[k] = call[k]
          BY <1>8 DEF malloc_done, HeapTypes, Call, Placed, NoCall
    <2>5. BlockTypes'
          BY <2>4 DEF BlockTypes, Placed
    <2> QED BY <2>3, <2>5
<1>9. CASE schedule \/ (\E l \in Levels : frame_step(l)) \/ UNCHANGED allvars
    <2>1. UNCHANGED <<malloc_top, heap, mblocks, call, handed>>
          BY <1>9 DEF schedule, frame_step, allvars, hvars
    <2> QED BY <2>1 DEF HeapTypes, BlockTypes, Placed
<1> QED BY <1>2, <1>3, <1>4, <1>5, <1>6, <1>7, <1>8, <1>9 DEF HNext

-----------------------------------------------------------------------------
(* Pages and frames.                                                        *)

\* A step of level l that leaves the entries alone, and does not give it a page
\* or a frame.
LEMMA KeepsPages ==
    ASSUME PagesInv, NEW l \in Levels, UNCHANGED entries,
           \A k \in Levels \ {l} : call'[k] = call[k],
           Mapping(l)' \/ call'[l].at = "unmap" => call'[l].page >= BootPages,
           HasFrame(l)' => call'[l].frame \in FrameSet
    PROVE  PagesInv'
<1>1. BootPagesStay' /\ \A p \in DOMAIN entries' : p \in Nat /\ (p >= BootPages => entries'[p] \in FrameSet)
      BY DEF PagesInv, BootPagesStay
<1>2. ASSUME NEW k \in Levels
      PROVE  /\ Mapping(k)' \/ call'[k].at = "unmap" => call'[k].page >= BootPages
             /\ HasFrame(k)' => call'[k].frame \in FrameSet
      BY DEF PagesInv, Mapping, HasFrame
<1> QED BY <1>1, <1>2 DEF PagesInv

\* No step maps a boot page anew or maps a page to anything but a frame: a new
\* table is never theirs.
LEMMA StepPages == TypesInv /\ PagesInv /\ FrameInv /\ [HNext]_allvars => PagesInv'
<1> SUFFICES ASSUME HeapTypes, PagesInv, FrameInv, [HNext]_allvars PROVE PagesInv'
    BY DEF TypesInv
<1>1. ASSUME NEW l \in Levels,
             \/ \E size \in Sizes : malloc(l, size)
             \/ malloc_sum(l) \/ malloc_test(l) \/ expand(l)
             \/ map_denied(l) \/ mapped_until(l)
      PROVE  PagesInv'
    <2>1. UNCHANGED entries
          BY <1>1 DEF malloc, malloc_sum, malloc_test, expand, map_denied, mapped_until
    <2>2. Aside(l)
          BY <1>1, AsideSteps
    <2>3. call'[l].at \in {"sum", "test", "expand", "upper", "block"}
        <3> USE DEF HeapTypes, Call
        <3>1. ASSUME NEW size \in Sizes, malloc(l, size) PROVE call'[l].at = "sum"
              BY <3>1 DEF malloc, NoCall
        <3>2. malloc_sum(l) => call'[l].at = "test"
              BY DEF malloc_sum
        <3>3. malloc_test(l) => call'[l].at \in {"expand", "block"}
              BY DEF malloc_test, Go
        <3>4. expand(l) => call'[l].at = "upper"
              BY DEF expand
        <3>5. map_denied(l) \/ mapped_until(l) => call'[l].at = "block"
              BY DEF map_denied, mapped_until, Go
        <3> QED BY <1>1, <3>1, <3>2, <3>3, <3>4, <3>5
    <2>4. ~Mapping(l)' /\ call'[l].at # "unmap" /\ ~HasFrame(l)'
          BY <2>3 DEF Mapping, HasFrame
    <2> QED BY <2>1, <2>2, <2>4, KeepsPages DEF Aside
<1>2. ASSUME NEW l \in Levels, map_upper(l) PROVE PagesInv'
    <2>1. PICK u \in page_upper : call' = [call EXCEPT ![l].at = "map", ![l].page = u + 1]
          BY <1>2 DEF map_upper
    <2>2. UNCHANGED entries /\ u + 1 >= BootPages
          BY <1>2, UpperBehindBoot DEF map_upper
    <2>3. /\ call'[l].at = "map" /\ call'[l].page = u + 1 /\ \A k \in Levels \ {l} : call'[k] = call[k]
          BY <2>1 DEF HeapTypes, Call
    <2>4. ~HasFrame(l)'
          BY <2>3 DEF HasFrame
    <2> QED BY <2>2, <2>3, <2>4, KeepsPages
<1>3. ASSUME NEW l \in Levels, map_frame(l) PROVE PagesInv'
    <2>1. /\ call[l].at = "map" /\ call'[l].at = "frame" /\ call'[l].page = call[l].page
          /\ \A k \in Levels \ {l} : call'[k] = call[k]
          /\ UNCHANGED entries
          BY <1>3 DEF map_frame, At, Go, HeapTypes, Call
    <2>2. ~HasFrame(l)' /\ call'[l].page >= BootPages
          BY <2>1 DEF HasFrame, PagesInv, Mapping
    <2> QED BY <2>1, <2>2, KeepsPages
<1>4. ASSUME NEW l \in Levels, map_given(l) PROVE PagesInv'
    <2>1. /\ call[l].at = "frame" /\ get[l].at = "done"
          /\ call'[l].frame = get[l].i /\ call'[l].page = call[l].page
          /\ \A k \in Levels \ {l} : call'[k] = call[k]
          /\ UNCHANGED entries
          BY <1>4 DEF map_given, At, HeapTypes, Call
    <2>2. call'[l].frame \in FrameSet /\ call'[l].page >= BootPages
          BY <2>1 DEF FrameInv, IndexInv, Holding, PagesInv, Mapping
    <2> QED BY <2>1, <2>2, KeepsPages
<1>5. ASSUME NEW l \in Levels, page_map(l) PROVE PagesInv'
    <2>1. /\ call[l].at = "enter" /\ call'[l].frame = call[l].frame /\ call'[l].page = call[l].page
          /\ \A k \in Levels \ {l} : call'[k] = call[k]
          /\ UNCHANGED entries
          BY <1>5 DEF page_map, At, Go, HeapTypes, Call
    <2>2. call'[l].frame \in FrameSet /\ call'[l].page >= BootPages
          BY <2>1 DEF PagesInv, Mapping, HasFrame
    <2> QED BY <2>1, <2>2, KeepsPages
<1>6. ASSUME NEW l \in Levels, page_table(l) PROVE PagesInv'
    <2> DEFINE t == TableOf(call[l].page)
    <2>1. /\ call[l].at = "table" /\ call'[l].at = "entry"
          /\ call'[l].frame = call[l].frame /\ call'[l].page = call[l].page
          /\ \A k \in Levels \ {l} : call'[k] = call[k]
          /\ entries' = [p \in {q \in DOMAIN entries : TableOf(q) # t} |-> entries[p]]
          BY <1>6 DEF page_table, At, Go, HeapTypes, Call
    <2>2. call[l].page \in Nat /\ call[l].page >= BootPages /\ call[l].frame \in FrameSet
          BY <2>1 DEF HeapTypes, Call, PagesInv, Mapping, HasFrame
    <2>3. BootPagesStay'
        <3> SUFFICES ASSUME NEW p \in 0 .. BootPages - 1
                     PROVE  p \in DOMAIN entries' /\ entries'[p] = KernelFrame + p
            BY DEF BootPagesStay
        <3>1. p \in DOMAIN entries /\ entries[p] = KernelFrame + p
              BY DEF PagesInv, BootPagesStay
        <3>2. TableOf(p) # t
              BY <2>2, OtherTable
        <3> HIDE DEF t
        <3> QED BY <2>1, <3>1, <3>2
    <2> HIDE DEF t
    <2>4. \A p \in DOMAIN entries' : p \in DOMAIN entries /\ entries'[p] = entries[p]
          BY <2>1
    <2>5. \A p \in DOMAIN entries' : p \in Nat /\ (p >= BootPages => entries'[p] \in FrameSet)
          BY <2>4 DEF PagesInv
    <2>6. ASSUME NEW k \in Levels
          PROVE  /\ Mapping(k)' \/ call'[k].at = "unmap" => call'[k].page >= BootPages
                 /\ HasFrame(k)' => call'[k].frame \in FrameSet
          BY <2>1, <2>2 DEF PagesInv, Mapping, HasFrame
    <2> QED BY <2>3, <2>5, <2>6 DEF PagesInv
<1>7. ASSUME NEW l \in Levels, page_entry(l) PROVE PagesInv'
    <2>1. /\ call[l].at = "entry" /\ call'[l].at = "map" /\ call'[l].page = call[l].page + 1
          /\ \A k \in Levels \ {l} : call'[k] = call[k]
          /\ \/ UNCHANGED entries
             \/ entries' = [q \in DOMAIN entries \cup {call[l].page} |->
                               IF q = call[l].page THEN call[l].frame ELSE entries[q]]
          BY <1>7 DEF page_entry, At, HeapTypes, Call
    <2>2. call[l].page \in Nat /\ call[l].page >= BootPages /\ call[l].frame \in FrameSet /\ BootPages \in Nat
          BY <2>1, HeapAssumption DEF HeapTypes, Call, PagesInv, Mapping, HasFrame
    <2>3. BootPagesStay'
        <3> SUFFICES ASSUME NEW p \in 0 .. BootPages - 1
                     PROVE  p \in DOMAIN entries' /\ entries'[p] = KernelFrame + p
            BY DEF BootPagesStay
        <3>1. p \in DOMAIN entries /\ entries[p] = KernelFrame + p
              BY DEF PagesInv, BootPagesStay
        <3>2. p # call[l].page
              BY <2>2
        <3> QED BY <2>1, <3>1, <3>2
    <2>4. \A p \in DOMAIN entries' : p \in Nat /\ (p >= BootPages => entries'[p] \in FrameSet)
          BY <2>1, <2>2 DEF PagesInv
    <2>5. ~HasFrame(l)' /\ call'[l].page >= BootPages
          BY <2>1, <2>2 DEF HasFrame
    <2>6. ASSUME NEW k \in Levels
          PROVE  /\ Mapping(k)' \/ call'[k].at = "unmap" => call'[k].page >= BootPages
                 /\ HasFrame(k)' => call'[k].frame \in FrameSet
          BY <2>1, <2>5 DEF PagesInv, Mapping, HasFrame
    <2> QED BY <2>3, <2>4, <2>6 DEF PagesInv
<1>8. ASSUME NEW l \in Levels,
             malloc_block(l) \/ malloc_header(l) \/ malloc_link(l) \/ malloc_last(l) \/ malloc_done(l)
      PROVE  PagesInv'
    <2>1. UNCHANGED entries
          BY <1>8 DEF malloc_block, malloc_header, malloc_link, malloc_last, malloc_done
    <2>2. /\ \A k \in Levels \ {l} : call'[k] = call[k]
          /\ call'[l].at \in {"header", "link", "last", "top", "out"}
          BY <1>8 DEF malloc_block, malloc_header, malloc_link, malloc_last, malloc_done, Go, HeapTypes,
                      Call, NoCall
    <2>3. ~Mapping(l)' /\ call'[l].at # "unmap" /\ ~HasFrame(l)'
          BY <2>2 DEF Mapping, HasFrame
    <2> QED BY <2>1, <2>2, <2>3, KeepsPages
<1>9. ASSUME NEW p \in DOMAIN entries, page_unmap(p) PROVE PagesInv'
    <2>1. /\ p >= BootPages /\ "thread" \in Levels /\ UNCHANGED entries
          /\ call'["thread"].at = "unmap" /\ call'["thread"].page = p
          /\ \A k \in Levels \ {"thread"} : call'[k] = call[k]
          BY <1>9 DEF page_unmap, HeapTypes, Call, Levels
    <2>2. ~HasFrame("thread")'
          BY <2>1 DEF HasFrame
    <2> QED BY <2>1, <2>2, KeepsPages
<1>10. CASE page_unmapped
    <2> DEFINE u == call["thread"].page
    <2>1. /\ call["thread"].at = "unmap" /\ call'["thread"] = NoCall
          /\ \A k \in Levels \ {"thread"} : call'[k] = call[k]
          /\ entries' = [q \in DOMAIN entries \ {u} |-> entries[q]]
          BY <1>10 DEF page_unmapped, At, HeapTypes, Levels
    <2>2. u >= BootPages /\ u \in Nat /\ BootPages \in Nat
          BY <2>1, HeapAssumption DEF PagesInv, HeapTypes, Call, Levels
    <2> HIDE DEF u
    <2>3. BootPagesStay'
        <3> SUFFICES ASSUME NEW p \in 0 .. BootPages - 1
                     PROVE  p \in DOMAIN entries' /\ entries'[p] = KernelFrame + p
            BY DEF BootPagesStay
        <3>1. p \in DOMAIN entries /\ entries[p] = KernelFrame + p /\ p # u
              BY <2>2 DEF PagesInv, BootPagesStay
        <3> QED BY <2>1, <3>1
    <2>4. \A p \in DOMAIN entries' : p \in Nat /\ (p >= BootPages => entries'[p] \in FrameSet)
          BY <2>1 DEF PagesInv
    <2>5. ASSUME NEW k \in Levels
          PROVE  /\ Mapping(k)' \/ call'[k].at = "unmap" => call'[k].page >= BootPages
                 /\ HasFrame(k)' => call'[k].frame \in FrameSet
          BY <2>1 DEF PagesInv, Mapping, HasFrame, NoCall
    <2> QED BY <2>3, <2>4, <2>5 DEF PagesInv
<1>11. CASE user_page \/ user_mapped
    <2>1. /\ UNCHANGED entries /\ "thread" \in Levels
          /\ call'["thread"].at \in {"user", "out"} /\ \A k \in Levels \ {"thread"} : call'[k] = call[k]
          BY <1>11 DEF user_page, user_mapped, Go, HeapTypes, Call, Levels
    <2>2. ~Mapping("thread")' /\ call'["thread"].at # "unmap" /\ ~HasFrame("thread")'
          BY <2>1 DEF Mapping, HasFrame
    <2> QED BY <2>1, <2>2, KeepsPages
<1>12. CASE schedule \/ (\E l \in Levels : frame_step(l)) \/ UNCHANGED allvars
    <2>1. UNCHANGED <<entries, call>>
          BY <1>12 DEF schedule, frame_step, allvars, hvars
    <2> QED BY <2>1 DEF PagesInv, BootPagesStay, Mapping, HasFrame
<1> QED BY <1>1, <1>2, <1>3, <1>4, <1>5, <1>6, <1>7, <1>8, <1>9, <1>10, <1>11, <1>12 DEF HNext

\* Every step of the heap is a step of the frame allocator or leaves it alone.
LEMMA StepFrames == PagesInv /\ [HNext]_allvars => [Next]_vars
<1> SUFFICES ASSUME PagesInv, [HNext]_allvars PROVE [Next]_vars
    OBVIOUS
<1>1. ASSUME NEW l \in Levels,
             frame_get(l) \/ frame_return(l) \/ FrameStep(l) \/ UNCHANGED vars
      PROVE  [Next]_vars
      BY <1>1 DEF Next
<1>2. ASSUME NEW l \in Levels,
             map_frame(l) \/ map_denied(l) \/ map_given(l) \/ page_map(l) \/ page_table(l) \/ frame_step(l)
      PROVE  [Next]_vars
      BY <1>1, <1>2 DEF map_frame, map_denied, map_given, page_map, page_table, frame_step
<1>3. ASSUME NEW p \in DOMAIN entries, page_unmap(p) PROVE [Next]_vars
    <2>1. entries[p] \in FrameSet /\ frame_free(entries[p])
          BY <1>3 DEF page_unmap, PagesInv
    <2> QED BY <2>1 DEF Next
<1>4. CASE page_unmapped \/ user_page \/ user_mapped
    <2>1. "thread" \in Levels
          BY DEF Levels
    <2> QED BY <1>1, <1>4, <2>1 DEF page_unmapped, user_page, user_mapped
<1>5. ASSUME NEW l \in Levels,
             \/ \E size \in Sizes : malloc(l, size)
             \/ malloc_sum(l) \/ malloc_test(l) \/ expand(l) \/ map_upper(l)
             \/ page_entry(l) \/ mapped_until(l)
             \/ malloc_block(l) \/ malloc_header(l) \/ malloc_link(l)
             \/ malloc_last(l) \/ malloc_done(l)
      PROVE  [Next]_vars
      BY <1>5 DEF malloc, malloc_sum, malloc_test, expand, map_upper, page_entry, mapped_until,
                  malloc_block, malloc_header, malloc_link, malloc_last, malloc_done
<1>6. CASE schedule \/ UNCHANGED allvars
      BY <1>6 DEF schedule, allvars
<1> QED BY <1>2, <1>3, <1>4, <1>5, <1>6 DEF HNext

\* The invariant that the heap's other facts rest on.
HeapInv == TypesInv /\ PagesInv /\ FrameInv

LEMMA HeapInvariant == HSpec => []HeapInv
<1>1. mm => PagesInv
    <2> SUFFICES ASSUME mm PROVE PagesInv
        OBVIOUS
    <2>1. entries = [p \in 0 .. BootPages - 1 |-> KernelFrame + p] /\ \A l \in Levels : call[l].at = "out"
          BY DEF mm, NoCall
    <2>2. \A l \in Levels : ~Mapping(l) /\ call[l].at # "unmap" /\ ~HasFrame(l)
          BY <2>1 DEF Mapping, HasFrame
    <2>3. \A p \in 0 .. BootPages - 1 : p \in Nat /\ ~(p >= BootPages)
          BY HeapAssumption
    <2> QED BY <2>1, <2>2, <2>3 DEF PagesInv, BootPagesStay
<1>2. mm => FrameInv
      BY SetupFrameInv DEF mm
<1>3. HeapInv /\ [HNext]_allvars => HeapInv'
      BY StepTypes, StepPages, StepFrames, NextFrameInv DEF HeapInv
<1> QED BY <1>1, <1>2, <1>3, InitTypes, PTL DEF HSpec, HeapInv

\* The heap uses the frame allocator as Frame.tla specifies it: the frame_get of
\* an interrupt's malloc may come between any two accesses of a thread's, and
\* page_upper may find anything in memory.
THEOREM HeapUsesFrames == HSpec => UsesFrames
<1>1. mm => frame_setup
      BY DEF mm
<1>2. HeapInv => PagesInv
      BY DEF HeapInv
<1> QED BY <1>1, <1>2, HeapInvariant, StepFrames, PTL DEF HSpec, UsesFrames, Spec

\* So no page of the heap is in one of the kernel's reserved frames, and no two
\* callers own a frame, unless an interrupt took the byte a thread had tested.
THEOREM HeapFramesNotShared == HSpec => []FramesNotShared
<1>1. UsesFrames => Spec
      BY PTL DEF UsesFrames, Spec
<1> QED BY <1>1, HeapUsesFrames, FramesNeverShared, PTL

\* And frames_free counts the frames that nobody has taken, but for the
\* decrements an interrupt made inside a thread's.
THEOREM HeapFreeIsCounted == HSpec => []FreeIsCounted
<1>1. UsesFrames => Spec
      BY PTL DEF UsesFrames, Spec
<1> QED BY <1>1, HeapUsesFrames, FreeAlwaysCounted, PTL

\* The pages that start.asm mapped keep their frames, whatever page_upper finds
\* at address 0 or in a table that was not cleared: its walk passes them, since
\* their entries are never zero, and the tables page_map makes are never theirs.
THEOREM BootPagesAlwaysStay == HSpec => []BootPagesStay
<1>1. HeapInv => BootPagesStay
      BY DEF HeapInv, PagesInv
<1> QED BY <1>1, HeapInvariant, PTL

-----------------------------------------------------------------------------
(* Blocks.                                                                  *)

EndOf(block) == block[1] + Header + block[2]

\* One malloc at a time places its block, behind every block handed out.
PlaceInv ==
    /\ ~(Placing("thread") /\ Placing("irq"))
    /\ \A l \in Levels : /\ Placing(l) => call[l].b = malloc_top
                         /\ Placed(l) => mblocks[call[l].b].size = call[l].size
    /\ \A i \in 1 .. Len(handed) : EndOf(handed[i]) <= malloc_top

BlockInv == (~raced => PlaceInv) /\ BlocksDisjoint

\* A step that leaves blocks, malloc_top and handed alone, and no malloc closer
\* to its end, keeps BlockInv.
LEMMA KeepsPlaces ==
    ASSUME BlockInv, UNCHANGED <<malloc_top, mblocks, handed>>, raced => raced',
           \A l \in Levels : /\ Placing(l)' => Placing(l)
                             /\ Placed(l)' => Placed(l)
                             /\ Placing(l)' => call'[l].b = call[l].b /\ call'[l].size = call[l].size
    PROVE  BlockInv'
<1>1. ASSUME ~raced' PROVE PlaceInv'
    <2>1. PlaceInv
          BY <1>1 DEF BlockInv
    <2>2. \A l \in Levels : Placed(l)' => Placing(l)'
          BY DEF Placed, Placing
    <2>3. "thread" \in Levels /\ "irq" \in Levels
          BY DEF Levels
    <2> QED BY <2>1, <2>2, <2>3 DEF PlaceInv, EndOf
<1>2. BlocksDisjoint'
      BY DEF BlockInv, BlocksDisjoint
<1> QED BY <1>1, <1>2 DEF BlockInv

\* Every step keeps the next block behind every block handed out.
LEMMA StepBlocks == TypesInv /\ BlockInv /\ [HNext]_allvars => BlockInv'
<1> SUFFICES ASSUME HeapTypes, BlockTypes, BlockInv, [HNext]_allvars PROVE BlockInv'
    BY DEF TypesInv
<1>1. ASSUME NEW l \in Levels, Aside(l) PROVE BlockInv'
    <2>1. \A k \in Levels : /\ Placing(k)' => Placing(k)
                            /\ Placed(k)' => Placed(k)
                            /\ Placing(k)' => call'[k].b = call[k].b /\ call'[k].size = call[k].size
          BY <1>1 DEF Aside, Placing, Placed
    <2> QED BY <1>1, <2>1, KeepsPlaces DEF Aside
<1>2. CASE UNCHANGED <<malloc_top, last_block, mblocks, handed, raced, call>>
      BY <1>2, KeepsPlaces DEF Placing, Placed
<1>3. ASSUME NEW l \in Levels, malloc_block(l) PROVE BlockInv'
    <2>1. ASSUME ~raced' PROVE PlaceInv'
        <3>1. PlaceInv /\ (l = "irq" => ~Placing("thread"))
              BY <1>3, <2>1 DEF malloc_block, BlockInv
        <3>2. l = "thread" => ~Placing("irq")
              BY <1>3 DEF malloc_block, At, On, Placing
        <3>3. /\ call'[l].at = "header" /\ call'[l].b = malloc_top
              /\ \A k \in Levels \ {l} : call'[k] = call[k]
              /\ UNCHANGED <<malloc_top, mblocks, handed>>
              BY <1>3 DEF malloc_block, HeapTypes, Call
        <3> QED BY <3>1, <3>2, <3>3 DEF PlaceInv, Placing, Placed, Levels, EndOf
    <2>2. BlocksDisjoint'
          BY <1>3 DEF malloc_block, BlockInv, BlocksDisjoint
    <2> QED BY <2>1, <2>2 DEF BlockInv
<1>4. ASSUME NEW l \in Levels, malloc_header(l) PROVE BlockInv'
    <2>1. ASSUME ~raced' PROVE PlaceInv'
        <3>1. PlaceInv
              BY <1>4, <2>1 DEF malloc_header, BlockInv
        <3>2. /\ call[l].at = "header" /\ call'[l].at = "link"
              /\ call'[l].b = call[l].b /\ call'[l].size = call[l].size
              /\ \A k \in Levels \ {l} : call'[k] = call[k]
              /\ UNCHANGED <<malloc_top, handed>>
              /\ mblocks'[call[l].b].size = call[l].size
              BY <1>4 DEF malloc_header, At, Go, HeapTypes, Call
        <3>3. \A k \in Levels \ {l} : ~Placing(k)
              BY <3>1, <3>2 DEF PlaceInv, Placing, Levels
        <3> QED BY <3>1, <3>2, <3>3 DEF PlaceInv, Placing, Placed, Levels, EndOf
    <2>2. BlocksDisjoint'
          BY <1>4 DEF malloc_header, BlockInv, BlocksDisjoint
    <2> QED BY <2>1, <2>2 DEF BlockInv
<1>5. ASSUME NEW l \in Levels, malloc_link(l) PROVE BlockInv'
    <2>1. ASSUME ~raced' PROVE PlaceInv'
        <3>1. PlaceInv
              BY <1>5, <2>1 DEF malloc_link, BlockInv
        <3>2. /\ call[l].at = "link" /\ call'[l].at = "last"
              /\ call'[l].b = call[l].b /\ call'[l].size = call[l].size
              /\ \A k \in Levels \ {l} : call'[k] = call[k]
              /\ UNCHANGED <<malloc_top, handed>>
              BY <1>5 DEF malloc_link, At, Go, HeapTypes, Call
        <3>3. \A a \in DOMAIN mblocks : mblocks'[a].size = mblocks[a].size
              BY <1>5 DEF malloc_link, BlockTypes
        <3> QED BY <3>1, <3>2, <3>3 DEF PlaceInv, Placing, Placed, Levels, EndOf, BlockTypes
    <2>2. BlocksDisjoint'
          BY <1>5 DEF malloc_link, BlockInv, BlocksDisjoint
    <2> QED BY <2>1, <2>2 DEF BlockInv
<1>6. ASSUME NEW l \in Levels, malloc_last(l) PROVE BlockInv'
    <2>1. \A k \in Levels : /\ Placing(k)' => Placing(k)
                            /\ Placed(k)' => Placed(k)
                            /\ Placing(k)' => call'[k].b = call[k].b /\ call'[k].size = call[k].size
          BY <1>6 DEF malloc_last, At, Go, HeapTypes, Call, Placing, Placed
    <2>2. UNCHANGED <<malloc_top, mblocks, handed, raced>>
          BY <1>6 DEF malloc_last
    <2> QED BY <2>1, <2>2, KeepsPlaces
<1>7. ASSUME NEW l \in Levels, malloc_done(l) PROVE BlockInv'
    <2> DEFINE new == <<call[l].b, call[l].size>>
    <2>1. /\ call[l].at = "top"
          /\ handed' = Append(handed, new)
          /\ call'[l].at = "out"
          /\ \A k \in Levels \ {l} : call'[k] = call[k]
          /\ UNCHANGED <<mblocks, raced>>
          /\ malloc_top' = call[l].b + Header + mblocks[call[l].b].size
          BY <1>7 DEF malloc_done, At, HeapTypes, Call, NoCall
    <2>2. SUFFICES ASSUME ~raced' PROVE PlaceInv' /\ BlocksDisjoint'
          BY DEF BlockInv, BlocksDisjoint
    <2>3. PlaceInv /\ BlocksDisjoint /\ ~raced
          BY <2>1, <2>2 DEF BlockInv
    <2>4. call[l].b = malloc_top /\ malloc_top' = EndOf(new) /\ call[l].size \in Nat
        <3>1. call[l].b = malloc_top /\ mblocks[call[l].b].size = call[l].size
            <4>1. Placing(l) /\ Placed(l)
                  BY <2>1 DEF Placing, Placed
            <4> QED BY <2>3, <4>1, Zenon DEF PlaceInv
        <3>2. malloc_top' = EndOf(new)
              BY <2>1, <3>1 DEF EndOf
        <3>3. call[l].size \in Nat
              BY DEF HeapTypes, Call
        <3> QED BY <3>1, <3>2, <3>3
    <2>5. malloc_top \in Nat /\ malloc_top' \in Nat /\ malloc_top <= malloc_top'
          BY <2>4, HeapAssumption DEF EndOf, HeapTypes
    <2>6. /\ Len(handed') = Len(handed) + 1
          /\ handed'[Len(handed) + 1] = new
          /\ \A i \in 1 .. Len(handed) : handed'[i] = handed[i] /\ EndOf(handed[i]) \in Nat
          /\ Len(handed) \in Nat
        <3>1. handed \in Seq(Nat \X Nat) /\ new \in Nat \X Nat
              BY DEF HeapTypes, Call
        <3>2. \A i \in 1 .. Len(handed) : EndOf(handed[i]) \in Nat
            <4> TAKE i \in 1 .. Len(handed)
            <4>1. handed[i] \in Nat \X Nat
                  BY <3>1
            <4> QED BY <4>1, HeapAssumption DEF EndOf
        <3> QED BY <2>1, <3>1, <3>2
    <2>7. PlaceInv'
        <3>1. \A i \in 1 .. Len(handed') : EndOf(handed'[i]) <= malloc_top'
              BY <2>3, <2>4, <2>5, <2>6, SMTT(30) DEF PlaceInv
        <3>2. \A k \in Levels \ {l} : ~Placing(k)
              BY <2>1, <2>3 DEF PlaceInv, Placing, Levels
        <3> QED BY <2>1, <3>1, <3>2 DEF PlaceInv, Placing, Placed, Levels, EndOf
    <2>8. BlocksDisjoint'
        <3>1. \A i \in 1 .. Len(handed) : EndOf(handed[i]) <= new[1]
              BY <2>3, <2>4 DEF PlaceInv
        <3>2. \A i, j \in 1 .. Len(handed) : i # j => \/ EndOf(handed[i]) <= handed[j][1]
                                                      \/ EndOf(handed[j]) <= handed[i][1]
              BY <2>3 DEF BlocksDisjoint, EndOf
        <3>3. \A i, j \in 1 .. Len(handed') : i # j => \/ EndOf(handed'[i]) <= handed'[j][1]
                                                       \/ EndOf(handed'[j]) <= handed'[i][1]
              BY <2>6, <3>1, <3>2, SMTT(30)
        <3> QED BY <3>3 DEF BlocksDisjoint, EndOf
    <2> QED BY <2>7, <2>8
<1> QED BY <1>1, <1>2, <1>3, <1>4, <1>5, <1>6, <1>7, HeapSteps

\* No block is handed out before the first malloc.
LEMMA InitBlocks == mm => BlockInv
  BY DEF mm, BlockInv, PlaceInv, BlocksDisjoint, NoCall, Placing, Placed, Levels

\* The blocks malloc returns are disjoint, for any sizes and any number of blocks,
\* until an interrupt's malloc takes malloc_top while a thread places its block.
THEOREM BlocksAlwaysDisjoint == HSpec => []BlocksDisjoint
<1>1. BlockInv => BlocksDisjoint
      BY DEF BlockInv
<1>2. HSpec => []BlockInv
      BY HeapInvariant, InitBlocks, StepBlocks, PTL DEF HSpec, HeapInv
<1> QED BY <1>1, <1>2, PTL

-----------------------------------------------------------------------------
(* The header that expand() leaves out.                                     *)

\* What the malloc in progress has made sure of: its size fits below heap.
RoomInv(l) ==
    /\ call[l].at = "test" => call[l].last = malloc_top + call[l].size + Header
    /\ Mapping(l) \/ call[l].at = "upper" => call[l].last = PageOf(malloc_top + call[l].size)
    /\ call[l].at = "block" \/ Placing(l) => malloc_top + call[l].size < heap

\* HeaderShort, and also while a malloc is in progress.
TopInv == ~nested /\ ~denied /\ handed # <<>> => malloc_top < heap + Header

ShortInv ==
    /\ raced => nested
    /\ ~nested => \E l \in Levels : call[l].at = "out"
    /\ ~nested /\ ~denied => \A l \in Levels : RoomInv(l)
    /\ TopInv

\* A step of level l that does not end a malloc.
LEMMA KeepsShort ==
    ASSUME ShortInv, HeapTypes, heap' \in Nat, NEW l \in Levels, ~nested => \A k \in Levels \ {l} : call[k].at = "out",
           UNCHANGED <<malloc_top, handed>>, raced' => nested', nested' = nested, denied => denied',
           \A k \in Levels \ {l} : call'[k] = call[k],
           ~nested /\ ~denied' => RoomInv(l)' /\ (heap' = heap \/ malloc_top < heap')
    PROVE  ShortInv'
<1>1. ~nested' /\ ~denied' => \A k \in Levels : RoomInv(k)'
      BY DEF RoomInv, Mapping, Placing
<1>2. ~nested' => \E k \in Levels : call'[k].at = "out"
      BY DEF Levels
<1>3. TopInv'
    <2> SUFFICES ASSUME ~nested, ~denied', handed # <<>> PROVE malloc_top < heap' + Header
        BY DEF TopInv
    <2>1. CASE heap' = heap
          BY <2>1 DEF ShortInv, TopInv
    <2>2. CASE malloc_top < heap'
        <3>1. malloc_top \in Nat /\ Header \in Nat
              BY HeapAssumption DEF HeapTypes
        <3> QED BY <2>2, <3>1
    <2> QED BY <2>1, <2>2
<1> QED BY <1>1, <1>2, <1>3 DEF ShortInv

\* Every step keeps the bound on what lies outside the heap.
LEMMA StepShort == HeapInv /\ HeapInv' /\ BlockInv /\ ShortInv /\ [HNext]_allvars => ShortInv'
<1> SUFFICES ASSUME HeapTypes, heap' \in Nat, BlockTypes, BlockInv, ShortInv, [HNext]_allvars
             PROVE  ShortInv'
    BY DEF HeapInv, TypesInv, HeapTypes
<1>1. ASSUME NEW l \in Levels, NEW size \in Sizes, malloc(l, size) PROVE ShortInv'
    <2>1. /\ call[l].at = "out" /\ call'[l].at = "sum"
          /\ \A k \in Levels \ {l} : call'[k] = call[k]
          /\ UNCHANGED <<malloc_top, heap, denied, raced, handed>>
          BY <1>1 DEF malloc, At, HeapTypes, NoCall
    <2>2. ~nested' => ~nested /\ \A k \in Levels \ {l} : call[k].at = "out"
          BY <1>1 DEF malloc, At, On, Levels
    <2>3. ~nested' /\ ~denied' => \A k \in Levels : RoomInv(k)'
          BY <2>1, <2>2 DEF RoomInv, Mapping, Placing
    <2>4. nested => nested'
          BY <1>1, Zenon DEF malloc
    <2>5. TopInv'
          BY <2>1, <2>4 DEF ShortInv, TopInv
    <2>6. ~nested' => \E k \in Levels : call'[k].at = "out"
          BY <2>1, <2>2 DEF Levels
    <2>7. raced' => nested'
          BY <2>1, <2>4, Zenon DEF ShortInv
    <2> QED BY <2>3, <2>5, <2>6, <2>7 DEF ShortInv
<1>2. ASSUME NEW l \in Levels, call[l].at # "out" PROVE ~nested => \A k \in Levels \ {l} : call[k].at = "out"
      BY <1>2 DEF ShortInv, Levels
<1>3. ASSUME NEW l \in Levels, call[l].at # "out", \A k \in Levels \ {l} : call'[k] = call[k],
             UNCHANGED <<malloc_top, heap, handed, raced, nested>>, denied => denied',
             ~nested /\ ~denied' => RoomInv(l)'
      PROVE  ShortInv'
    <2>1. ~nested => \A k \in Levels \ {l} : call[k].at = "out"
          BY <1>2, <1>3
    <2>2. raced' => nested'
          BY <1>3 DEF ShortInv
    <2> QED BY <1>3, <2>1, <2>2, KeepsShort
<1>4. ASSUME NEW l \in Levels, malloc_sum(l) PROVE ShortInv'
    <2>1. /\ call[l].at = "sum" /\ call'[l].at = "test" /\ call'[l].size = call[l].size
          /\ call'[l].last = malloc_top + call[l].size + Header
          /\ \A k \in Levels \ {l} : call'[k] = call[k]
          /\ UNCHANGED <<malloc_top, heap, handed, denied, raced, nested>>
          BY <1>4 DEF malloc_sum, At, HeapTypes, Call
    <2>2. RoomInv(l)'
          BY <2>1 DEF RoomInv, Mapping, Placing
    <2> QED BY <1>3, <2>1, <2>2
<1>5. ASSUME NEW l \in Levels, malloc_test(l) PROVE ShortInv'
    <2>1. /\ call[l].at = "test" /\ call'[l].size = call[l].size
          /\ \A k \in Levels \ {l} : call'[k] = call[k]
          /\ UNCHANGED <<malloc_top, heap, handed, denied, raced, nested>>
          /\ \/ call'[l].at = "expand"
             \/ call'[l].at = "block" /\ ~(call[l].last > heap)
          BY <1>5 DEF malloc_test, At, Go, HeapTypes, Call
    <2>2. ASSUME ~nested, ~denied' PROVE RoomInv(l)'
        <3>1. call[l].last = malloc_top + call[l].size + Header
              BY <2>1, <2>2 DEF ShortInv, RoomInv
        <3>2. /\ malloc_top \in Nat /\ call[l].size \in Nat /\ heap \in Nat
              /\ Header \in Nat \ {0}
              BY HeapAssumption DEF HeapTypes, Call
        <3>3. ~(call[l].last > heap) => malloc_top + call[l].size < heap
              BY <3>1, <3>2
        <3> QED BY <2>1, <3>3 DEF RoomInv, Mapping, Placing
    <2> QED BY <1>3, <2>1, <2>2
<1>6. ASSUME NEW l \in Levels, expand(l) PROVE ShortInv'
    <2>1. /\ call[l].at = "expand" /\ call'[l].at = "upper"
          /\ call'[l].last = PageOf(malloc_top + call[l].size) /\ call'[l].size = call[l].size
          /\ \A k \in Levels \ {l} : call'[k] = call[k]
          /\ UNCHANGED <<malloc_top, heap, handed, denied, raced, nested>>
          BY <1>6 DEF expand, At, HeapTypes, Call
    <2>2. RoomInv(l)'
          BY <2>1 DEF RoomInv, Mapping, Placing
    <2> QED BY <1>3, <2>1, <2>2
<1>7. ASSUME NEW l \in Levels,
             map_upper(l) \/ map_frame(l) \/ map_given(l) \/ page_map(l) \/ page_table(l) \/ page_entry(l)
      PROVE  ShortInv'
    <2>1. /\ Mapping(l) \/ call[l].at = "upper"
          /\ Mapping(l)' /\ call'[l].last = call[l].last /\ call'[l].size = call[l].size
          /\ \A k \in Levels \ {l} : call'[k] = call[k]
          /\ UNCHANGED <<malloc_top, heap, handed, raced, nested>>
          /\ denied => denied'
        <3> USE DEF Mapping, At, Go, HeapTypes, Call
        <3>1. CASE map_upper(l)
            <4>1. PICK u \in page_upper : call' = [call EXCEPT ![l].at = "map", ![l].page = u + 1]
                  BY <3>1 DEF map_upper
            <4>2. call[l].at = "upper" /\ UNCHANGED <<malloc_top, heap, handed, raced, nested, denied>>
                  BY <3>1 DEF map_upper
            <4> QED BY <4>1, <4>2
        <3>2. CASE map_frame(l)
              BY <3>2 DEF map_frame
        <3>3. CASE map_given(l)
              BY <3>3 DEF map_given
        <3>4. CASE page_map(l)
              BY <3>4 DEF page_map
        <3>5. CASE page_table(l)
            <4>1. /\ call[l].at = "table" /\ call' = [call EXCEPT ![l].at = "entry"]
                  /\ UNCHANGED <<malloc_top, heap, handed, raced, nested>>
                  /\ denied' = (denied \/ get[l].at = "none")
                  BY <3>5 DEF page_table
            <4> QED BY <4>1
        <3>6. CASE page_entry(l)
              BY <3>6 DEF page_entry
        <3> QED BY <1>7, <3>1, <3>2, <3>3, <3>4, <3>5, <3>6
    <2>2. ASSUME ~nested, ~denied' PROVE RoomInv(l)'
        <3>1. call[l].last = PageOf(malloc_top + call[l].size)
              BY <2>1, <2>2 DEF ShortInv, RoomInv
        <3>2. call'[l].at \notin {"test", "block"} /\ ~Placing(l)'
              BY <2>1 DEF Mapping, Placing
        <3> QED BY <2>1, <3>1, <3>2 DEF RoomInv
    <2>3. call[l].at # "out"
          BY <2>1 DEF Mapping
    <2> QED BY <1>3, <2>1, <2>2, <2>3
<1>8. ASSUME NEW l \in Levels, map_denied(l) PROVE ShortInv'
    <2>1. /\ call[l].at = "frame" /\ denied' /\ \A k \in Levels \ {l} : call'[k] = call[k]
          /\ UNCHANGED <<malloc_top, handed, raced, nested>>
          BY <1>8 DEF map_denied, At, Go, HeapTypes, Call
    <2>2. ~nested => \A k \in Levels \ {l} : call[k].at = "out"
          BY <1>2, <2>1
    <2>3. raced' => nested'
          BY <2>1 DEF ShortInv
    <2> QED BY <2>1, <2>2, <2>3, KeepsShort
<1>9. ASSUME NEW l \in Levels, mapped_until(l) PROVE ShortInv'
    <2>1. /\ call[l].at = "map" /\ call'[l].at = "block" /\ call'[l].size = call[l].size
          /\ \A k \in Levels \ {l} : call'[k] = call[k]
          /\ heap' = (call[l].last + 1) * PageSize
          /\ UNCHANGED <<malloc_top, handed, denied, raced, nested>>
          BY <1>9 DEF mapped_until, At, Go, HeapTypes, Call
    <2>2. ASSUME ~nested, ~denied' PROVE RoomInv(l)' /\ malloc_top < heap'
        <3>1. call[l].last = PageOf(malloc_top + call[l].size)
              BY <2>1, <2>2 DEF ShortInv, RoomInv, Mapping
        <3>2. malloc_top \in Nat /\ call[l].size \in Nat /\ malloc_top + call[l].size \in Nat /\ heap' \in Nat
              BY DEF HeapTypes, Call
        <3>3. malloc_top + call[l].size < heap'
              BY <2>1, <3>1, <3>2, PageOfNat
        <3>4. malloc_top < heap'
              BY <3>2, <3>3
        <3> QED BY <2>1, <3>3, <3>4 DEF RoomInv, Mapping, Placing
    <2>3. ~nested => \A k \in Levels \ {l} : call[k].at = "out"
          BY <1>2, <2>1
    <2>4. raced' => nested'
          BY <2>1 DEF ShortInv
    <2> QED BY <2>1, <2>2, <2>3, <2>4, KeepsShort
<1>10. ASSUME NEW l \in Levels, malloc_block(l) PROVE ShortInv'
    <2>1. /\ call[l].at = "block" /\ call'[l].at = "header" /\ call'[l].size = call[l].size
          /\ \A k \in Levels \ {l} : call'[k] = call[k]
          /\ UNCHANGED <<malloc_top, heap, handed, denied, nested>>
          BY <1>10 DEF malloc_block, At, HeapTypes, Call
    <2>2. ~nested /\ ~denied' => RoomInv(l)'
          BY <2>1 DEF ShortInv, RoomInv, Mapping, Placing
    <2>3. raced' => nested'
        <3>1. ASSUME l = "irq", Placing("thread") PROVE nested
              BY <2>1, <3>1 DEF ShortInv, Placing, Levels
        <3>2. raced' => raced \/ (l = "irq" /\ Placing("thread"))
              BY <1>10, Zenon DEF malloc_block
        <3> QED BY <2>1, <3>1, <3>2, Zenon DEF ShortInv
    <2>4. ~nested => \A k \in Levels \ {l} : call[k].at = "out"
          BY <1>2, <2>1
    <2> QED BY <2>1, <2>2, <2>3, <2>4, KeepsShort
<1>11. ASSUME NEW l \in Levels, malloc_header(l) \/ malloc_link(l) \/ malloc_last(l) PROVE ShortInv'
    <2>1. /\ Placing(l) /\ Placing(l)' /\ call'[l].size = call[l].size
          /\ \A k \in Levels \ {l} : call'[k] = call[k]
          /\ UNCHANGED <<malloc_top, heap, handed, denied, raced, nested>>
        <3>1. CASE malloc_header(l)
              BY <3>1 DEF malloc_header, At, Go, HeapTypes, Call, Placing
        <3>2. CASE malloc_link(l)
              BY <3>2 DEF malloc_link, At, Go, HeapTypes, Call, Placing
        <3>3. CASE malloc_last(l)
              BY <3>3 DEF malloc_last, At, Go, HeapTypes, Call, Placing
        <3> QED BY <1>11, <3>1, <3>2, <3>3
    <2>2. /\ call[l].at # "out" /\ ~Mapping(l)' /\ call'[l].at \notin {"test", "upper", "block"}
          BY <2>1 DEF Placing, Mapping
    <2>3. ~nested /\ ~denied' => RoomInv(l)'
          BY <2>1, <2>2 DEF ShortInv, RoomInv
    <2> QED BY <1>3, <2>1, <2>2, <2>3
<1>12. ASSUME NEW l \in Levels, malloc_done(l) PROVE ShortInv'
    <2>1. /\ call[l].at = "top" /\ call'[l].at = "out"
          /\ \A k \in Levels \ {l} : call'[k] = call[k]
          /\ UNCHANGED <<heap, denied, raced, nested>>
          /\ malloc_top' = call[l].b + Header + mblocks[call[l].b].size
          BY <1>12 DEF malloc_done, At, HeapTypes, NoCall
    <2>2. ~nested => \A k \in Levels \ {l} : call[k].at = "out"
          BY <1>2, <2>1
    <2>3. ~nested' /\ ~denied' => \A k \in Levels : RoomInv(k)'
          BY <2>1, <2>2 DEF RoomInv, Mapping, Placing
    <2>4. ASSUME ~nested, ~denied PROVE malloc_top' < heap' + Header
        <3>1. ~raced /\ Placing(l) /\ Placed(l)
              BY <2>1, <2>4 DEF ShortInv, Placing, Placed
        <3>2. call[l].b = malloc_top /\ mblocks[call[l].b].size = call[l].size
              BY <3>1 DEF BlockInv, PlaceInv
        <3>3. malloc_top + call[l].size < heap
              BY <2>4, <3>1 DEF ShortInv, RoomInv
        <3>4. malloc_top \in Nat /\ call[l].size \in Nat /\ heap \in Nat /\ Header \in Nat
              BY HeapAssumption DEF HeapTypes, Call
        <3>5. malloc_top' = malloc_top + Header + call[l].size
              BY <2>1, <3>2
        <3> QED BY <2>1, <3>3, <3>4, <3>5
    <2>5. TopInv'
          BY <2>1, <2>4 DEF TopInv
    <2> QED BY <2>1, <2>3, <2>5 DEF ShortInv
<1>13. CASE (\E p \in DOMAIN entries : page_unmap(p)) \/ page_unmapped \/ user_page \/ user_mapped
    <2>1. /\ call["irq"].at = "out" /\ UNCHANGED <<heap, denied, nested>>
          BY <1>13 DEF page_unmap, page_unmapped, user_page, user_mapped, At, On
    <2>2. Aside("thread") /\ "thread" \in Levels
          BY <1>13, AsideUsers DEF Levels
    <2>3. call'["thread"].at \in {"unmap", "user", "out"}
        <3> USE DEF HeapTypes, Call, Levels
        <3>1. ASSUME NEW p \in DOMAIN entries, page_unmap(p) PROVE call'["thread"].at = "unmap"
              BY <3>1 DEF page_unmap
        <3>2. page_unmapped => call'["thread"].at = "out"
              BY DEF page_unmapped, NoCall
        <3>3. user_page \/ user_mapped => call'["thread"].at \in {"user", "out"}
              BY DEF user_page, user_mapped, Go
        <3> QED BY <1>13, <3>1, <3>2, <3>3
    <2>4. RoomInv("thread")'
          BY <2>3 DEF RoomInv, Mapping, Placing
    <2>5. \A k \in Levels \ {"thread"} : call[k].at = "out"
          BY <2>1 DEF Levels
    <2>6. raced' => nested'
          BY <2>1, <2>2 DEF ShortInv, Aside
    <2> QED BY <2>1, <2>2, <2>4, <2>5, <2>6, KeepsShort DEF Aside
<1>14. CASE schedule \/ (\E l \in Levels : frame_step(l)) \/ UNCHANGED allvars
    <2>1. UNCHANGED <<malloc_top, heap, call, handed, denied, nested, raced>>
          BY <1>14 DEF schedule, frame_step, allvars, hvars
    <2> QED BY <2>1 DEF ShortInv, RoomInv, TopInv, Mapping, Placing
<1> QED BY <1>1, <1>4, <1>5, <1>6, <1>7, <1>8, <1>9, <1>10, <1>11, <1>12, <1>13, <1>14 DEF HNext

\* No malloc is in progress at the start.
LEMMA InitShort == mm => ShortInv
  BY DEF mm, ShortInv, RoomInv, TopInv, NoCall, Mapping, Placing, Levels

\* Of the last block less than a header lies outside the heap, for every page
\* size, header size and block size, as long as no malloc came into another and
\* memory lasted: expand() forgets the header, and forgets no more.
THEOREM HeaderAlwaysShort == HSpec => []HeaderShort
<1>1. ShortInv => HeaderShort
      BY DEF ShortInv, TopInv, HeaderShort
<1>2. HSpec => []BlockInv
      BY HeapInvariant, InitBlocks, StepBlocks, PTL DEF HSpec, HeapInv
<1>3. HSpec => []ShortInv
      BY <1>2, HeapInvariant, InitShort, StepShort, PTL DEF HSpec
<1> QED BY <1>1, <1>3, PTL

-----------------------------------------------------------------------------
(* The list.  Its nodes are numbered: 0 the root, i the i-th block returned. *)

Node == [i \in 0 .. Len(handed) |-> IF i = 0 THEN KernelEnd ELSE handed[i][1]]
NodeSize == [i \in 0 .. Len(handed) |-> IF i = 0 THEN 1 ELSE handed[i][2]]

\* How far the list is with the block a malloc is placing: its header is stored,
\* the list leads to it, last_block is it.
Reached(steps) == \E l \in Levels : call[l].at \in steps
Stage == IF Reached({"top"}) THEN 3
         ELSE IF Reached({"last"}) THEN 2
         ELSE IF Reached({"link"}) THEN 1 ELSE 0

\* Nodes c of sizes s, each behind the one before it, the next block at top.
Row(n, c, s, top) ==
    /\ \A i \in 0 .. n : c[i] < top
    /\ \A i, j \in 0 .. n : i < j => c[i] < c[j]
    /\ \A i \in 0 .. n - 1 : c[i + 1] = c[i] + Header + s[i]
    /\ top = c[n] + Header + s[n]

\* The blocks m are these nodes and, from stage 1 on, the one at top; each leads
\* to the next.
Linked(n, c, s, m, top, last, stage) ==
    /\ \A i \in 0 .. n : c[i] \in DOMAIN m /\ m[c[i]].size = s[i]
    /\ \A i \in 0 .. n - 1 : m[c[i]].next = c[i + 1]
    /\ \A a \in DOMAIN m : (\E i \in 0 .. n : a = c[i]) \/ (stage >= 1 /\ a = top)
    /\ stage >= 1 => top \in DOMAIN m /\ m[top].next = Null
    /\ m[c[n]].next = IF stage >= 2 THEN top ELSE Null
    /\ last = IF stage = 3 THEN top ELSE c[n]

\* There are as many as the walk takes steps.
Counted(n, m, stage) ==
    /\ IsFiniteSet(DOMAIN m)
    /\ Cardinality(DOMAIN m) = n + 1 + (IF stage >= 1 THEN 1 ELSE 0)

ListInv ==
    ~raced => /\ Row(Len(handed), Node, NodeSize, malloc_top)
              /\ Linked(Len(handed), Node, NodeSize, mblocks, malloc_top, last_block, Stage)
              /\ Counted(Len(handed), mblocks, Stage)

LEMMA NodeTypes ==
    ASSUME HeapTypes
    PROVE  /\ Len(handed) \in Nat
           /\ Node \in [0 .. Len(handed) -> Nat]
           /\ NodeSize \in [0 .. Len(handed) -> Nat]
<1>1. Len(handed) \in Nat /\ \A i \in 1 .. Len(handed) : handed[i] \in Nat \X Nat
      BY DEF HeapTypes
<1> QED BY <1>1, HeapAssumption DEF Node, NodeSize

\* The list right after mm().
LEMMA InitList == mm => ListInv
<1> SUFFICES ASSUME mm PROVE ListInv
    OBVIOUS
<1>1. /\ Len(handed) = 0 /\ malloc_top = KernelEnd + Header + 1 /\ last_block = KernelEnd
      /\ DOMAIN mblocks = {KernelEnd}
      /\ mblocks[KernelEnd].size = 1 /\ mblocks[KernelEnd].next = Null
      /\ \A l \in Levels : call[l].at = "out"
      BY DEF mm, NoCall
<1>2. Stage = 0
      BY <1>1 DEF Stage, Reached
<1>3. Node[0] = KernelEnd /\ NodeSize[0] = 1
      BY <1>1 DEF Node, NodeSize
<1>4. 0 .. 0 = {0} /\ 0 .. 0 - 1 = {}
      OBVIOUS
<1>5. Row(0, Node, NodeSize, malloc_top)
      BY <1>1, <1>3, <1>4, HeapAssumption DEF Row
<1>6. Linked(0, Node, NodeSize, mblocks, malloc_top, last_block, 0)
      BY <1>1, <1>3, <1>4 DEF Linked
<1>7. Counted(0, mblocks, 0)
    <2>1. IsFiniteSet({KernelEnd}) /\ Cardinality({KernelEnd}) = 1
          BY FS_Singleton
    <2>2. IsFiniteSet(DOMAIN mblocks) /\ Cardinality(DOMAIN mblocks) = 1
          BY <1>1, <2>1
    <2> QED BY <2>2 DEF Counted
<1>8. Row(Len(handed), Node, NodeSize, malloc_top)
      BY <1>1, <1>5
<1>9. Linked(Len(handed), Node, NodeSize, mblocks, malloc_top, last_block, Stage)
      BY <1>1, <1>2, <1>6
<1>10. Counted(Len(handed), mblocks, Stage)
      BY <1>1, <1>2, <1>7
<1> QED BY <1>8, <1>9, <1>10 DEF ListInv

\* What each step of a placement does to any such list.
LEMMA HeaderLinks ==
    ASSUME NEW n \in Nat, NEW c \in [0 .. n -> Nat], NEW s \in [0 .. n -> Nat],
           NEW m, NEW w, NEW top \in Nat, NEW last,
           Row(n, c, s, top), Linked(n, c, s, m, top, last, 0), Counted(n, m, 0),
           DOMAIN w = DOMAIN m \cup {top}, w[top].next = Null,
           \A a \in DOMAIN m : a # top => w[a] = m[a]
    PROVE  Linked(n, c, s, w, top, last, 1) /\ Counted(n, w, 1)
<1>1. n \in 0 .. n /\ \A i \in 0 .. n - 1 : i \in 0 .. n
      OBVIOUS
<1>2. \A i \in 0 .. n : c[i] \in DOMAIN m /\ c[i] # top /\ w[c[i]] = m[c[i]]
      BY DEF Row, Linked
<1>3. top \notin DOMAIN m
      BY <1>2 DEF Linked
<1>4. Counted(n, w, 1)
    <2>1. IsFiniteSet(DOMAIN m) /\ Cardinality(DOMAIN m) = n + 1
          BY DEF Counted
    <2> DEFINE D == DOMAIN m
    <2> HIDE DEF D
    <2>2. /\ IsFiniteSet(D \cup {top})
          /\ Cardinality(D \cup {top}) = IF top \in D THEN Cardinality(D) ELSE Cardinality(D) + 1
          BY <2>1, FS_AddElement DEF D
    <2>3. Cardinality(D) = n + 1 /\ top \notin D /\ DOMAIN w = D \cup {top}
          BY <1>3, <2>1 DEF D
    <2>4. IsFiniteSet(DOMAIN w) /\ Cardinality(DOMAIN w) = n + 2
          BY <2>2, <2>3
    <2> QED BY <2>4 DEF Counted
<1>5. Linked(n, c, s, w, top, last, 1)
    <2>1. \A i \in 0 .. n : c[i] \in DOMAIN w /\ w[c[i]].size = s[i]
          BY <1>2 DEF Linked
    <2>2. \A i \in 0 .. n - 1 : w[c[i]].next = c[i + 1]
          BY <1>1, <1>2 DEF Linked
    <2>3. \A a \in DOMAIN w : (\E i \in 0 .. n : a = c[i]) \/ a = top
          BY DEF Linked
    <2>4. w[c[n]].next = Null /\ last = c[n] /\ top \in DOMAIN w
          BY <1>1, <1>2 DEF Linked
    <2> QED BY <2>1, <2>2, <2>3, <2>4 DEF Linked
<1> QED BY <1>4, <1>5

LEMMA LinkLinks ==
    ASSUME NEW n \in Nat, NEW c \in [0 .. n -> Nat], NEW s \in [0 .. n -> Nat],
           NEW m, NEW w, NEW top \in Nat, NEW last,
           Row(n, c, s, top), Linked(n, c, s, m, top, last, 1), Counted(n, m, 1),
           DOMAIN w = DOMAIN m, \A a \in DOMAIN m : w[a].size = m[a].size,
           w[c[n]].next = top, \A a \in DOMAIN m : a # c[n] => w[a].next = m[a].next
    PROVE  Linked(n, c, s, w, top, last, 2) /\ Counted(n, w, 2)
<1>1. n \in 0 .. n /\ \A i \in 0 .. n - 1 : i \in 0 .. n /\ i < n
      OBVIOUS
<1>2. \A i \in 0 .. n : c[i] \in DOMAIN m /\ c[i] # top
      BY DEF Row, Linked
<1>3. \A i \in 0 .. n - 1 : c[i] # c[n]
      BY <1>1 DEF Row
<1>4. \A i \in 0 .. n - 1 : w[c[i]].next = c[i + 1]
      BY <1>1, <1>2, <1>3 DEF Linked
<1>5. top \in DOMAIN w /\ w[top].next = Null
      BY <1>1, <1>2 DEF Linked
<1>6. Counted(n, w, 2)
      BY DEF Counted
<1>7. Linked(n, c, s, w, top, last, 2)
      BY <1>2, <1>4, <1>5, SMTT(30) DEF Linked
<1> QED BY <1>6, <1>7

LEMMA LastLinks ==
    ASSUME NEW n, NEW c, NEW s, NEW m, NEW top, NEW last,
           Linked(n, c, s, m, top, last, 2), Counted(n, m, 2)
    PROVE  Linked(n, c, s, m, top, top, 3) /\ Counted(n, m, 3)
<1>1. Counted(n, m, 3)
      BY DEF Counted
<1> QED BY <1>1 DEF Linked

\* Nodes d of sizes r are those c of sizes s and one more at top.
Longer(n, c, s, top, size, d, r) ==
    /\ d \in [0 .. n + 1 -> Nat] /\ r \in [0 .. n + 1 -> Nat]
    /\ \A i \in 0 .. n : d[i] = c[i] /\ r[i] = s[i]
    /\ d[n + 1] = top /\ r[n + 1] = size

\* The block at top becomes the last node.
LEMMA TopLinks ==
    ASSUME NEW n \in Nat, NEW c \in [0 .. n -> Nat], NEW s \in [0 .. n -> Nat],
           NEW m, NEW top \in Nat, NEW last, NEW size \in Nat, NEW up, up = top + Header + size,
           NEW d, NEW r, Longer(n, c, s, top, size, d, r),
           Row(n, c, s, top), Linked(n, c, s, m, top, last, 3), Counted(n, m, 3),
           m[top].size = size
    PROVE  /\ Row(n + 1, d, r, up)
           /\ Linked(n + 1, d, r, m, up, last, 0)
           /\ Counted(n + 1, m, 0)
<1>0. /\ d \in [0 .. n + 1 -> Nat] /\ r \in [0 .. n + 1 -> Nat]
      /\ \A i \in 0 .. n : d[i] = c[i] /\ r[i] = s[i]
      /\ d[n + 1] = top /\ r[n + 1] = size
      BY DEF Longer
<1>1. /\ \A i \in 0 .. n + 1 : i \in 0 .. n \/ i = n + 1
      /\ \A i \in 0 .. n : i \in 0 .. n + 1 /\ i < n + 1 /\ (i = n \/ i \in 0 .. n - 1)
      /\ n \in 0 .. n /\ n + 1 \in 0 .. n + 1
      /\ \A i \in 0 .. n - 1 : i \in 0 .. n /\ i + 1 \in 0 .. n
      OBVIOUS
<1>2. Header \in Nat /\ Header > 0
      BY HeapAssumption
<1>3. up \in Nat /\ top < up
      BY <1>2
<1>4. Row(n + 1, d, r, up)
    <2>1. ASSUME NEW i \in 0 .. n + 1 PROVE d[i] < up
        <3>1. d[i] = top \/ (d[i] < top /\ d[i] \in Nat)
              BY <1>0, <1>1 DEF Row
        <3> QED BY <1>3, <3>1
    <2>2. ASSUME NEW i \in 0 .. n + 1, NEW j \in 0 .. n + 1, i < j PROVE d[i] < d[j]
        <3>1. i \in 0 .. n
              BY <2>2
        <3>2. d[i] < top
              BY <1>0, <3>1 DEF Row
        <3>3. CASE j = n + 1
              BY <1>0, <3>2, <3>3
        <3>4. CASE j \in 0 .. n
              BY <1>0, <2>2, <3>1, <3>4 DEF Row
        <3> QED BY <1>0, <1>1, <3>3, <3>4
    <2>3. ASSUME NEW i \in 0 .. n PROVE d[i + 1] = d[i] + Header + r[i]
        <3>1. CASE i = n
              BY <1>0, <1>1, <3>1 DEF Row
        <3>2. CASE i \in 0 .. n - 1
              BY <1>0, <1>1, <3>2 DEF Row
        <3> QED BY <1>0, <1>1, <3>1, <3>2
    <2>4. up = d[n + 1] + Header + r[n + 1]
          BY <1>0
    <2>5. ASSUME NEW i \in 0 .. n + 1 - 1 PROVE d[i + 1] = d[i] + Header + r[i]
        <3>1. i \in 0 .. n
              OBVIOUS
        <3> QED BY <2>3, <3>1
    <2> QED BY <2>1, <2>2, <2>4, <2>5 DEF Row
<1>5. Linked(n + 1, d, r, m, up, last, 0)
    <2>1. ASSUME NEW i \in 0 .. n + 1 PROVE d[i] \in DOMAIN m /\ m[d[i]].size = r[i]
        <3>1. CASE i = n + 1
              BY <1>0, <3>1 DEF Linked
        <3>2. CASE i \in 0 .. n
              BY <1>0, <3>2 DEF Linked
        <3> QED BY <1>1, <3>1, <3>2
    <2>2. ASSUME NEW i \in 0 .. n PROVE m[d[i]].next = d[i + 1]
        <3>1. CASE i = n
              BY <1>0, <1>1, <3>1 DEF Linked
        <3>2. CASE i \in 0 .. n - 1
              BY <1>0, <1>1, <3>2, SMTT(30) DEF Linked
        <3> QED BY <1>0, <1>1, <3>1, <3>2
    <2>3. ASSUME NEW a \in DOMAIN m PROVE \E i \in 0 .. n + 1 : a = d[i]
        <3>1. CASE a = top
              BY <1>0, <1>1, <3>1
        <3>2. CASE \E i \in 0 .. n : a = c[i]
              BY <1>0, <1>1, <3>2
        <3> QED BY <3>1, <3>2 DEF Linked
    <2>4. n + 1 - 1 = n
          OBVIOUS
    <2>5. m[d[n + 1]].next = Null /\ last = d[n + 1]
          BY <1>0 DEF Linked
    <2> QED BY <2>1, <2>2, <2>3, <2>4, <2>5 DEF Linked
<1>6. Counted(n + 1, m, 0)
      BY DEF Counted
<1> QED BY <1>4, <1>5, <1>6

\* The walk of _find_hole over a list of n + 1 blocks.
Walks(n, m, walk) ==
    walk = [i \in 0 .. n + 1 |-> IF i = 0 THEN KernelEnd
                                 ELSE IF walk[i - 1] = Null THEN Null ELSE m[walk[i - 1]].next]

\* Over a whole list, it stands at node i after i steps
\* and comes to the end.
LEMMA WholeEnds ==
    ASSUME NEW n \in Nat, NEW c \in [0 .. n -> Nat], NEW s \in [0 .. n -> Nat], NEW m, NEW top, NEW last,
           Linked(n, c, s, m, top, last, 0), c[0] = KernelEnd, \A i \in 0 .. n : c[i] # Null,
           NEW walk, Walks(n, m, walk)
    PROVE  walk[n + 1] = Null
<1> DEFINE T == {i \in 0 .. n : walk[i] = c[i]}
<1>1. \A i \in 0 .. n + 1 : walk[i] = IF i = 0 THEN KernelEnd
                                      ELSE IF walk[i - 1] = Null THEN Null ELSE m[walk[i - 1]].next
      BY DEF Walks
<1>2. 0 \in T
    <2>1. 0 \in 0 .. n /\ 0 \in 0 .. n + 1
          OBVIOUS
    <2>2. walk[0] = c[0]
          BY <1>1, <2>1
    <2> QED BY <2>1, <2>2
<1>3. ASSUME NEW k \in 0 .. n - 1, k \in T PROVE k + 1 \in T
    <2>1. k \in 0 .. n /\ k + 1 \in 0 .. n /\ k + 1 \in 0 .. n + 1 /\ k + 1 # 0 /\ k + 1 - 1 = k
          OBVIOUS
    <2>2. walk[k + 1] = m[walk[k]].next
          BY <1>1, <1>3, <2>1
    <2>3. m[c[k]].next = c[k + 1]
          BY DEF Linked
    <2> QED BY <1>3, <2>1, <2>2, <2>3
<1> HIDE DEF T
<1>4. \A k \in 0 .. n : k \in T
      BY <1>2, <1>3, SetInduction
<1>5. walk[n] = c[n] /\ n \in 0 .. n /\ n + 1 \in 0 .. n + 1 /\ n + 1 # 0 /\ n + 1 - 1 = n
    <2>1. n \in 0 .. n
          OBVIOUS
    <2>2. n \in T
          BY <1>4, <2>1
    <2>3. walk[n] = c[n]
          BY <2>2 DEF T
    <2>4. n + 1 \in 0 .. n + 1 /\ n + 1 # 0 /\ n + 1 - 1 = n
          OBVIOUS
    <2> QED BY <2>1, <2>3, <2>4
<1>6. walk[n + 1] = m[c[n]].next
      BY <1>1, <1>5
<1> QED BY <1>5, <1>6 DEF Linked

\* There is such a walk.
LEMMA WalkExists ==
    ASSUME NEW n \in Nat, NEW c \in [0 .. n -> Nat], NEW s \in [0 .. n -> Nat], NEW m, NEW top, NEW last,
           Linked(n, c, s, m, top, last, 0), c[0] = KernelEnd, \A i \in 0 .. n : c[i] # Null
    PROVE  \E walk : Walks(n, m, walk)
<1> DEFINE f == [i \in 0 .. n + 1 |-> IF i = n + 1 THEN Null ELSE c[i]]
           g == [i \in 0 .. n + 1 |-> IF i = 0 THEN KernelEnd
                                      ELSE IF f[i - 1] = Null THEN Null ELSE m[f[i - 1]].next]
<1>1. ASSUME NEW i \in 0 .. n + 1 PROVE f[i] = g[i]
    <2>1. CASE i = 0
          BY <2>1
    <2>2. CASE i = n + 1
        <3>1. n \in 0 .. n /\ n \in 0 .. n + 1 /\ i - 1 = n /\ n # n + 1 /\ i # 0
              BY <2>2
        <3>2. f[i - 1] = c[n] /\ c[n] # Null
              BY <3>1
        <3>3. m[c[n]].next = Null
            <4> HIDE DEF f, g
            <4>1. m[c[n]].next = IF 0 >= 2 THEN top ELSE Null
                  BY DEF Linked
            <4> QED BY <4>1
        <3> QED BY <2>2, <3>1, <3>2, <3>3
    <2>3. CASE i \in 1 .. n
        <3>1. i - 1 \in 0 .. n - 1 /\ i - 1 \in 0 .. n /\ i - 1 + 1 = i /\ i - 1 # n + 1
              BY <2>3
        <3>2. f[i - 1] = c[i - 1] /\ c[i - 1] # Null
              BY <3>1
        <3>3. m[c[i - 1]].next = c[i]
              BY <3>1 DEF Linked
        <3> QED BY <2>3, <3>2, <3>3
    <2> QED BY <2>1, <2>2, <2>3
<1>2. f = g
      BY <1>1
<1>3. Walks(n, m, f)
      BY <1>2 DEF Walks
<1> HIDE DEF f
<1> QED BY <1>3

\* Such a list is what ListIsWhole asks for.
LEMMA WholeIsWhole == HeapTypes /\ ListInv => ListIsWhole
<1> SUFFICES ASSUME HeapTypes, ListInv, ~raced, AtRest PROVE ListIsWhole
    BY DEF ListIsWhole
<1> DEFINE n == Len(handed)
<1>1. /\ n \in Nat /\ Node \in [0 .. n -> Nat] /\ NodeSize \in [0 .. n -> Nat]
      /\ Node[0] = KernelEnd /\ \A i \in 1 .. n : Node[i] = handed[i][1]
      BY NodeTypes DEF Node
<1>2. Stage = 0
      BY DEF AtRest, Stage, Reached
<1>3. /\ Row(n, Node, NodeSize, malloc_top)
      /\ Linked(n, Node, NodeSize, mblocks, malloc_top, last_block, 0)
      /\ Counted(n, mblocks, 0)
      BY <1>2 DEF ListInv
<1> HIDE DEF n
<1>4. /\ n \in 0 .. n /\ 0 \in 0 .. n
      /\ \A i \in 0 .. n : i = 0 \/ i \in 1 .. n
      /\ \A i \in 1 .. n : i \in 0 .. n /\ 0 < i
      /\ \A i \in 0 .. n : i = n \/ (i \in 0 .. n - 1 /\ i < n)
      BY <1>1
<1>5. \A i \in 0 .. n : Node[i] # Null
    <2>1. KernelEnd \in Nat /\ KernelEnd > 0
          BY HeapAssumption
    <2>2. ASSUME NEW i \in 1 .. n PROVE Node[i] # 0
        <3>1. Node[i] \in Nat /\ KernelEnd < Node[i]
              BY <1>1, <1>3, <1>4 DEF Row
        <3> QED BY <2>1, <3>1
    <2> QED BY <1>1, <1>4, <2>1, <2>2 DEF Null
<1>6. ListEnds
    <2>1. \E walk : Walks(n, mblocks, walk)
          BY <1>1, <1>3, <1>5, WalkExists
    <2>2. \A walk : Walks(n, mblocks, walk) => walk[n + 1] = Null
          BY <1>1, <1>3, <1>5, WholeEnds
    <2>3. (CHOOSE walk : Walks(n, mblocks, walk))[n + 1] = Null
          BY <2>1, <2>2
    <2>4. Cardinality(DOMAIN mblocks) = n + 1
          BY <1>1, <1>3 DEF Counted
    <2> QED BY <2>3, <2>4 DEF ListEnds, Walks
<1>7. DOMAIN mblocks = {KernelEnd} \cup {handed[i][1] : i \in 1 .. n}
    <2>1. \A a \in DOMAIN mblocks : \E i \in 0 .. n : a = Node[i]
          BY <1>3 DEF Linked
    <2>2. \A i \in 0 .. n : Node[i] \in DOMAIN mblocks
          BY <1>3 DEF Linked
    <2>3. ASSUME NEW a \in DOMAIN mblocks PROVE a = KernelEnd \/ \E i \in 1 .. n : a = handed[i][1]
        <3>1. PICK i \in 0 .. n : a = Node[i]
              BY <2>1
        <3> QED BY <1>1, <1>4, <3>1
    <2>4. KernelEnd \in DOMAIN mblocks
          BY <1>1, <1>4, <2>2
    <2>5. ASSUME NEW i \in 1 .. n PROVE handed[i][1] \in DOMAIN mblocks
          BY <1>1, <1>4, <2>2
    <2> QED BY <2>3, <2>4, <2>5
<1>8. /\ last_block = Node[n]
      /\ mblocks[last_block].next = Null
      /\ mblocks[last_block].size = NodeSize[n]
      BY <1>1, <1>3, <1>4 DEF Linked
<1>9. ASSUME NEW a \in DOMAIN mblocks
      PROVE  /\ mblocks[a].next = Null <=> a = last_block
             /\ a # last_block => mblocks[a].next = a + Header + mblocks[a].size
    <2>1. PICK i \in 0 .. n : a = Node[i]
          BY <1>3 DEF Linked
    <2>2. CASE i = n
          BY <1>8, <2>1, <2>2
    <2>3. CASE i \in 0 .. n - 1 /\ i < n
        <3>1. i + 1 \in 0 .. n
              BY <1>1, <2>3
        <3>2. mblocks[a].next = Node[i + 1] /\ Node[i + 1] # Null
              BY <1>3, <1>5, <2>1, <2>3, <3>1 DEF Linked
        <3>3. a # last_block
            <4>1. Node[i] < Node[n] /\ Node[i] \in Nat /\ Node[n] \in Nat
                  BY <1>1, <1>3, <1>4, <2>3 DEF Row
            <4> QED BY <1>8, <2>1, <4>1
        <3>4. Node[i + 1] = a + Header + mblocks[a].size
            <4>1. mblocks[a].size = NodeSize[i]
                  BY <1>3, <2>1 DEF Linked
            <4> QED BY <1>3, <2>1, <2>3, <4>1 DEF Row
        <3> QED BY <3>2, <3>3, <3>4
    <2> QED BY <1>4, <2>2, <2>3
<1>10. malloc_top = last_block + Header + mblocks[last_block].size
       BY <1>3, <1>8 DEF Row
<1> QED BY <1>6, <1>7, <1>9, <1>10 DEF ListIsWhole, n

\* A step that leaves the list alone, and those who place a block where they are.
LEMMA KeepsList ==
    ASSUME ListInv, UNCHANGED <<malloc_top, last_block, mblocks, handed>>, raced => raced',
           \A l \in Levels : call'[l].at = call[l].at \/ (~Placed(l) /\ ~Placed(l)')
    PROVE  ListInv'
<1>1. \A l \in Levels : \A at \in {"link", "last", "top"} : call'[l].at = at <=> call[l].at = at
      BY DEF Placed
<1>2. Stage' = Stage
      BY <1>1 DEF Stage, Reached
<1>3. Node' = Node /\ NodeSize' = NodeSize
      BY DEF Node, NodeSize
<1>4. Row(Len(handed), Node, NodeSize, malloc_top)' = Row(Len(handed), Node, NodeSize, malloc_top)
      BY <1>3 DEF Row
<1>5. Linked(Len(handed), Node, NodeSize, mblocks, malloc_top, last_block, Stage)'
      = Linked(Len(handed), Node, NodeSize, mblocks, malloc_top, last_block, Stage)
      BY <1>2, <1>3 DEF Linked
<1>6. Counted(Len(handed), mblocks, Stage)' = Counted(Len(handed), mblocks, Stage)
      BY <1>2 DEF Counted
<1> QED BY <1>4, <1>5, <1>6 DEF ListInv

\* A malloc that places its block does so alone, behind all blocks: it is the one
\* whose step tells how far the list is, now and after its step.
LEMMA PlacesAlone ==
    ASSUME HeapTypes, BlockInv, ~raced, NEW l \in Levels, Placing(l),
           \A k \in Levels \ {l} : call'[k] = call[k]
    PROVE  /\ call[l].b = malloc_top
           /\ Placed(l) => mblocks[malloc_top].size = call[l].size
           /\ Stage = IF call[l].at = "top" THEN 3 ELSE IF call[l].at = "last" THEN 2
                      ELSE IF call[l].at = "link" THEN 1 ELSE 0
           /\ Stage' = IF call'[l].at = "top" THEN 3 ELSE IF call'[l].at = "last" THEN 2
                       ELSE IF call'[l].at = "link" THEN 1 ELSE 0
<1>1. /\ call[l].b = malloc_top
      /\ \A k \in Levels \ {l} : ~Placing(k)
      /\ Placed(l) => mblocks[malloc_top].size = call[l].size
      BY DEF BlockInv, PlaceInv, Levels
<1>2. \A k \in Levels \ {l} : /\ call[k].at \notin {"link", "last", "top"}
                              /\ call'[k].at \notin {"link", "last", "top"}
      BY <1>1 DEF Placing
<1>3. Stage = IF call[l].at = "top" THEN 3 ELSE IF call[l].at = "last" THEN 2
              ELSE IF call[l].at = "link" THEN 1 ELSE 0
      BY <1>2 DEF Stage, Reached
<1>4. Stage' = IF call'[l].at = "top" THEN 3 ELSE IF call'[l].at = "last" THEN 2
               ELSE IF call'[l].at = "link" THEN 1 ELSE 0
      BY <1>2 DEF Stage, Reached
<1> QED BY <1>1, <1>3, <1>4

\* The header, the link, last_block and malloc_top are stored.
LEMMA PlaceSteps ==
    ASSUME HeapTypes, BlockTypes, BlockInv, ListInv, NEW l \in Levels,
           malloc_header(l) \/ malloc_link(l) \/ malloc_last(l) \/ malloc_done(l)
    PROVE  ListInv'
<1> DEFINE n == Len(handed)
<1>1. SUFFICES ASSUME ~raced
               PROVE  /\ Row(Len(handed'), Node', NodeSize', malloc_top')
                      /\ Linked(Len(handed'), Node', NodeSize', mblocks', malloc_top', last_block', Stage')
                      /\ Counted(Len(handed'), mblocks', Stage')
    <2>1. raced' = raced
          BY DEF malloc_header, malloc_link, malloc_last, malloc_done
    <2> QED BY <2>1 DEF ListInv
<1>2. /\ Row(n, Node, NodeSize, malloc_top)
      /\ Linked(n, Node, NodeSize, mblocks, malloc_top, last_block, Stage)
      /\ Counted(n, mblocks, Stage)
      BY <1>1 DEF ListInv
<1>3. n \in Nat /\ Node \in [0 .. n -> Nat] /\ NodeSize \in [0 .. n -> Nat] /\ malloc_top \in Nat
      BY NodeTypes DEF HeapTypes
<1>4. /\ \A k \in Levels \ {l} : call'[k] = call[k]
      /\ call[l] \in Call
      /\ Placing(l)
      BY DEF malloc_header, malloc_link, malloc_last, malloc_done, At, Go, HeapTypes, Placing
<1>5. /\ call[l].b = malloc_top
      /\ Placed(l) => mblocks[malloc_top].size = call[l].size
      /\ Stage = IF call[l].at = "top" THEN 3 ELSE IF call[l].at = "last" THEN 2
                 ELSE IF call[l].at = "link" THEN 1 ELSE 0
      /\ Stage' = IF call'[l].at = "top" THEN 3 ELSE IF call'[l].at = "last" THEN 2
                  ELSE IF call'[l].at = "link" THEN 1 ELSE 0
      BY <1>1, <1>4, PlacesAlone
<1>6. UNCHANGED handed => Len(handed') = n /\ Node' = Node /\ NodeSize' = NodeSize
      BY DEF Node, NodeSize
<1>7. CASE malloc_header(l)
    <2>1. /\ call[l].at = "header" /\ call'[l].at = "link"
          /\ UNCHANGED <<malloc_top, last_block, handed>>
          /\ DOMAIN mblocks' = DOMAIN mblocks \cup {malloc_top}
          /\ mblocks'[malloc_top].next = Null
          /\ \A a \in DOMAIN mblocks : a # malloc_top => mblocks'[a] = mblocks[a]
          BY <1>5, <1>7 DEF malloc_header, At, Go, HeapTypes, Call
    <2>2. Stage = 0 /\ Stage' = 1
          BY <1>5, <2>1
    <2>3. /\ Linked(n, Node, NodeSize, mblocks', malloc_top, last_block, 1)
          /\ Counted(n, mblocks', 1)
        <3> HIDE DEF n
        <3> QED BY <1>2, <1>3, <2>1, <2>2, HeaderLinks
    <2> HIDE DEF n
    <2> QED BY <1>2, <1>6, <2>1, <2>2, <2>3
<1>8. CASE malloc_link(l)
    <2>1. /\ call[l].at = "link" /\ call'[l].at = "last"
          /\ UNCHANGED <<malloc_top, last_block, handed>>
          /\ mblocks' = [mblocks EXCEPT ![last_block].next = malloc_top]
          BY <1>5, <1>8 DEF malloc_link, At, Go, HeapTypes, Call
    <2>2. Stage = 1 /\ Stage' = 2
          BY <1>5, <2>1
    <2>3. last_block = Node[n] /\ Node[n] \in DOMAIN mblocks
        <3> HIDE DEF n
        <3> QED BY <1>2, <1>3, <2>2 DEF Linked
    <2>4. /\ DOMAIN mblocks' = DOMAIN mblocks
          /\ \A a \in DOMAIN mblocks : mblocks'[a].size = mblocks[a].size
          /\ \A a \in DOMAIN mblocks : a # Node[n] => mblocks'[a].next = mblocks[a].next
          /\ mblocks'[Node[n]].next = malloc_top
        <3> HIDE DEF n
        <3> QED BY <2>1, <2>3 DEF BlockTypes
    <2>5. /\ Linked(n, Node, NodeSize, mblocks', malloc_top, last_block, 2)
          /\ Counted(n, mblocks', 2)
        <3> HIDE DEF n
        <3> QED BY <1>2, <1>3, <2>2, <2>4, LinkLinks
    <2> HIDE DEF n
    <2> QED BY <1>2, <1>6, <2>1, <2>2, <2>5
<1>9. CASE malloc_last(l)
    <2>1. /\ call[l].at = "last" /\ call'[l].at = "top"
          /\ UNCHANGED <<malloc_top, mblocks, handed>>
          /\ last_block' = malloc_top
          BY <1>5, <1>9 DEF malloc_last, At, Go, HeapTypes, Call
    <2>2. Stage = 2 /\ Stage' = 3
          BY <1>5, <2>1
    <2>3. /\ Linked(n, Node, NodeSize, mblocks, malloc_top, malloc_top, 3)
          /\ Counted(n, mblocks, 3)
        <3> HIDE DEF n
        <3> QED BY <1>2, <2>2, LastLinks
    <2> HIDE DEF n
    <2> QED BY <1>2, <1>6, <2>1, <2>2, <2>3
<1>10. CASE malloc_done(l)
    <2> DEFINE new == <<malloc_top, call[l].size>>
    <2>1. /\ call[l].at = "top" /\ call'[l].at = "out"
          /\ UNCHANGED <<last_block, mblocks>>
          /\ handed' = Append(handed, new)
          /\ malloc_top' = malloc_top + Header + mblocks[malloc_top].size
          BY <1>5, <1>10 DEF malloc_done, At, HeapTypes, Call, NoCall
    <2>2. mblocks[malloc_top].size = call[l].size /\ call[l].size \in Nat
          BY <1>4, <1>5, <2>1 DEF Placed, Call
    <2>3. /\ Len(handed') = n + 1 /\ handed'[n + 1] = new
          /\ \A i \in 1 .. n : handed'[i] = handed[i]
          BY <2>1, <2>2 DEF HeapTypes
    <2>4. Stage = 3 /\ Stage' = 0
          BY <1>5, <2>1
    <2>5. Longer(n, Node, NodeSize, malloc_top, call[l].size, Node', NodeSize')
        <3>1. /\ Node' = [i \in 0 .. n + 1 |-> IF i = 0 THEN KernelEnd ELSE handed'[i][1]]
              /\ NodeSize' = [i \in 0 .. n + 1 |-> IF i = 0 THEN 1 ELSE handed'[i][2]]
              BY <2>3 DEF Node, NodeSize
        <3>2. \A i \in 0 .. n : /\ Node[i] = IF i = 0 THEN KernelEnd ELSE handed[i][1]
                                /\ NodeSize[i] = IF i = 0 THEN 1 ELSE handed[i][2]
              BY DEF Node, NodeSize
        <3> HIDE DEF n
        <3>3. n + 1 \in 0 .. n + 1 /\ n + 1 # 0 /\ \A i \in 0 .. n + 1 : i \in 0 .. n \/ i = n + 1
              BY <1>3
        <3>4. \A i \in 0 .. n : i \in 0 .. n + 1 /\ (i = 0 \/ i \in 1 .. n)
              BY <1>3
        <3>5. Node'[n + 1] = malloc_top /\ NodeSize'[n + 1] = call[l].size
              BY <2>3, <3>1, <3>3
        <3>6. \A i \in 0 .. n : Node'[i] = Node[i] /\ NodeSize'[i] = NodeSize[i]
              BY <2>3, <3>1, <3>2, <3>4
        <3>7. \A i \in 0 .. n + 1 : Node'[i] \in Nat /\ NodeSize'[i] \in Nat
              BY <1>3, <2>2, <3>3, <3>5, <3>6
        <3> QED BY <3>1, <3>5, <3>6, <3>7 DEF Longer
    <2>6. malloc_top' = malloc_top + Header + call[l].size
          BY <2>1, <2>2
    <2>7. /\ Row(n + 1, Node', NodeSize', malloc_top')
          /\ Linked(n + 1, Node', NodeSize', mblocks, malloc_top', last_block, 0)
          /\ Counted(n + 1, mblocks, 0)
        <3> DEFINE d == Node'
                   r == NodeSize'
                   up == malloc_top'
                   size == call[l].size
        <3>1. /\ size \in Nat /\ up = malloc_top + Header + size /\ mblocks[malloc_top].size = size
              /\ Longer(n, Node, NodeSize, malloc_top, size, d, r)
              BY <2>2, <2>5, <2>6
        <3>2. /\ Row(n, Node, NodeSize, malloc_top)
              /\ Linked(n, Node, NodeSize, mblocks, malloc_top, last_block, 3)
              /\ Counted(n, mblocks, 3)
              BY <1>2, <2>4
        <3> HIDE DEF n, d, r, up, size
        <3>3. Row(n + 1, d, r, up) /\ Linked(n + 1, d, r, mblocks, up, last_block, 0) /\ Counted(n + 1, mblocks, 0)
              BY <1>3, <3>1, <3>2, TopLinks
        <3> QED BY <3>3 DEF d, r, up
    <2> HIDE DEF n
    <2> QED BY <2>1, <2>3, <2>4, <2>7
<1> QED BY <1>7, <1>8, <1>9, <1>10

\* Every step keeps the list whole, but for the block being placed.
LEMMA StepList == TypesInv /\ BlockInv /\ ListInv /\ [HNext]_allvars => ListInv'
<1> SUFFICES ASSUME HeapTypes, BlockTypes, BlockInv, ListInv, [HNext]_allvars PROVE ListInv'
    BY DEF TypesInv
<1>1. ASSUME NEW l \in Levels, Aside(l) PROVE ListInv'
    <2>1. \A k \in Levels : call'[k].at = call[k].at \/ (~Placed(k) /\ ~Placed(k)')
          BY <1>1 DEF Aside, Placed, Placing
    <2> QED BY <1>1, <2>1, KeepsList DEF Aside
<1>2. CASE UNCHANGED <<malloc_top, last_block, mblocks, handed, raced, call>>
      BY <1>2, KeepsList
<1>3. ASSUME NEW l \in Levels, malloc_block(l) PROVE ListInv'
    <2>1. \A k \in Levels : call'[k].at = call[k].at \/ (~Placed(k) /\ ~Placed(k)')
          BY <1>3 DEF malloc_block, At, Placed, HeapTypes, Call
    <2>2. UNCHANGED <<malloc_top, last_block, mblocks, handed>>
          BY <1>3 DEF malloc_block
    <2>3. raced => raced'
          BY <1>3, Zenon DEF malloc_block
    <2> QED BY <2>1, <2>2, <2>3, KeepsList
<1> QED BY <1>1, <1>2, <1>3, PlaceSteps, HeapSteps

\* Until an interrupt's malloc races with a placement, the list that mm.c keeps
\* holds every block in order and ends, so that _find_hole returns.
THEOREM ListAlwaysWhole == HSpec => []ListIsWhole
<1>1. HeapInv /\ ListInv => ListIsWhole
      BY WholeIsWhole DEF HeapInv, TypesInv
<1>2. HSpec => []BlockInv
      BY HeapInvariant, InitBlocks, StepBlocks, PTL DEF HSpec, HeapInv
<1>3. HSpec => []ListInv
      BY <1>2, HeapInvariant, InitList, StepList, PTL DEF HSpec, HeapInv
<1> QED BY <1>1, <1>3, HeapInvariant, PTL
=============================================================================
