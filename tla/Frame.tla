-------------------------------- MODULE Frame --------------------------------
(***************************************************************************)
(* kernel/memory/frame.c: the allocator of physical page frames behind      *)
(* page_map and page_map_until (kernel/x86/page.c).  physical_bitmap has a  *)
(* byte for every eight frames, here the set of its bits that are 1.  The   *)
(* code stores a byte where a bit is meant (frame_set: "=", not "|=") and   *)
(* tests a byte where a bit is meant ("&&", not "&"), so a byte that is not *)
(* zero stands for eight frames in use.                                     *)
(*                                                                          *)
(* A thread calls frame_get, and so does the mouse's interrupt on top of a  *)
(* thread, with no lock: each access to the bitmap, frames_free and         *)
(* frame_idx is a step, a "--" or "++" two.  The scan is taken at its last  *)
(* test: behind a thread's scan an interrupt only makes bytes dirty.        *)
(*                                                                          *)
(* Callers free only frames they were given.  frame_get_blk, which nothing  *)
(* calls, is left out.                                                      *)
(***************************************************************************)
EXTENDS Integers, FiniteSets

CONSTANTS Frames,       \* frames that the bitmap has room for, 8 * BITMAP_SIZE
          MemSizes,     \* sizes of the memory, in frames
          Reserved,     \* frames of the kernel and its modules, from 0 up
          Word          \* 2^32: frames_free is uint32_t

ASSUME FrameAssumption == /\ Frames \in Nat
                          /\ Reserved \in 0 .. Frames
                          /\ MemSizes \subseteq Reserved .. Frames
                          /\ Word \in Nat /\ Word > Frames

VARIABLES frames_count,    \* mem_size / FRAME_SIZE
          physical_bitmap, \* the bits that are set in each byte
          frames_free,     \* frames_free
          frame_idx,       \* where frame_get starts to look
          get,             \* the frame_get or frame_free of each level, its locals
          holders,         \* history: how many callers own each frame
          contended,       \* history: an interrupt took the byte a thread had tested
          miscounted       \* history: decrements lost to a thread's store of frames_free

vars == <<frames_count, physical_bitmap, frames_free, frame_idx, get, holders, contended, miscounted>>

FrameSet == 0 .. Frames - 1
Byte(i) == i \div 8
Bit(i) == i % 8

Levels == {"thread", "irq"}
NoGet == [at |-> "out", i |-> 0, reg |-> 0, byte |-> {}]

\* An interrupt's call runs to its end before the thread goes on.
Running(l, from) == /\ get[l].at = from
                    /\ l = "thread" => get["irq"].at = "out"

Pass(l, to) == get' = [get EXCEPT ![l].at = to]

\* A thread is between the load and the store of frames_free.
Counting == get["thread"].at \in {"counted", "uncounted"}

-----------------------------------------------------------------------------
(* The bitmap.                                                              *)

\* frame_set, frame_set_address
frame_set(bitmap, i) == [bitmap EXCEPT ![Byte(i)] = {Bit(i)}]

\* (variant) the frame's own bit is tested
Dirty_bit(i) == Bit(i) \in physical_bitmap[Byte(i)]

\* physical_bitmap[i_byte] && (1 << i_bit)
Dirty(i) == physical_bitmap[Byte(i)] # {}

\* frame_setup, on a bitmap of zeros: the last of its reserved frames is what
\* is left in a byte.
frame_setup ==
    /\ frames_count \in MemSizes
    /\ physical_bitmap = [b \in 0 .. Byte(Frames) |->
          {Bit(i) : i \in {r \in 0 .. Reserved - 1 :
                              Byte(r) = b /\ (r = Reserved - 1 \/ Bit(r) = 7)}}]
    /\ frames_free = frames_count - Reserved
    /\ frame_idx = Reserved
    /\ get = [l \in Levels |-> NoGet]
    /\ holders = [i \in FrameSet |-> 0]
    /\ contended = FALSE /\ miscounted = 0

-----------------------------------------------------------------------------
(* frame_get.                                                               *)

frame_get(l) ==
    /\ Running(l, "out")
    /\ Pass(l, "test")
    /\ UNCHANGED <<frames_count, physical_bitmap, frames_free, frame_idx, holders, contended, miscounted>>

\* if( frames_free == 0 ) return 0
get_test(l) ==
    /\ Running(l, "test")
    /\ Pass(l, IF frames_free = 0 THEN "none" ELSE "start")
    /\ UNCHANGED <<frames_count, physical_bitmap, frames_free, frame_idx, holders, contended, miscounted>>

\* i = frame_idx
get_start(l) ==
    /\ Running(l, "start")
    /\ get' = [get EXCEPT ![l].at = "scan", ![l].i = frame_idx]
    /\ UNCHANGED <<frames_count, physical_bitmap, frames_free, frame_idx, holders, contended, miscounted>>

\* The scan from `start` stops at i.
Found(start, i) == /\ i >= start /\ i < frames_count /\ ~Dirty(i)
                   /\ \A j \in start .. i - 1 : Dirty(j)

get_scan(l) ==
    /\ Running(l, "scan")
    /\ \/ \E i \in FrameSet : /\ Found(get[l].i, i)
                              /\ get' = [get EXCEPT ![l].at = "set", ![l].i = i]
       \/ /\ \A i \in get[l].i .. frames_count - 1 : Dirty(i)
          /\ Pass(l, "reset")
    /\ UNCHANGED <<frames_count, physical_bitmap, frames_free, frame_idx, holders, contended, miscounted>>

\* (variant) the next call goes on where this one ended
get_reset_keep(l) ==
    /\ Running(l, "reset")
    /\ frame_idx' = frame_idx + 1
    /\ Pass(l, "test")
    /\ UNCHANGED <<frames_count, physical_bitmap, frames_free, holders, contended, miscounted>>

\* frame_idx = 0; return frame_get().  With no clean byte left the calls go on
\* until the stack is used up.
get_reset(l) ==
    /\ Running(l, "reset")
    /\ frame_idx' = 0
    /\ Pass(l, "test")
    /\ UNCHANGED <<frames_count, physical_bitmap, frames_free, holders, contended, miscounted>>

get_set(l) ==
    /\ Running(l, "set")
    /\ physical_bitmap' = frame_set(physical_bitmap, get[l].i)
    /\ holders' = [holders EXCEPT ![get[l].i] = @ + 1]
    /\ contended' = (contended \/ (l = "irq" /\ get["thread"].at = "set"
                                             /\ Byte(get["thread"].i) = Byte(get[l].i)))
    /\ Pass(l, "count")
    /\ UNCHANGED <<frames_count, frames_free, frame_idx, miscounted>>

\* (variant) the frame is returned and not counted
get_count_load_skip(l) ==
    /\ Running(l, "count")
    /\ Pass(l, "index")
    /\ UNCHANGED <<frames_count, physical_bitmap, frames_free, frame_idx, holders, contended, miscounted>>

\* frames_free--, its load and its store
get_count_load(l) ==
    /\ Running(l, "count")
    /\ get' = [get EXCEPT ![l].at = "counted", ![l].reg = frames_free]
    /\ UNCHANGED <<frames_count, physical_bitmap, frames_free, frame_idx, holders, contended, miscounted>>

get_count_store(l) ==
    /\ Running(l, "counted")
    /\ frames_free' = IF get[l].reg = 0 THEN Word - 1 ELSE get[l].reg - 1
    /\ miscounted' = IF l = "irq" /\ Counting THEN miscounted + 1 ELSE miscounted
    /\ Pass(l, "index")
    /\ UNCHANGED <<frames_count, physical_bitmap, frame_idx, holders, contended>>

\* frame_idx++, its load and its store
get_idx_load(l) ==
    /\ Running(l, "index")
    /\ get' = [get EXCEPT ![l].at = "indexed", ![l].reg = frame_idx]
    /\ UNCHANGED <<frames_count, physical_bitmap, frames_free, frame_idx, holders, contended, miscounted>>

get_idx_store(l) ==
    /\ Running(l, "indexed")
    /\ frame_idx' = get[l].reg + 1
    /\ Pass(l, "done")
    /\ UNCHANGED <<frames_count, physical_bitmap, frames_free, holders, contended, miscounted>>

\* The caller has the result: get[l].i if it was "done", 0 if it was "none".
frame_return(l) ==
    /\ \E at \in {"done", "none", "freed"} : Running(l, at)
    /\ get' = [get EXCEPT ![l] = NoGet]
    /\ UNCHANGED <<frames_count, physical_bitmap, frames_free, frame_idx, holders, contended, miscounted>>

-----------------------------------------------------------------------------
(* frame_free, by a thread only: physical_bitmap[i / 8] &= ~(1 << (i % 8)),  *)
(* then frames_free++.                                                      *)

frame_free(i) ==
    /\ Running("thread", "out")
    /\ holders[i] > 0
    /\ get' = [get EXCEPT !["thread"] = [NoGet EXCEPT !.at = "clear", !.i = i,
                                                      !.byte = physical_bitmap[Byte(i)]]]
    /\ UNCHANGED <<frames_count, physical_bitmap, frames_free, frame_idx, holders, contended, miscounted>>

free_clear ==
    /\ Running("thread", "clear")
    /\ LET i == get["thread"].i
       IN  /\ physical_bitmap' = [physical_bitmap EXCEPT ![Byte(i)] = get["thread"].byte \ {Bit(i)}]
           /\ holders' = [holders EXCEPT ![i] = @ - 1]
    /\ Pass("thread", "uncount")
    /\ UNCHANGED <<frames_count, frames_free, frame_idx, contended, miscounted>>

free_count_load ==
    /\ Running("thread", "uncount")
    /\ get' = [get EXCEPT !["thread"].at = "uncounted", !["thread"].reg = frames_free]
    /\ UNCHANGED <<frames_count, physical_bitmap, frames_free, frame_idx, holders, contended, miscounted>>

free_count_store ==
    /\ Running("thread", "uncounted")
    /\ frames_free' = (get["thread"].reg + 1) % Word
    /\ Pass("thread", "freed")
    /\ UNCHANGED <<frames_count, physical_bitmap, frame_idx, holders, contended, miscounted>>

-----------------------------------------------------------------------------
\* The steps of level l from a call to its result.
FrameStep(l) ==
    \/ get_test(l) \/ get_start(l) \/ get_scan(l) \/ get_reset(l) \/ get_set(l)
    \/ get_count_load(l) \/ get_count_store(l) \/ get_idx_load(l) \/ get_idx_store(l)
    \/ l = "thread" /\ (free_clear \/ free_count_load \/ free_count_store)

Next == \/ \E l \in Levels : frame_get(l) \/ FrameStep(l) \/ frame_return(l)
        \/ \E i \in FrameSet : frame_free(i)

Spec == frame_setup /\ [][Next]_vars

-----------------------------------------------------------------------------
(* Properties.                                                              *)

GetSteps == {"out", "test", "start", "scan", "reset", "set", "count", "counted", "index",
             "indexed", "done", "none", "clear", "uncount", "uncounted", "freed"}
Gets == [at : GetSteps, i : 0 .. Frames + 1, reg : Nat, byte : SUBSET (0..7)]

\* The scan index passes frames_count by one at most, when an interrupt's
\* increment falls into a thread's frame_get.
TypeOK == /\ frames_count \in MemSizes
          /\ physical_bitmap \in [0 .. Byte(Frames) -> SUBSET (0..7)]
          /\ frames_free \in 0 .. Word - 1
          /\ frame_idx \in 0 .. frames_count + 1
          /\ get \in [Levels -> Gets]
          /\ holders \in [FrameSet -> Nat]
          /\ contended \in BOOLEAN /\ miscounted \in Nat

\* None of the kernel's frames is ever given to anyone, and no frame has two
\* owners unless an interrupt's frame_get took the very byte that a thread's
\* had found clean and not stored yet; everywhere else a frame_get may be
\* interrupted.  That frame_set overwrites the byte is made up for by the test
\* of the whole byte; either alone would break this.
FramesNotShared ==
    \A i \in FrameSet : /\ i < Reserved => holders[i] = 0
                        /\ ~contended => holders[i] <= 1

\* frame_free_count() is the number of frames that are neither reserved nor
\* held, and the decrements that were lost because an interrupt made them
\* between the load and the store of a thread: it never says less.
FreeIsCounted ==
    /\ ~contended /\ Frames + miscounted < Word
    /\ \A l \in Levels : get[l].at \in {"out", "done", "none", "freed"}
    => frames_free = frames_count - Reserved - Cardinality({i \in FrameSet : holders[i] > 0}) + miscounted
=============================================================================
