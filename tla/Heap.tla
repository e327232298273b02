-------------------------------- MODULE Heap --------------------------------
(***************************************************************************)
(* kernel/memory/mm.c over kernel/x86/page.c and Frame.tla: malloc puts     *)
(* each block behind the last and asks page_map_until for pages.  A mouse   *)
(* interrupt calls malloc too (drivers/mouse.c, mouse_handler), on top of   *)
(* whatever a thread's malloc was doing; each access to malloc_top, heap,   *)
(* the page tables and, through frame_get, the bitmap is a step, and so is  *)
(* each part of placing a block.  free() is empty, so no block is ever a    *)
(* hole and _find_hole only walks the list.                                 *)
(*                                                                          *)
(* Addresses count bytes from KERNEL_BASE.  start.asm maps the first        *)
(* BootPages pages (the whole of table 768) to the memory from KernelFrame  *)
(* on, of which only the kernel's frames are reserved.                      *)
(***************************************************************************)
EXTENDS Frame, Sequences

CONSTANTS PageSize,     \* 4096
          Header,       \* sizeof(mblock_t), 20
          KernelEnd,    \* the end of the kernel and its modules
          KernelFrame,  \* the frame of KERNEL_BASE, 0x100000 / 4096
          BootPages,    \* pages of one table, 1024
          LimitPages,   \* KERNEL_LIMIT, in pages
          LowWords,     \* words from address 0 up to the first that is zero
          Sizes,        \* the sizes asked for
          MaxBlocks     \* bound on the number of blocks

ASSUME HeapAssumption ==
    /\ PageSize \in Nat \ {0} /\ Header \in 1 .. PageSize
    /\ KernelEnd \in Nat \ {0} /\ KernelFrame \in Nat
    /\ BootPages \in Nat \ {0} /\ LowWords \in 0 .. BootPages
    /\ LimitPages \in Nat /\ LimitPages >= BootPages + LowWords
    /\ Sizes \subseteq Nat \ {0}
    /\ MaxBlocks \in Nat

Null == 0
NoCall == [at |-> "out", size |-> 0, page |-> 0, last |-> 0, frame |-> 0, b |-> Null]

VARIABLES malloc_top, heap, last_block,
          mblocks,      \* address of a header -> its size and next
          entries,      \* the entries of the kernel's page tables: page -> frame
          tables,       \* those tables: table -> frame
          interrupts,   \* the mouse's interrupt is enabled
          call,         \* the malloc in progress at each level, its locals
          handed,       \* history: the blocks returned, <<address, size>>
          denied,       \* history: frame_get returned 0
          nested,       \* history: an interrupt's malloc ran inside a thread's
          raced,        \* history: ... while that one was placing its block
          aliased       \* history: a page lost its frame, or shares it

hvars == <<malloc_top, heap, last_block, mblocks, entries, tables, interrupts, call, handed,
           denied, nested, raced, aliased>>
allvars == <<vars, hvars>>

PageOf(a) == a \div PageSize
TableOf(p) == p \div BootPages

\* The processor executes level l.
On(l) == l = "thread" => call["irq"].at = "out"

At(l, from) == On(l) /\ call[l].at = from

Go(l, to) == call' = [call EXCEPT ![l].at = to]

AtRest == \A l \in Levels : call[l].at = "out"

Placing(l) == call[l].at \in {"header", "link", "last", "top"}

\* Frame i is that of a page or of a table.
Used(i) == \/ \E p \in DOMAIN entries : entries[p] = i
           \/ \E t \in DOMAIN tables : tables[t] = i

-----------------------------------------------------------------------------
(* mm(): the block at the end of the kernel is the root of the list.  The   *)
(* assignment to heap is to a local variable of the same name.  The kernel's *)
(* pages are mapped again to the frames start.asm mapped them to.           *)

mm == /\ frame_setup
      /\ malloc_top = KernelEnd + Header + 1
      /\ heap = 0
      /\ last_block = KernelEnd
      /\ mblocks = [a \in {KernelEnd} |-> [size |-> 1, next |-> Null]]
      /\ entries = [p \in 0 .. BootPages - 1 |-> KernelFrame + p]
      /\ tables = [t \in {0} |-> KernelFrame]
      /\ interrupts = FALSE
      /\ call = [l \in Levels |-> NoCall]
      /\ handed = <<>>
      /\ denied = FALSE /\ nested = FALSE /\ raced = FALSE /\ aliased = FALSE

\* do_it_yourself() ends its set-up: from here on the mouse interrupts.
schedule ==
    /\ call["thread"].at = "out"
    /\ ~interrupts
    /\ interrupts' = TRUE
    /\ UNCHANGED <<vars, malloc_top, heap, last_block, mblocks, entries, tables, call, handed,
                   denied, nested, raced, aliased>>

-----------------------------------------------------------------------------
(* page_upper.                                                              *)

\* Whether page p's entry can be nonzero and can be zero.  A table's frame is
\* not cleared, so an entry not yet written may be anything; a table that is
\* absent is read at address 0, where page_map wrote if it was denied a frame.
MayBeSet(p) == \/ p \in DOMAIN entries
               \/ TableOf(p) \in DOMAIN tables
               \/ p % BootPages < LowWords
               \/ denied

MayBeZero(p) == /\ p \notin DOMAIN entries
                /\ TableOf(p) \in DOMAIN tables \/ p % BootPages >= LowWords

\* The page before the first entry that is zero, or the last one.
page_upper == {p - 1 : p \in {q \in 0 .. LimitPages :
                                /\ q = LimitPages \/ MayBeZero(q)
                                /\ \A r \in 0 .. q - 1 : MayBeSet(r)}}

-----------------------------------------------------------------------------
(* page_map_until, after its call of page_upper.                            *)

\* p_addr = frame_get()
map_frame(l) ==
    /\ At(l, "map")
    /\ call[l].page <= call[l].last
    /\ frame_get(l)
    /\ Go(l, "frame")
    /\ UNCHANGED <<malloc_top, heap, last_block, mblocks, entries, tables, interrupts, handed,
                   denied, nested, raced, aliased>>

\* if( !p_addr ) return old_limit
map_denied(l) ==
    /\ At(l, "frame")
    /\ get[l].at = "none"
    /\ frame_return(l)
    /\ heap' = call[l].page * PageSize
    /\ denied' = TRUE
    /\ Go(l, "block")
    /\ UNCHANGED <<malloc_top, last_block, mblocks, entries, tables, interrupts, handed,
                   nested, raced, aliased>>

map_given(l) ==
    /\ At(l, "frame")
    /\ get[l].at = "done"
    /\ frame_return(l)
    /\ call' = [call EXCEPT ![l].at = "enter", ![l].frame = get[l].i]
    /\ UNCHANGED <<malloc_top, heap, last_block, mblocks, entries, tables, interrupts, handed,
                   denied, nested, raced, aliased>>

\* page_map(p_addr, old_limit): if( pd[t_idx] is empty ) frame_get()
page_map(l) ==
    /\ At(l, "enter")
    /\ \/ /\ TableOf(call[l].page) \in DOMAIN tables
          /\ Go(l, "entry")
          /\ UNCHANGED vars
       \/ /\ TableOf(call[l].page) \notin DOMAIN tables
          /\ frame_get(l)
          /\ Go(l, "table")
    /\ UNCHANGED <<malloc_top, heap, last_block, mblocks, entries, tables, interrupts, handed,
                   denied, nested, raced, aliased>>

\* pd[t_idx] = the frame, or 0: a table that an interrupt made meanwhile is
\* lost with its entries.
page_table(l) ==
    /\ At(l, "table")
    /\ get[l].at \in {"done", "none"}
    /\ frame_return(l)
    /\ LET t == TableOf(call[l].page)
           others == DOMAIN tables \ {t}
       IN  /\ tables' = IF get[l].at = "none"
                        THEN [u \in others |-> tables[u]]
                        ELSE [u \in others \cup {t} |-> IF u = t THEN get[l].i ELSE tables[u]]
           /\ entries' = [p \in {q \in DOMAIN entries : TableOf(q) # t} |-> entries[p]]
           /\ aliased' = (aliased \/ t \in DOMAIN tables \/ (get[l].at = "done" /\ Used(get[l].i)))
    /\ denied' = (denied \/ get[l].at = "none")
    /\ Go(l, "entry")
    /\ UNCHANGED <<malloc_top, heap, last_block, mblocks, interrupts, handed, nested, raced>>

\* table[p_idx] = p_addr; old_limit += 0x1000.  Without a table the entry is
\* written to low memory.
page_entry(l) ==
    /\ At(l, "entry")
    /\ LET p == call[l].page
       IN  /\ IF TableOf(p) \in DOMAIN tables
              THEN /\ entries' = [q \in DOMAIN entries \cup {p} |->
                                     IF q = p THEN call[l].frame ELSE entries[q]]
                   /\ aliased' = (aliased \/ p \in DOMAIN entries \/ Used(call[l].frame))
              ELSE UNCHANGED <<entries, aliased>>
           /\ call' = [call EXCEPT ![l].at = "map", ![l].page = p + 1]
    /\ UNCHANGED <<vars, malloc_top, heap, last_block, mblocks, tables, interrupts, handed,
                   denied, nested, raced>>

\* return new_limit + 0x1000
mapped_until(l) ==
    /\ At(l, "map")
    /\ call[l].page > call[l].last
    /\ heap' = (call[l].last + 1) * PageSize
    /\ Go(l, "block")
    /\ UNCHANGED <<vars, malloc_top, last_block, mblocks, entries, tables, interrupts, handed,
                   denied, nested, raced, aliased>>

\* The steps inside frame_get and frame_free.
frame_step(l) == On(l) /\ FrameStep(l) /\ UNCHANGED hvars

-----------------------------------------------------------------------------
(* The other users of frames.                                               *)

\* (variant) the next scan starts at the first frame
page_unmap_rescan(p) ==
    /\ At("thread", "out") /\ get["thread"].at = "out"
    /\ p >= BootPages
    /\ get' = [get EXCEPT !["thread"] = [NoGet EXCEPT !.at = "clear", !.i = entries[p],
                                             !.byte = physical_bitmap[Byte(entries[p])]]]
    /\ frame_idx' = 0
    /\ call' = [call EXCEPT !["thread"].at = "unmap", !["thread"].page = p]
    /\ UNCHANGED <<frames_count, physical_bitmap, frames_free, holders, contended, miscounted,
                   malloc_top, heap, last_block, mblocks, entries, tables, interrupts, handed,
                   denied, nested, raced, aliased>>

\* page_unmap(p) for a page of the heap, by a thread outside malloc: its frame
\* is given back, then its entry is cleared.  Nothing calls page_free_above,
\* which does this, at this commit.
page_unmap(p) ==
    /\ At("thread", "out")
    /\ p >= BootPages
    /\ frame_free(entries[p])
    /\ call' = [call EXCEPT !["thread"].at = "unmap", !["thread"].page = p]
    /\ UNCHANGED <<malloc_top, heap, last_block, mblocks, entries, tables, interrupts, handed,
                   denied, nested, raced, aliased>>

page_unmapped ==
    /\ At("thread", "unmap")
    /\ frame_return("thread")
    /\ entries' = [q \in DOMAIN entries \ {call["thread"].page} |-> entries[q]]
    /\ call' = [call EXCEPT !["thread"] = NoCall]
    /\ UNCHANGED <<malloc_top, heap, last_block, mblocks, tables, interrupts, handed,
                   denied, nested, raced, aliased>>

\* page_map for the tables of the video memory (gfx_bochs), before the first
\* interrupt; page_map_user, which nothing calls, does the same.
user_page ==
    /\ At("thread", "out")
    /\ ~interrupts
    /\ frame_get("thread")
    /\ Go("thread", "user")
    /\ UNCHANGED <<malloc_top, heap, last_block, mblocks, entries, tables, interrupts, handed,
                   denied, nested, raced, aliased>>

user_mapped ==
    /\ At("thread", "user")
    /\ frame_return("thread")
    /\ aliased' = (aliased \/ (get["thread"].at = "done" /\ Used(get["thread"].i)))
    /\ Go("thread", "out")
    /\ UNCHANGED <<malloc_top, heap, last_block, mblocks, entries, tables, interrupts, handed,
                   denied, nested, raced>>

-----------------------------------------------------------------------------
(* malloc.                                                                  *)

\* _find_hole walks the list; on a list with a cycle it does not return.
ListEnds == LET n == Cardinality(DOMAIN mblocks)
                walk[i \in 0 .. n] == IF i = 0 THEN KernelEnd
                                      ELSE IF walk[i - 1] = Null THEN Null
                                           ELSE mblocks[walk[i - 1]].next
            IN  walk[n] = Null

malloc(l, size) ==
    /\ At(l, "out")
    /\ l = "irq" => interrupts
    /\ Len(handed) + Cardinality({k \in Levels : call[k].at # "out"}) < MaxBlocks
    /\ ListEnds
    /\ call' = [call EXCEPT ![l] = [NoCall EXCEPT !.at = "sum", !.size = size]]
    /\ nested' = (nested \/ (l = "irq" /\ call["thread"].at # "out"))
    /\ UNCHANGED <<vars, malloc_top, heap, last_block, mblocks, entries, tables, interrupts, handed,
                   denied, raced, aliased>>

\* malloc_top + size + sizeof(mblock_t) > heap: malloc_top is loaded, then heap
malloc_sum(l) ==
    /\ At(l, "sum")
    /\ call' = [call EXCEPT ![l].at = "test", ![l].last = malloc_top + call[l].size + Header]
    /\ UNCHANGED <<vars, malloc_top, heap, last_block, mblocks, entries, tables, interrupts, handed,
                   denied, nested, raced, aliased>>

malloc_test(l) ==
    /\ At(l, "test")
    /\ Go(l, IF call[l].last > heap THEN "expand" ELSE "block")
    /\ UNCHANGED <<vars, malloc_top, heap, last_block, mblocks, entries, tables, interrupts, handed,
                   denied, nested, raced, aliased>>

\* (variant) the size is left out of the new limit
expand_nosize(l) ==
    /\ At(l, "expand")
    /\ call' = [call EXCEPT ![l].at = "upper", ![l].last = PageOf(malloc_top)]
    /\ UNCHANGED <<vars, malloc_top, heap, last_block, mblocks, entries, tables, interrupts, handed,
                   denied, nested, raced, aliased>>

\* page_map_until(malloc_top + requested_size)
expand(l) ==
    /\ At(l, "expand")
    /\ call' = [call EXCEPT ![l].at = "upper", ![l].last = PageOf(malloc_top + call[l].size)]
    /\ UNCHANGED <<vars, malloc_top, heap, last_block, mblocks, entries, tables, interrupts, handed,
                   denied, nested, raced, aliased>>

\* (variant) mapping goes on at the upper page, not behind it
map_upper_same(l) ==
    /\ At(l, "upper")
    /\ \E u \in page_upper : call' = [call EXCEPT ![l].at = "map", ![l].page = u]
    /\ UNCHANGED <<vars, malloc_top, heap, last_block, mblocks, entries, tables, interrupts, handed,
                   denied, nested, raced, aliased>>

\* old_limit = page_upper() + 0x1000.  The walk is taken at its last read of the
\* page directory: behind it an interrupt only sets entries.
map_upper(l) ==
    /\ At(l, "upper")
    /\ \E u \in page_upper : call' = [call EXCEPT ![l].at = "map", ![l].page = u + 1]
    /\ UNCHANGED <<vars, malloc_top, heap, last_block, mblocks, entries, tables, interrupts, handed,
                   denied, nested, raced, aliased>>

\* b = (mblock_t*)malloc_top
malloc_block(l) ==
    /\ At(l, "block")
    /\ call' = [call EXCEPT ![l].at = "header", ![l].b = malloc_top]
    /\ raced' = (raced \/ (l = "irq" /\ Placing("thread")))
    /\ UNCHANGED <<vars, malloc_top, heap, last_block, mblocks, entries, tables, interrupts, handed,
                   denied, nested, aliased>>

\* (variant) one byte less is kept in the header
malloc_header_short(l) ==
    /\ At(l, "header")
    /\ mblocks' = [a \in DOMAIN mblocks \cup {call[l].b} |->
                     IF a = call[l].b THEN [size |-> call[l].size - 1, next |-> Null]
                                      ELSE mblocks[a]]
    /\ Go(l, "link")
    /\ UNCHANGED <<vars, malloc_top, heap, last_block, entries, tables, interrupts, handed,
                   denied, nested, raced, aliased>>

malloc_header(l) ==
    /\ At(l, "header")
    /\ mblocks' = [a \in DOMAIN mblocks \cup {call[l].b} |->
                     IF a = call[l].b THEN [size |-> call[l].size, next |-> Null]
                                      ELSE mblocks[a]]
    /\ Go(l, "link")
    /\ UNCHANGED <<vars, malloc_top, heap, last_block, entries, tables, interrupts, handed,
                   denied, nested, raced, aliased>>

\* last_block->next = b
malloc_link(l) ==
    /\ At(l, "link")
    /\ mblocks' = [mblocks EXCEPT ![last_block].next = call[l].b]
    /\ Go(l, "last")
    /\ UNCHANGED <<vars, malloc_top, heap, last_block, entries, tables, interrupts, handed,
                   denied, nested, raced, aliased>>

\* (variant) last_block stays where it was
malloc_last_stale(l) ==
    /\ At(l, "last")
    /\ Go(l, "top")
    /\ UNCHANGED <<vars, malloc_top, heap, last_block, mblocks, entries, tables, interrupts, handed,
                   denied, nested, raced, aliased>>

malloc_last(l) ==
    /\ At(l, "last")
    /\ last_block' = call[l].b
    /\ Go(l, "top")
    /\ UNCHANGED <<vars, malloc_top, heap, mblocks, entries, tables, interrupts, handed,
                   denied, nested, raced, aliased>>

\* malloc_top = b->addr + b->size; return b->addr
malloc_done(l) ==
    /\ At(l, "top")
    /\ malloc_top' = call[l].b + Header + mblocks[call[l].b].size
    /\ handed' = Append(handed, <<call[l].b, call[l].size>>)
    /\ call' = [call EXCEPT ![l] = NoCall]
    /\ UNCHANGED <<vars, heap, last_block, mblocks, entries, tables, interrupts,
                   denied, nested, raced, aliased>>

HNext == \/ \E l \in Levels :
              \/ \E size \in Sizes : malloc(l, size)
              \/ malloc_sum(l) \/ malloc_test(l) \/ expand(l) \/ map_upper(l)
              \/ map_frame(l) \/ map_denied(l) \/ map_given(l)
              \/ page_map(l) \/ page_table(l) \/ page_entry(l) \/ mapped_until(l)
              \/ frame_step(l)
              \/ malloc_block(l) \/ malloc_header(l) \/ malloc_link(l)
              \/ malloc_last(l) \/ malloc_done(l)
         \/ \E p \in DOMAIN entries : page_unmap(p)
         \/ page_unmapped \/ user_page \/ user_mapped \/ schedule

HSpec == mm /\ [][HNext]_allvars

-----------------------------------------------------------------------------
(* Properties.                                                              *)

\* malloc's use of the frame allocator is frame.c's: what Frame.tla shows of
\* every caller holds of the heap.
UsesFrames == Spec

\* A mouse interrupt inside a thread's malloc does harm only while the thread
\* is placing its block: interrupted anywhere else (in its walk of the list,
\* its test or its page_map_until), the blocks returned never overlap.
BlocksDisjoint ==
    ~raced => \A i, j \in 1 .. Len(handed) :
                  i # j => \/ handed[i][1] + Header + handed[i][2] <= handed[j][1]
                           \/ handed[j][1] + Header + handed[j][2] <= handed[i][1]

\* Until such a race, while no page has lost or shares its frame, and with no
\* malloc in progress, the list holds every block in the order of addresses,
\* ends at last_block, and the next block goes behind it: the next _find_hole
\* returns.
ListIsWhole ==
    ~raced /\ ~contended /\ ~aliased /\ AtRest =>
        /\ ListEnds
        /\ DOMAIN mblocks = {KernelEnd} \cup {handed[i][1] : i \in 1 .. Len(handed)}
        /\ \A a \in DOMAIN mblocks :
              /\ mblocks[a].next = Null <=> a = last_block
              /\ a # last_block => mblocks[a].next = a + Header + mblocks[a].size
        /\ malloc_top = last_block + Header + mblocks[last_block].size

\* expand() asks for size bytes where the block takes size and a header: of the
\* last block less than a header is left outside the heap, and never more,
\* unless an interrupt's malloc came in between or memory ran out.
HeaderShort ==
    AtRest /\ ~nested /\ ~denied /\ handed # <<>> => malloc_top < heap + Header

\* The pages start.asm mapped keep their frames, whatever page_upper takes for
\* a page table on its walk: it never stops inside them, and no table of theirs
\* is made anew.
BootPagesStay == \A p \in 0 .. BootPages - 1 :
                    p \in DOMAIN entries /\ entries[p] = KernelFrame + p
=============================================================================
