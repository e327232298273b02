# A TLA+ model of DiyOS

DiyOS is a small 32-bit x86 operating system: a preemptive kernel with threads
of fixed priority, wait queues and messages, drivers that run as threads fed by
interrupt handlers, a memory manager, a tar RAM disk behind a small virtual
file system, and a GUI server with widgets. It has no tests; what its comments
and headers say is all there is to hold it against. This directory holds TLA+
modules that model it, the TLC configurations that check them and TLAPS
proofs about them. Paths below are relative to the repository's root.

## Inventory

| Part | State | Operations | What makes it correct |
|---|---|---|---|
| Queue (`lib/queue.c`) | ring of 32-bit words; `count`, `front`, `rear` as `uint16_t` | init, add, remove, peek, size, foreach | a bounded FIFO; also when an interrupt arrives inside a call |
| Tasks and scheduler (`kernel/task.c`, `schedule.c`, `thread.c`, `x86/switch_to.asm`, `lib/system/sleep.c`) | task list, `running_task`, per thread status, priority, timeout, listen mask, message queue | create, block, sleep, sleep_on, wake_up, exit, two-pass schedule, switch | a READY thread is always found; nobody blocked is out of reach; READY threads run |
| Messages (`kernel/message.c`) | the receiver's queue | message_to, message | sent messages are read |
| Timer, interrupts (`drivers/timer.c`, `kernel/x86/idt.c`, `kernel/devices/pic.c`) | per-thread timeout, PIC masks and in-service bits | tick, fault, acknowledge | timeouts expire; every interrupt is acknowledged |
| Keyboard (`drivers/kb.c`) | scan-code queue, wait queue, modifier and lock state | IRQ 1, driver thread, convert | every key reaches the listeners once, in order |
| Mouse (`drivers/mouse.c`) | packet in progress, packet queue, wait queue | IRQ 12, driver thread | packets stay in step with the device |
| Frames (`kernel/memory/frame.c`) | bitmap, free count, scan index | setup, get, get_blk, free | no frame has two owners; free frames are found |
| Heap and pages (`kernel/memory/mm.c`, `kernel/x86/page.c`) | block list, `malloc_top`, `heap`, page tables | malloc, free (empty), page_map, page_map_until, page_upper | blocks are disjoint and mapped |
| Ring, list (`lib/ring.c`, `lib/list.c`) | ring indices; linked list | push, pop; add, get, foreach | stay in bounds; order kept |
| File system (`kernel/filesystem/`, `lib/system/`) | mounts, RAM-disk tree, descriptors of each task | register, path, finddir, readdir, open, read, write | a path finds the node it names; descriptors stay in their table |
| GUI (`gui/`) | widget tree, active window, focus, pointer, edit buffers, navigator directory | message loop, mouse and key dispatch, widget handlers | keys go to the focused widget of the active window; buffers stay in bounds |
| ELF, address spaces (`kernel/elf.c`, `aspace.c`) | sections | load | (no caller) |
| Text console (`drivers/fb.c`, `lib/stdio/printf.c`) | `x`, `y`, `offset`, video memory | putchar, newline, roll | the cursor stays on the screen, the last lines printed are shown |
| Graphics, serial, ACPI, PCI, IDE, GDT/TSS, C library | devices and pixels | I/O | not modelled, see `PROJECT.json` |

How they interact: an interrupt handler runs with interrupts disabled on top of
the running thread; it puts a word on a device queue and makes a thread READY.
The timer handler calls `schedule()` and may leave the interrupted thread in the
middle of anything, a queue call or another `schedule()` included. Driver
threads send messages to listening threads; the GUI thread reads them. Nothing
takes a lock; only `gui_main` disables interrupts.

The hard behaviours are therefore the windows between two steps: within a queue
call, in the middle of a pass of `schedule()`, between marking oneself BLOCKED
and being on a wait queue, between the last look at a queue and going to sleep,
within a `malloc` or a `printf` that an interrupt's handler calls too. The rest, file
system and GUI, runs alone; there the limits of fixed buffers and long sequences of
legal inputs are what a test would hardly reach.
`PROJECT.json` lists each under "hazards" with its line.

## Modules

| Module | Models | Notes |
|---|---|---|
| `BoundedFifo` | what `include/queue.h` promises | abstract specification |
| `Queue` | `lib/queue.c`, a call per step | refines `BoundedFifo` |
| `PreemptedQueue` | `lib/queue.c`, a memory access per step, under interrupts | extends `Queue`, whose calls are the interrupting ones |
| `QueueProofs` | | proofs about `Queue` and `PreemptedQueue` |
| `Kernel` | tasks, scheduler, sleeping, messages, timer, faults | threads make arbitrary calls |
| `Input` | keyboard and mouse threads, their handlers, `gui_main` | composes the programs with `Kernel` |
| `KernelProofs` | | proofs about `Kernel`; `Input` implements it |
| `Frame` | `kernel/memory/frame.c`, a memory access per step, at two levels | |
| `Heap` | `malloc` of `kernel/memory/mm.c` over `kernel/x86/page.c` | extends `Frame`, whose steps it takes one by one (`UsesFrames`) |
| `HeapProofs` | | proofs about `Frame` and `Heap`, from `Induction` |
| `Ps2` | the two handlers on the shared port, the mouse's packets, `convert()` | the controller is external |
| `Ps2Proofs` | | proofs about `Ps2` |
| `Console` | `drivers/fb.c` under `printf`, a memory access per step | |
| `ConsoleProofs` | | proofs about `Console` |
| `Files` | `fs_root`, `devfs`, `serial`, `ramfs`, `path`, `open`, `read`, `readdir` | boot of the file system |
| `Desktop` | `gui_main`'s dispatch, windows, widgets, explorer and text view | extends `Files`, whose boot precedes it |
| `FilesProofs` | | lemmas about the paths, lookups and trees of `Files`, from `Induction` |
| `DesktopProofs` | | proofs about `Files` and `Desktop`, from `FilesProofs` |
| `Induction` | | lemmas about numbers, sums and folds |
| `MCKernel`, `MCInput`, `MCConsole`, `MCDesktop` | constants for TLC | |

**Queue.** The variables are the fields of `queue_t` and the value the last call
returned. `UINT16_MAX` is a constant; the configurations set it to 65535. The
refinement maps the ring to the sequence of words from `front` on.

**PreemptedQueue.** The "low" call is the one in a thread; each of its actions is
one access to the shared fields (`count++`, `count--` and `++rear` are a load and a
store, as an unoptimised build makes them). A "high" call is a whole call that
runs in between: a device interrupt's `queue_add`, or another thread's call after
a tick. `queue_add` reads `rear` again for the index of its store, as such a build does. `sharing` says which: a device's interrupt under its driver's `queue_remove`,
the receiver's removes or another sender's adds under a `queue_add`. Words are
numbered so that each is told apart; `accepted`, `taken`, `lapped` and `between` are
history. A store outside the array ends the behaviour.

**Kernel.** `pc` says where in a kernel call each thread is; at "run" it is in its
own code and may make any call. A thread's `schedule()` looks at one item of the
task list a step, in each of its two passes, and then switches; a tick may fall
between any two of these steps. `prio`, `pos` and `pick` are its local variables
and may be stale. `switch_to` leaves the thread at "ret", from where it goes on when
something switches back. When the second pass finds no thread, `task_foreach` ends
without a `return`; an unoptimised build, the one the Makefile makes, leaves the NULL
item in `eax`. `switch_to(NULL)` takes its page directory and stack from low memory:
`running` is then `NoTask` and nothing happens any more. Interrupt and fault handlers are
single steps, their own `schedule()` included. `timeout` is unsigned: `Word` stands
for 2^32 (TLC's integers have 32 bits, so the runs use 16, which is larger than
`Tick` and no multiple of it). `Init` is the moment of the first `schedule()` in
`do_it_yourself`; `t->timeout` is whatever `malloc` found. Abstractions: a wait
queue has one sleeper (`Owner`), as `kb_wait` and `mouse_wait` have; queue calls are
atomic here, what an interrupt does inside one is `PreemptedQueue`'s subject; so is
the `malloc` inside `message_to`; a thread that died and is made READY by a message
goes on where it was.

**Input.** Each action is a call of `Kernel` or a step of a thread's own code. A key
is an event of three kinds: sent on, converted to nothing, or the scan code 0,
which the driver takes for an empty queue. `mouse_handler` is modelled by its
outcomes: some packets queued and the thread woken, or the early return for a
byte without its sync bit, after which `unacked` blocks the device, as the PIC does.
`t->listen && KEYBOARD` is true for every thread that listens to anything, so
`listen` is a set of threads.

**Frame.** A byte of the bitmap is the set of its bits. `frame_set` overwrites the
byte and `frame_get` tests the whole byte, as the code does. A thread runs `frame_get`
and so does an interrupt on top of it (`Levels`): `get` holds the locals of each, each
access to the bitmap, `frames_free` and `frame_idx` is a step, and a `--` or `++` is a load
and a store. Only the scan is one step, at its last test: behind it an interrupt only makes
bytes dirty. `holders` counts the owners of each frame; `contended` says that an interrupt
took the byte that a thread had tested and not yet stored, `miscounted` how many decrements
of `frames_free` a thread's store undid. The recursion of `frame_get` is its first step
again: when no byte is clean it goes on for ever (the stack it uses up is not modelled).
`frame_free` is taken by a thread only. `frames_count`
is what `frame_setup` made of the size of the memory, and the same from then on; `Frames` is what
the bitmap has room for. A scan passes over all eight frames of a byte that is not zero, but
`frames_free` counts one, so that `frame_get` may find nothing while frames are free by the
count: it then calls itself with `frame_idx` at 0 and finds nothing again.

**Heap.** A `malloc` is taken apart at its accesses to `malloc_top`, `heap`,
`last_block`, the list and the page tables, and in `frame_get` at those of `Frame`; at any of
them the mouse's interrupt may call another one, which then runs to its end, as soon as
`schedule()` has enabled interrupts. The `heap` that `mm()` sets is a local variable, so the
global one starts at 0. `start.asm` maps the first `BootPages` pages, the whole of one page
table, to the memory from `KernelFrame` on; the allocator reserves the kernel's frames only,
so it gives out frames that a boot page shows as well. `entries` and `tables` are the page
tables: `page_map` looks for the table, makes one if there is none, and writes the entry, in
three steps, so that an interrupt's `page_map` may make the same table in between and lose it.
`page_upper` is the walk of `page.c`: it ends before the first entry that is zero. What it may
take for an entry: one that was written; anything, in a table that `page_map` made, as the
table's frame is not cleared; the words at address 0 where a table is absent, of which
`LowWords` are not zero; anything there once `page_map` was denied a frame and wrote to
address 0 itself. All possible answers are taken (`MayBeSet`, `MayBeZero`). So where the last
entry of the last page table is in use, `page_upper` may walk on in the words at address 0 and
return a page that was never mapped, and `page_map_until` goes on behind it.
`denied`, `nested`, `raced` and `aliased` are history: `frame_get` said 0; an interrupt's
`malloc` ran inside a thread's; one while that was placing its block; a page's frame or table
was lost or has another use. `free()` is empty, so `_find_hole` only walks the list; when the
list has a cycle it does not return, and `malloc` has no further step. `page_unmap`, which
only the commented-out part of `free()` would reach, may take any page of the heap back.

**Ps2.** Bytes of both devices pass through one buffer. `mouse_handler` reads as long
as there is a byte, one per step, while the devices go on sending; `cicle` starts
from 0 in every interrupt. A byte carries what the code looks at: scan code, or sync
and overflow bits, and, for the properties only, which packet it is of. When a handler
reads a byte of the other device the behaviour ends (`crossed`). `convert()` is
translated with its fall-through for CTRL, its two toggles for a lock key and the
size test that counts both columns of `keymap`: codes from 105 on are looked up behind the
table, where the entry is whatever the build put there: `Blank` and `Unshifted` say which
keys have an entry of 0 there without and with SHIFT. The keyboard's answers to the LED
commands come back as scan codes.

**Console.** Each `x++`, `y++`, `y--` is a load and a store, as the unoptimised build
makes it. `Sharings` gives the two ways in which a second `printf` comes into a first:
nested (`frame_get` prints, and the mouse's interrupt calls `malloc`) or in turns with it
(two threads and ticks). A cell is a character; the colour never changes. `fb()` clears `height`
rows, 0 to `height - 1`, while the cursor goes down to row `height`: what the boot loader left
in that one (`Leftover`) stays, and is rolled up with the rest. Offsets are computed from `y`
and then `x`, two loads. The
behaviour ends after a lost update of `x` or `y` between threads, from where on the
cursor may be anywhere.

**Files.** A path is a sequence of names and `"/"`, which keeps what `path()` is about:
leading, trailing and doubled slashes. The nodes are a sequence, a pointer is an index
in it. An archive is a list of headers (name, type, size in octal digits) and the length
of the module, which lies at `Start`. Sizes and addresses have 32 bits (`Word`): eleven octal
digits give up to 2^33 - 1, and `tar_getsize` and the sum of address and size wrap. When one
has, `tar_parse` looks for the next header in the wrong place (`astray`): it finds a zero and
ends, or takes something for headers, of which anything may come (`"wrap"`, the behaviour
stops). A module that ends with its last file has no zeros behind it; what lies there is taken
for a header and not counted, unless `headers[]` is full or its size wraps (`tar_parse_end`).
`path()` stores its NULL behind the array it allocated, in every lookup (`Stray`). As `free()`
frees nothing, that is behind the last block of the heap; nobody reads it but
`_ramfs_create_path`, whose next `malloc` puts a header there. `open` of a file after the last
descriptor stores the node's address over `file_count`; from the one after that, the index is that
address (`Pointer`, the behaviour stops). An access through a bad pointer ends the
behaviour as well (`phase = "stopped"`), and `harm` records each kind of store outside an object.
`PlainArchive` says which archives the tree is promised to match: those that `tar` makes
of plain files, with every directory's header before what the directory holds, one "/"
between names, and no path that is a file once and a directory another time. The code
puts no such condition; it takes any archive, and `CountsWholeFiles`, `HarmHasCause` and
the types are about any.

**Desktop.** `gui_main` handles a message with interrupts disabled, so a message is one
action: a key to the active window's focused widget, or a mouse packet to the window
under the pointer. Drawing is left out, so are key releases and moves inside a window,
which reach callbacks that are NULL or empty. Two images are read at the start: whatever the
header in the file says, the descriptor stays used, and `bmp->data` may be stored behind a block
that is shorter than the struct (`"bmp"`). The dirent that `file_navigator_set`
starts from has an offset that was never set: 0 or `UnsetOffset`. A text is which file
it came from and how long it is; `from` and `chosen` of a text view remember the directory it
was listed in and the entry chosen. ".." in "/" searches the heap below the string; the
byte it clears is one that nothing uses or one that stops the machine.

## Runs

| Run | Expect | Shows |
|---|---|---|
| `queue` | pass | types, agreement of the indices, refinement of the FIFO; ring of 4, 3 words |
| `preempted` | pass | a queue call under whole calls of others: in order, never overstated, and outside the array only with a second sender between the wrap test and `++rear` |
| `kernel` | pass | sleepers stay queued, and a thread resumes unwoken only while another is READY |
| `input_boot` | pass | the boot threads refine `Kernel`; READY threads run; the machine comes to rest |
| `input_burst` | pass | under a burst READY threads run, and a driver woken in its sleep drains its queue |
| `input_schedule` | violation | `schedule()` runs off the task list (`kernel/do_it_yourself.c:59`) |
| `input_gui` | violation | the GUI's lost wake-up (`gui/gui.c:47`) |
| `memory` | pass | `malloc` under `malloc`, step by step, is a behaviour of `Frame`: no reserved frame is given out, none has two owners unless an interrupt took the byte a thread had tested, and the free count is off by the lost decrements exactly; blocks are disjoint and the list whole unless an interrupt's `malloc` came while a block was being placed; less than a header is left outside the heap; boot pages keep their frames |
| `ps2` | pass | mouse packets stay whole while the handler never ends inside one; `k_shift` is not left on; a key is left on only by a change of shift or a code beyond the table |
| `console` | pass | after two `printf`, nested at any access or in turns, the cursor is on the screen; after one alone, the last lines of the text are shown, and behind the text of line `height` + 1 what was in the row that `fb()` leaves |
| `desktop` | pass | the mounted tree is the archive, whole files are counted unless a size is beyond 32 bits, the navigator shows its directory, a view shows the chosen file, or the first of its name in that directory, or nothing, one window is active and changes only under the pointer, and each kind of stray write has its cause |
| `desktop_open` | violation | a chosen file that is not opened (`gui/widgets/filenavigator.c:89`) |

Bounds. A ring of four wraps and fills in every combination of `front` and `count`;
`preempted` uses a ring of three and enough words to go around it twice.
`kernel` has the idle thread, a thread with a wait queue and one without:
two threads are what a stale pick needs (one picks, a tick runs the other), and a
wait queue of two is full after one stale entry. `input_boot` has all four threads
and one device interrupt at any moment of the boot, on queues of one and two, of a
key or of up to two mouse packets; `input_burst` has three interrupts on queues of
two, so that one is dropped. `memory` has a kernel that ends inside a byte of the
bitmap, pages of 8 bytes, page tables of three pages, of which the boot's is the first, and
blocks of 1 and 13: a block ends in a page of its own, spans two, or ends within a header of a
page's end; three blocks let a thread's `malloc` meet an interrupt's before and after the heap
first grows and fill a second table. The bitmap has room for 41 frames, and the memory is of 41,
so that the blocks and their tables find theirs, or of nine, of which one is free: `frame_get`
returns 0, an interrupt takes the last frame from under a thread, a decrement is lost at 1, and
the scan starts anew. `ps2` has both shifts, CTRL, ALT, a lock, a plain key and one whose
release code is beyond the table, one whose press is, and three keys or packets with two bytes in the controller: a handler meets
the next packet, part of a packet, or a key. `console` has a screen of 2 by 2 and six
characters, so that it scrolls within both calls. `desktop` has twelve archives: the last
file cut and one named like a file of `/dev`, a file appended again with another size, a
directory in one of the same name that comes twice, a link, a link first and no zeros at the end, a file before its directory, too many
headers, as many as fit and no zeros, two "/" in a
row, a size beyond `Word`, a sum beyond it, and no module;
`Word` is 128 and an archive at most 99 long; two descriptors, three windows and an edit
of four, so that each limit is passed.

`CHECK_DEADLOCK FALSE` stands where the system may stop: in `memory` (on a list with a
cycle, or with the bound on blocks used up), in `kernel` and the input
runs (after `switch_to(NULL)`), in `desktop` (after a stray write), and where a run's
bound on interrupts, words, events or characters is used up.

Fairness (`ISpec`). Weak fairness of `Execute`: the processor always executes the
next step of the running thread. Strong fairness of `tick`: the timer interrupts
periodically, and a tick that finds interrupts disabled stays pending in the PIC
until they are enabled. Device interrupts have no fairness. The liveness properties
except the behaviours that `input_schedule` shows to be possible: each allows `Lost`,
the machine stopped by `switch_to(NULL)`.

What `input_schedule` finds: the keyboard thread, BLOCKED in `sleep_on`, has seen in
its first pass that the GUI is READY. In its second pass it has passed over itself
when a tick runs the GUI. A key makes the keyboard thread READY; the GUI marks itself
BLOCKED and a tick gives the processor back; the keyboard's scan goes on behind itself, finds the GUI BLOCKED and comes to
the end of the list.

What `desktop_open` finds: ".." leaves "/ram/" where the way down left "/ram". For a
directory `file_navigator_choose` tests for the "/" at the end, for a file it does not;
"/ram//hello" has an empty segment, which no directory holds.

## Proofs

All theorems hold for every value of the constants that the ASSUMEs allow.

- `QueueProofs`. The invariant is `TypeOK` with `IndicesAgree`; the latter is needed
  because `queue_add` writes behind `rear` while the stored words are counted from
  `front`. From it, each call maps to a step of the FIFO (`QueueImplementsFifo`).
  For a call that others come into (`PreemptedQueue`) less is true at each access:
  `RearInv` says where `rear` may be at each of them, `RoomInv` that the room a lone
  producer found stays, `CountInv` that a decrement about to be stored does not hide too
  little. `OrderInv` has the words themselves: until an add laps the reader, what is
  between `front` and `rear` is what was accepted and not yet taken, in order, although
  `count` may be smaller.
- `KernelProofs`. `UnwokenResume` is not inductive: what a thread picked may stop
  being READY while others run. It follows from: the idle thread is always READY in
  its loop (`IdleInv`); and, for the thread that has the processor, if the thread it
  picked has stopped being READY, or it came back unwoken itself, then some thread
  other than idle is READY (`ScheduleInv`): a stale pick gets the processor back only
  from a switch to a READY thread or from another stale pick. `SleeperIsQueued`
  follows from `OwnerInv`: a wait queue holds its owner only, so whoever is popped is
  the thread that is made READY, and a full queue that drops a sleeper already holds
  it; and from `RunInv`: a thread in its own code sleeps on no queue. Both hold for
  any number of threads and any priorities. That `schedule()` finds a thread is not a
  theorem: `input_schedule` refutes it.
  Every step of the input path is a step of the kernel or leaves it unchanged
  (`InputUsesKernel`), so it inherits the kernel's theorems.
- `HeapProofs`. About `Frame`, `FrameInv` has `TypeOK`, which is not inductive without
  `IndexInv` (where the scan may be when an interrupt's increment of `frame_idx` falls into a
  thread's), and what the two slips leave of the bitmap: no frame that shares its byte with a
  reserved one is found clean (`ReservedInv`), whatever interrupts do; and until two callers
  contend for a byte, an owned frame's bit is all that is set in its byte, and a frame about to be
  set has a clean byte (`OwnedInv`). From these, `FramesNeverShared`. `CountInv` follows a
  decrement from its load to its store: what a thread has loaded (`Count`) and the frames taken or
  returned and not counted yet (`Pending`, `Returning`) account for every frame but the
  decrements an interrupt made in between, which `miscounted` counts; nothing comes between an
  interrupt's own load and store (`IrqCounts`). Hence `FreeAlwaysCounted`.
  About `Heap`: every step of it is a step of `Frame` or leaves it alone, at whatever point an
  interrupt's `malloc` came (`StepFrames`, `HeapUsesFrames`), so the heap inherits
  `FramesNotShared` and `FreeIsCounted`; this needs `PagesInv`: pages mapped or about to be lie
  behind the boot pages and go to real frames. `BootPagesAlwaysStay` rests on the walk of
  `page_upper` (`UpperBehindBoot`): the boot's table is full and stays so, so no entry inside it
  is zero, the walk ends behind it, and `page_map` never finds its table missing.
  `BlocksDisjoint` follows from `PlaceInv`: at most one `malloc` is placing a block, its
  block is at `malloc_top` with its size in the header, and every block handed out ends
  at or before `malloc_top`. `HeaderShort` follows from `ShortInv`: an undisturbed
  `malloc` past its test or its `page_map_until` has room for `malloc_top + size` in `heap`
  (`RoomInv`), and `TopInv` says so of the last block.
  `ListIsWhole` follows from `ListInv`: the blocks handed out are nodes in the order of
  their addresses, each directly behind the one before (`Row`) and each leading to the
  next (`Linked`), as many as the list has (`Counted`), while the block being placed is in the
  list as far as `Stage` says; the walk of `_find_hole`, a recursive function, then visits node k
  at step k, by induction.
- `ConsoleProofs`. `CursorInv` bounds the cursor by the screen and what each `printf` has
  moved it and will still put right (`XAhead`, `YAhead`); `RegInv` says the same of a value
  loaded and not yet stored, which needs that a nested `printf` leaves `x` and `y` where it
  may be loaded from; two threads' updates that fall into each other are `Lost`.
  `ScreenShowsText` compares the screen with a fold over the text, so its invariant speaks
  of every prefix: with `done` the part of the text that is put, `ShowInv` says that the
  screen shows the lines of `done` (`Synced`) and, inside the next character, how far the
  screen and the cursor have come from these lines to the lines with that character, one
  clause for each access (`Doing`). What a character does to the lines is a lemma about
  the fold; that scrolling drops just the first line shown is one about `fb_roll`. The row that
  `fb()` does not clear is that of one line, `Height` + 1 (`Empty`), wherever that is rolled to.
- `Ps2Proofs`. `MouseInv`: the mouse's bytes in the controller continue the packet that the
  handler is in (`Stream`, `InStep`), until a handler ends inside one. `KeyInv`: a key whose
  last code on the way to `convert()` is a press is down (`Coming`); `k_shift` is on for a
  shift that is down or has a code on the way (`ShiftInv`); so is every key the listeners
  take for pressed, but for those whose release is looked up with another shift or lies
  beyond the table (`ReportInv`, `GhostInv`).
- `FilesProofs`. What the operators of `Files` compute, for paths and archives of any length,
  by induction on a set of lengths. What `path()` makes of a path put together from others: a
  directory's path with a name behind it gives the directory's segments and that name when
  the directory does not end with "/", and an empty segment in between when it does.
  `Reached` is a lookup as a walk; a walk along two paths is one after the other.
  `TreeOf(d, all, n)` says what the tree is after n headers of a plain archive: one node per
  header, in the list of the first node that has the path of its directory; `IsAt` says which node
  a path then leads to. `PlainInv` states it of the boot, and is preserved because each turn
  of `ramfs()` finds the directory the header before it made: this is where "every directory's
  header before what it holds" is needed, and where a path that is both file and directory
  would break it.
- `DesktopProofs`. `FilesInv`: the nodes are a tree in the sense that a directory's entries
  are nodes, with as many of them as the boot has made so far; so every lookup ends at a
  node or nowhere, whatever path is put together. `GuiInv` rests on it: the descriptors, the
  navigator's list and selection and the edit's text keep their types while files are
  opened and directories listed. `ParseInv`: the address of `tar_parse` is the sum of the
  header and the whole blocks of every header counted, which lies inside the module, and
  where it stopped the next does not; the sums grow, so the headers counted are exactly
  those of `WholeHeaders`. With 32 bits this holds as long as no file that does not fit ends beyond
  `Word` (`Wraps`): a sum that wraps is one of such a file, since all before it end in the module. `WindowsInv`: the active window is one of the windows, the only
  one marked so; with it, the loop of `gui_main` gives a click to a window under the pointer.
  `ArchiveAlwaysListed` follows from `PlainInv`. `NavInv`: the navigator's list is `readdir` of
  its directory, from the offset that was left unset or from 0; that directory is spelled from
  names that reach a directory (`InDirectory`), with or without a "/" at the end; and the edit
  shows it until something is typed. It is preserved by ".." because the part cut off is the last
  name, and by the way down because the entry chosen is found under its own name or one before
  it with the same name, which in a plain archive is a directory as well (`SameKind`).
  `TaskInv`: a descriptor is used per window, so the file table is passed only after that many
  views. `ViewsInv`: a view's file is the first of the chosen name in the list of the directory the view
  is from (`Shown`), which stays when windows are added. `HarmInv`: each kind of stray write with
  its cause (`Caused`), the tree and the windows being
  unchanged or added to afterwards, and none but that of `path()` before the GUI runs unless the
  boot stops; that a path too long for the edit is the path of a header
  needs `NavInv` and `IsAt`.
- `Induction`. The library's induction theorems take a predicate, which no installed
  prover can instantiate. Here induction is stated for a set: a set that holds m and with
  each number the next holds all of them (`SetInduction`, from well-foundedness). It gives
  what the folds of the community modules choose (`FoldExists`, `PrefixFold`), that sums
  exist, and the least multiple of a block (`RoundUp`).

`TypeOK`, `FramesNotShared` and `FreeIsCounted` of `Frame` are invariants of `memory`,
whose specification refines `Frame`'s.

Only model-checked: the liveness properties (`ReadyRuns`, `EventuallyIdle`,
`WokenDriverDrains`), which need fairness and are out of the prover's reach. Every
invariant, every action property and every refinement that a passing run checks is stated by
a theorem.

What the proofs changed. Trying to prove `DiskIsArchive` and `NavigatorShowsDirectory` led to
`PlainArchive` and to the archives with a file appended again and with two "/" in a row: both
are false of archives that are not plain in this sense. `ViewShowsFile` is false where a
directory has no name (`a//b`): the path of a file chosen after ".." has two "/" as well, and
finds the file in the directory without a name; the property says so. `DesktopAssumption` asks
that the edit has room for "/ram" (it has 32 characters), which is put there unasked.

## Not modelled

- Drawing: `gfx.c`, `bochs.c`, the draw functions of the widgets, task bar, wallpaper,
  labels, the pixels of images. The GUI thread draws alone, with interrupts disabled.
- Code without a caller at this commit: the ELF loader, address spaces and `module.c`;
  `console.c`, `terminal.c` and with them `lib/ring.c`; `write()`, `thread_destroy`,
  `frame_get_blk`, `queue_foreach`, and the hole splitting of `mm.c`, as `free()` is empty.
- Devices outside the repository: ACPI, PCI, BIOS, IDE, the serial ports, the set-up
  commands of mouse and PIC. Processor set-up runs once before everything else.
- The contents of messages, files, stacks and registers; number formatting; a page fault
  (the machine stops); an unexpected interrupt; what an out-of-bounds store does after it
  has happened (the model stops there, unless nothing reads what was overwritten).
- What a frame that two pages show does to their contents (`aliased` is where the heap's
  promises end), the stack that `frame_get`'s recursion uses up, and the page tables of the
  video memory but for the frames they take. `path()`'s NULL behind the heap's last block would
  fault where that block ends with the last mapped page.
- That `frame_get` returns, and that `page_upper` returns a page that is mapped: neither holds
  (see Frame and Heap above), and no run claims it.
- That messages arrive: a full message queue drops silently, as modelled, and no property claims
  more.

`PROJECT.json` lists the components with these reasons.

## Plan

All modules above, their runs and the proofs are done. What would widen the project: the
contents of messages through `message_to` to the widgets, so that keys are followed from the
port to the edit; and the code that nothing calls at this commit (`console.c`, `elf.c`,
`aspace.c`), once something does.
