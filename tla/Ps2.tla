--------------------------------- MODULE Ps2 ---------------------------------
(***************************************************************************)
(* What the keyboard and the mouse send, and what the drivers make of it:   *)
(* the interrupt handlers of drivers/kb.c and drivers/mouse.c on the port   *)
(* the two devices share, the three-byte packets of the mouse, and          *)
(* convert(), which turns scan codes into keys and keeps the modifiers.     *)
(* Input.tla has the threads; here the keyboard thread is the action        *)
(* keyboad_task, which may run between any two interrupts.                  *)
(*                                                                          *)
(* The controller is external: a queue of bytes, each of one device; the    *)
(* byte at the head is in the output buffer and its device's interrupt has  *)
(* been latched; what an empty buffer holds is any byte.                    *)
(***************************************************************************)
EXTENDS Integers, Sequences, FiniteSets

CONSTANTS Keys,         \* the scan codes of the keys that are used
          Blank,        \* those whose entry in keymap is 0 without SHIFT
          Unshifted,    \* those whose entry is 0 with SHIFT; codes from 105 on lie
                        \* behind the table: an entry there is what the build put there
          KeyQueueSize, \* capacity of kb_queue, 16
          MaxEvents,    \* bound on the keys pressed and the packets sent
          MaxOut        \* bound on the bytes the controller holds

KEY_RELEASED == 128
KEYMAP_SIZE == 210      \* sizeof(keymap) / sizeof(keymap[0][0])
LSHIFT == 42
RSHIFT == 54
CTRL == 29
ALT == 56
KEY_NUM_LOCK == 69
KEY_SCROLL_LOCK == 70
KEY_CAPS_LOCK == 58
ACK == 250              \* the keyboard's answer to a command
Locks == {KEY_NUM_LOCK, KEY_SCROLL_LOCK, KEY_CAPS_LOCK}
NoCicle == -1

ASSUME Ps2Assumption == /\ Keys \subseteq 1 .. KEY_RELEASED - 1
                        /\ Blank \subseteq Keys /\ Unshifted \subseteq Keys
                        /\ KeyQueueSize \in Nat \ {0}
                        /\ {MaxEvents, MaxOut} \subseteq Nat

VARIABLES out,      \* bytes in the controller
          irq,      \* interrupts latched, of {1, 12}
          unacked,  \* interrupt 12 was never acknowledged
          cicle,    \* of the mouse_handler that runs, or NoCicle
          pkt,      \* *pkt: the bytes stored in flags, dx and dy
          packet,   \* the packet put on mouse_queue last
          kb_queue,
          mods,     \* k_shift, k_alt, k_ctrl and the locks that are on
          held,     \* the keys that are down
          sending,  \* packets begun, and the byte of the packet that is next
          reported, \* listeners: keys reported pressed and not released
          keys,     \* history: keys pressed
          reshifted,\* history: keys reported and down while k_shift changed
          crossed,  \* history: a handler took a byte of the other device
          cut,      \* history: mouse_handler ended inside a packet
          dropped   \* history: kb_queue was full

keyboard == <<kb_queue, mods, held, reported, keys, reshifted, dropped>>
mouse == <<unacked, cicle, pkt, packet, sending, cut>>
port == <<out, irq>>
vars == <<port, keyboard, mouse, crossed>>

\* The interrupt of the byte that comes to the head of o.
Raise(o) == IF o = <<>> THEN {} ELSE {IF o[1].from = "keyboard" THEN 1 ELSE 12}

-----------------------------------------------------------------------------
(* The devices.                                                             *)

Send(bytes) == /\ out' = out \o bytes
               /\ irq' = IF out = <<>> THEN irq \cup Raise(bytes) ELSE irq

KeyByte(code) == [from |-> "keyboard", code |-> code]

\* A key goes down, or is held down and repeats.
key_press(k) ==
    /\ keys + sending.packets < MaxEvents /\ Len(out) < MaxOut
    /\ Send(<<KeyByte(k)>>)
    /\ held' = held \cup {k}
    /\ keys' = keys + 1
    /\ UNCHANGED <<kb_queue, mods, reported, reshifted, dropped, mouse, crossed>>

key_release(k) ==
    /\ k \in held /\ Len(out) < MaxOut
    /\ Send(<<KeyByte(k + KEY_RELEASED)>>)
    /\ held' = held \ {k}
    /\ UNCHANGED <<kb_queue, mods, reported, keys, reshifted, dropped, mouse, crossed>>

\* The next byte of a packet.  The first has its sync bit and maybe an overflow
\* bit; the others are distances, in which the bit of the sync bit is any.
mouse_byte ==
    /\ Len(out) < MaxOut
    /\ sending.next = 0 => keys + sending.packets < MaxEvents
    /\ \E sync, over \in BOOLEAN :
          /\ IF sending.next = 0 THEN sync ELSE ~over
          /\ Send(<<[from |-> "mouse", at |-> sending.next, sync |-> sync, over |-> over,
                     of |-> sending.packets + (IF sending.next = 0 THEN 1 ELSE 0)]>>)
    /\ sending' = [packets |-> sending.packets + (IF sending.next = 0 THEN 1 ELSE 0),
                   next |-> (sending.next + 1) % 3]
    /\ UNCHANGED <<unacked, cicle, pkt, packet, cut, keyboard, crossed>>

-----------------------------------------------------------------------------
(* mouse_handler: a byte a step, as the mouse goes on sending.              *)

mouse_irq ==
    /\ 12 \in irq /\ ~unacked /\ cicle = NoCicle
    /\ irq' = irq \ {12}
    /\ cicle' = 0
    /\ UNCHANGED <<out, unacked, pkt, packet, sending, cut, keyboard, crossed>>

\* inportb(0x60)
Read == /\ out' = Tail(out)
        /\ irq' = irq \cup Raise(Tail(out))

\* A byte of the keyboard is read and ignored.
mouse_read_key ==
    /\ cicle # NoCicle
    /\ out # <<>> /\ out[1].from = "keyboard"
    /\ Read
    /\ crossed' = TRUE
    /\ UNCHANGED <<keyboard, mouse>>

\* case 0: without its sync bit the byte ends the handler at once, the
\* interrupt not acknowledged.
mouse_read_flags ==
    /\ cicle = 0
    /\ out # <<>> /\ out[1].from = "mouse"
    /\ Read
    /\ pkt' = [pkt EXCEPT ![1] = out[1]]
    /\ \/ out[1].sync /\ cicle' = 1 /\ UNCHANGED unacked
       \/ ~out[1].sync /\ cicle' = NoCicle /\ unacked' = TRUE
    /\ UNCHANGED <<packet, sending, cut, keyboard, crossed>>

\* (variant) cicle is counted up twice
mouse_read_dx_twice ==
    /\ cicle = 1
    /\ out # <<>> /\ out[1].from = "mouse"
    /\ Read
    /\ pkt' = [pkt EXCEPT ![2] = out[1]]
    /\ cicle' = 3
    /\ UNCHANGED <<unacked, packet, sending, cut, keyboard, crossed>>

\* case 1
mouse_read_dx ==
    /\ cicle = 1
    /\ out # <<>> /\ out[1].from = "mouse"
    /\ Read
    /\ pkt' = [pkt EXCEPT ![2] = out[1]]
    /\ cicle' = 2
    /\ UNCHANGED <<unacked, packet, sending, cut, keyboard, crossed>>

\* (variant) cicle is not reset when a packet is complete
mouse_read_dy_noreset ==
    /\ cicle = 2
    /\ out # <<>> /\ out[1].from = "mouse"
    /\ Read
    /\ pkt' = [pkt EXCEPT ![3] = out[1]]
    /\ \/ pkt[1].over /\ UNCHANGED packet
       \/ ~pkt[1].over /\ packet' = pkt'
    /\ UNCHANGED <<cicle, unacked, sending, cut, keyboard, crossed>>

\* case 2: a packet is queued.  With an overflow bit it is not, and cicle and
\* the flags stay: the bytes that follow in this interrupt are dropped too.
mouse_read_dy ==
    /\ cicle = 2
    /\ out # <<>> /\ out[1].from = "mouse"
    /\ Read
    /\ pkt' = [pkt EXCEPT ![3] = out[1]]
    /\ \/ pkt[1].over /\ UNCHANGED <<cicle, packet>>
       \/ ~pkt[1].over /\ cicle' = 0 /\ packet' = pkt'
    /\ UNCHANGED <<unacked, sending, cut, keyboard, crossed>>

\* wake_up(&mouse_wait); pic_acknowledge(12)
mouse_done ==
    /\ cicle # NoCicle /\ out = <<>>
    /\ cicle' = NoCicle
    /\ cut' = (cut \/ sending.next # 0)
    /\ UNCHANGED <<port, unacked, pkt, packet, sending, keyboard, crossed>>

mouse_handler == \/ mouse_irq \/ mouse_read_key \/ mouse_read_flags
                 \/ mouse_read_dx \/ mouse_read_dy \/ mouse_done

-----------------------------------------------------------------------------
(* keyboard_handler and keyboad_task.                                       *)

\* A byte of the mouse, or what is left in an empty buffer, is taken for some
\* scan code.
keyboard_handler ==
    /\ 1 \in irq /\ cicle = NoCicle
    /\ LET crossing == out = <<>> \/ Raise(out) # {1}
       IN  /\ \E code \in IF crossing THEN Keys ELSE {out[1].code} :
                 kb_queue' = IF Len(kb_queue) < KeyQueueSize THEN Append(kb_queue, code)
                                                             ELSE kb_queue
           /\ crossed' = crossing
    /\ dropped' = (dropped \/ Len(kb_queue) = KeyQueueSize)
    /\ out' = IF out = <<>> THEN out ELSE Tail(out)
    /\ irq' = (irq \ {1}) \cup (IF out = <<>> THEN {} ELSE Raise(Tail(out)))
    /\ UNCHANGED <<mods, held, reported, keys, reshifted, mouse>>

Base(code) == code % KEY_RELEASED
Released(code) == code >= KEY_RELEASED

\* keymap[code][k_shift]: 0, or a key that is told by its code and the shift
NoKey == <<>>
Zero(code, shift) == code \in IF shift THEN Unshifted ELSE Blank
Keymap(code, shift) == IF code \in Locks \/ Zero(code, shift) THEN NoKey ELSE <<code, shift>>

Toggle(set, e) == IF e \in set THEN set \ {e} ELSE set \cup {e}

\* (variant) releases are not converted
convert_press(code) ==
    CASE Released(code) /\ Base(code) \notin {LSHIFT, RSHIFT} ->
            [mods |-> mods, key |-> NoKey]
      [] Base(code) \in {LSHIFT, RSHIFT} ->
            [mods |-> [mods EXCEPT !.shift = ~Released(code)], key |-> NoKey]
      [] OTHER -> [mods |-> mods, key |-> Keymap(Base(code), mods.shift)]

\* (variant) only the left shift key's release is noticed
convert_left(code) ==
    CASE Base(code) = LSHIFT \/ code = RSHIFT ->
            [mods |-> [mods EXCEPT !.shift = ~Released(code)], key |-> NoKey]
      [] OTHER -> [mods |-> mods, key |-> Keymap(Base(code), mods.shift)]

\* The modifiers and the key.  A lock toggles when its key goes down and again
\* when it comes up; CTRL's release falls into the case of its press, which
\* sets k_ctrl and reports the entry of its code.
convert(code) ==
    CASE code >= KEYMAP_SIZE -> [mods |-> mods, key |-> NoKey]
      [] Base(code) \in {LSHIFT, RSHIFT} ->
            [mods |-> [mods EXCEPT !.shift = ~Released(code)], key |-> NoKey]
      [] Base(code) = ALT ->
            [mods |-> [mods EXCEPT !.alt = ~Released(code)], key |-> NoKey]
      [] Base(code) \in Locks ->
            [mods |-> [mods EXCEPT !.locks = Toggle(@, Base(code))], key |-> NoKey]
      [] OTHER ->
            [mods |-> [mods EXCEPT !.ctrl = @ \/ Base(code) = CTRL],
             key |-> Keymap(Base(code), mods.shift)]

\* outportb(0x60, 0xED); outportb(0x60, i): the keyboard answers both.
SetLeds == Send(<<KeyByte(ACK), KeyByte(ACK)>>)

\* A scan code is removed from the queue, converted, and what it stands for
\* sent to the listeners as pressed or released.
keyboad_task ==
    /\ cicle = NoCicle
    /\ kb_queue # <<>>
    /\ LET code == kb_queue[1]
           c == convert(code)
       IN  /\ kb_queue' = Tail(kb_queue)
           /\ mods' = c.mods
           /\ reported' = CASE c.key = NoKey -> reported
                            [] c.key # NoKey /\ Released(code) -> reported \ {c.key}
                            [] OTHER -> reported \cup {c.key}
           /\ reshifted' = IF c.mods.shift # mods.shift
                           THEN reshifted \cup {k[1] : k \in reported} ELSE reshifted
           /\ IF Base(code) \in Locks /\ code < KEYMAP_SIZE THEN SetLeds ELSE UNCHANGED port
    /\ UNCHANGED <<held, keys, dropped, mouse, crossed>>

-----------------------------------------------------------------------------
Init == /\ out = <<>> /\ irq = {}
        /\ unacked = FALSE /\ cicle = NoCicle
        /\ pkt = [i \in 1..3 |-> KeyByte(ACK)] /\ packet = <<>>
        /\ kb_queue = <<>>
        /\ mods = [shift |-> FALSE, alt |-> FALSE, ctrl |-> FALSE, locks |-> {}]
        /\ held = {} /\ reported = {} /\ keys = 0 /\ reshifted = {}
        /\ sending = [packets |-> 0, next |-> 0]
        /\ crossed = FALSE /\ cut = FALSE /\ dropped = FALSE

\* Once a handler has taken the other device's byte nothing is promised of
\* either, and the behaviour ends.
Next == /\ ~crossed
        /\ \/ \E k \in Keys : key_press(k) \/ key_release(k)
           \/ mouse_byte
           \/ mouse_handler \/ keyboard_handler \/ keyboad_task

Spec == Init /\ [][Next]_vars

-----------------------------------------------------------------------------
(* Properties.                                                              *)

\* The types of the drivers' state; cicle of mouse_handler leaves 0 to 2 for no
\* sequence of bytes, so pkt is never written past its three fields.
TypeOK == /\ irq \subseteq {1, 12}
          /\ cicle \in {NoCicle, 0, 1, 2}
          /\ Len(kb_queue) <= KeyQueueSize
          /\ mods.shift \in BOOLEAN /\ mods.locks \subseteq Locks
          /\ held \subseteq Keys
          /\ reported \subseteq Keys \X BOOLEAN

\* As long as mouse_handler, whose cicle is forgotten when it returns, never
\* ends inside a packet and no handler reads the other device's byte, every
\* packet queued is one packet of the mouse, through overflows too, and the
\* mouse is not lost to a missing acknowledge.
MouseInStep ==
    ~crossed /\ ~cut =>
        /\ ~unacked
        /\ packet # <<>> => \A n \in 1..3 : /\ packet[n].at = n - 1
                                            /\ packet[n].of = packet[1].of

\* Nothing of the keyboard is under way.
KeyboardQuiet == /\ kb_queue = <<>> /\ irq = {}
                 /\ \A i \in 1 .. Len(out) : out[i].from = "mouse"

\* Nothing was lost or invented on the way to convert().
KeyboardWhole == ~crossed /\ ~dropped

\* k_shift is never left on by a release that was missed, in whatever order the
\* two shift keys go up and down.
ShiftMeansHeld == KeyboardWhole /\ KeyboardQuiet /\ mods.shift => {LSHIFT, RSHIFT} \cap held # {}

\* Listeners are left with a key that seems down and is not only if k_shift
\* changed between its press and its release, or its release code is beyond
\* KEYMAP_SIZE and is thrown away.
GhostNeedsShift ==
    KeyboardWhole /\ KeyboardQuiet =>
        \A k \in reported : \/ k[1] \in held
                            \/ k[1] \in reshifted
                            \/ k[1] + KEY_RELEASED >= KEYMAP_SIZE
=============================================================================
