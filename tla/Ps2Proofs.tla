----------------------------- MODULE Ps2Proofs -----------------------------
(***************************************************************************)
(* Proofs about the keyboard and mouse drivers on the port they share, for  *)
(* every set of keys, every capacity of kb_queue and any number of bytes in *)
(* the controller.                                                          *)
(***************************************************************************)
EXTENDS Ps2, SequenceTheorems, TLAPS

Codes == Keys \cup {k + KEY_RELEASED : k \in Keys} \cup {ACK}

\* A packet's first byte has its sync bit.
MouseBytes == {b \in [from : {"mouse"}, at : 0 .. 2, sync : BOOLEAN, over : BOOLEAN, of : Nat] :
                  b.at = 0 => b.sync}
KeyBytes == [from : {"keyboard"}, code : Codes]
Byte == KeyBytes \cup MouseBytes

Sending == [packets : Nat, next : 0 .. 2]
Mods == [shift : BOOLEAN, alt : BOOLEAN, ctrl : BOOLEAN, locks : SUBSET Locks]

Types == /\ out \in Seq(Byte) /\ irq \subseteq {1, 12}
         /\ cicle \in {NoCicle, 0, 1, 2}
         /\ pkt \in [1 .. 3 -> Byte]
         /\ kb_queue \in Seq(Codes) /\ Len(kb_queue) <= KeyQueueSize
         /\ mods \in Mods
         /\ held \subseteq Keys /\ reported \subseteq Keys \X BOOLEAN
         /\ sending \in Sending

-----------------------------------------------------------------------------
(* The bytes of the mouse among those in the controller.                    *)

IsMouse(b) == b.from = "mouse"
NoMouse(o, from, to) == \A k \in from .. to : ~IsMouse(o[k])

\* The packet of the byte after one at `at` of packet `of`.
NextOf(at, of) == IF at = 2 THEN of + 1 ELSE of

\* One byte of the mouse follows the other in its packet or the next; the last is
\* the one sent last.
Chain(o) == \A i, j \in 1 .. Len(o) :
               i < j /\ IsMouse(o[i]) /\ IsMouse(o[j]) /\ NoMouse(o, i + 1, j - 1)
                  => o[j].at = (o[i].at + 1) % 3 /\ o[j].of = NextOf(o[i].at, o[i].of)
EndsAt(o, s) == \A i \in 1 .. Len(o) :
                   IsMouse(o[i]) /\ NoMouse(o, i + 1, Len(o))
                      => s.next = (o[i].at + 1) % 3 /\ s.packets = o[i].of

\* The byte of the mouse that is read next, of those in o and those to be sent.
Comes(o, s, at, of) ==
    /\ \A i \in 1 .. Len(o) : IsMouse(o[i]) /\ NoMouse(o, 1, i - 1) => o[i].at = at /\ o[i].of = of
    /\ NoMouse(o, 1, Len(o)) => at = s.next /\ of = s.packets + (IF s.next = 0 THEN 1 ELSE 0)

Stream(o, s, at, of) == Chain(o) /\ EndsAt(o, s) /\ Comes(o, s, at, of)

\* mouse_handler is at the byte that comes: its cicle is the byte's place, and the
\* bytes it has stored are those before it in its packet.  After an overflow it
\* stores nothing until it returns.
InStep(at, of) == /\ cicle \in {NoCicle, 0} => at = 0
                  /\ cicle = 1 => at = 1 /\ pkt[1].at = 0 /\ pkt[1].of = of
                  /\ cicle = 2 /\ ~pkt[1].over =>
                        /\ at = 2 /\ pkt[1].at = 0 /\ pkt[2].at = 1
                        /\ pkt[1].of = of /\ pkt[2].of = of

OnePacket(p) == \A n \in 1 .. 3 : p[n].at = n - 1 /\ p[n].of = p[1].of

MouseInv == ~crossed /\ ~cut => /\ ~unacked
                                /\ packet # <<>> => OnePacket(packet)
                                /\ \E at \in 0 .. 2, of \in Nat :
                                      Stream(out, sending, at, of) /\ InStep(at, of)

-----------------------------------------------------------------------------
(* The keys whose codes are on the way to convert().                        *)

\* The codes in o and q of key k.
IsKey(b, k) == ~IsMouse(b) /\ Base(b.code) = k
InOut(o, k) == \E i \in 1 .. Len(o) : IsKey(o[i], k)
InQueue(q, k) == \E i \in 1 .. Len(q) : Base(q[i]) = k
Under(o, q, k) == InOut(o, k) \/ InQueue(q, k)

\* A key whose last code on the way is that of its press is down.
OutMeansHeld(o, h) == \A i \in 1 .. Len(o) :
    ~IsMouse(o[i]) /\ o[i].code \in Keys /\ (\A j \in i + 1 .. Len(o) : ~IsKey(o[j], o[i].code))
       => o[i].code \in h
QueueMeansHeld(o, q, h) == \A i \in 1 .. Len(q) :
    q[i] \in Keys /\ (\A j \in i + 1 .. Len(q) : Base(q[j]) # q[i]) /\ ~InOut(o, q[i])
       => q[i] \in h
Coming(o, q, h) == OutMeansHeld(o, h) /\ QueueMeansHeld(o, q, h)

Shifts == {LSHIFT, RSHIFT}

\* k_shift is on for a shift key that is down, or whose code is on the way.
ShiftInv(o, q, h) == mods.shift => \E k \in Shifts : k \in h \/ Under(o, q, k)

\* A key is reported with the shift it was pressed with, and only if it is one that
\* convert() reports.
ReportInv == \A k \in reported : /\ k[2] = mods.shift \/ k[1] \in reshifted
                                 /\ k[1] \notin Shifts \cup {ALT} \cup Locks
                                 /\ ~(Zero(k[1], k[2]))

\* A key reported pressed is down, or its release is on the way or will be missed.
GhostInv(o, q, h) == \A k \in reported : \/ k[1] \in h \/ Under(o, q, k[1])
                                         \/ k[1] \in reshifted
                                         \/ k[1] + KEY_RELEASED >= KEYMAP_SIZE

KeyInv == ~crossed /\ ~dropped => /\ Coming(out, kb_queue, held)
                                  /\ ShiftInv(out, kb_queue, held)
                                  /\ ReportInv
                                  /\ GhostInv(out, kb_queue, held)

Inv == Types /\ MouseInv /\ KeyInv

-----------------------------------------------------------------------------
(* Sequences, by their places.                                              *)

LEMMA TailAt ==
    ASSUME NEW S, NEW s \in Seq(S), s # <<>>
    PROVE  /\ Len(s) \in Nat /\ Len(s) >= 1 /\ s[1] \in S
           /\ Tail(s) \in Seq(S) /\ Len(Tail(s)) = Len(s) - 1
           /\ \A i \in 1 .. Len(s) - 1 : Tail(s)[i] = s[i + 1]
<1>1. Len(s) \in Nat /\ Len(s) >= 1
      BY LenProperties, EmptySeq
<1> QED BY <1>1, ElementOfSeq, HeadTailProperties

LEMMA AddAt ==
    ASSUME NEW S, NEW s \in Seq(S), NEW e \in S
    PROVE  /\ Len(s) \in Nat
           /\ s \o <<e>> \in Seq(S) /\ Len(s \o <<e>>) = Len(s) + 1
           /\ \A i \in 1 .. Len(s) : (s \o <<e>>)[i] = s[i]
           /\ (s \o <<e>>)[Len(s) + 1] = e
<1>1. <<e>> \in Seq(S) /\ Len(<<e>>) = 1 /\ <<e>>[1] = e
      OBVIOUS
<1> QED BY <1>1, LenProperties, ConcatProperties

\* What a device sends comes after what the controller holds.
LEMMA AddTwo ==
    ASSUME NEW S, NEW s \in Seq(S), NEW d \in S, NEW e \in S
    PROVE  s \o <<d, e>> = (s \o <<d>>) \o <<e>>
<1>1. <<d>> \in Seq(S) /\ <<e>> \in Seq(S) /\ <<d, e>> \in Seq(S) /\ Len(<<d, e>>) = 2
      OBVIOUS
<1>2. /\ <<d>> \o <<e>> \in Seq(S) /\ Len(<<d>> \o <<e>>) = 2
      /\ (<<d>> \o <<e>>)[1] = d /\ (<<d>> \o <<e>>)[2] = e
      BY <1>1, ConcatProperties
<1>3. \A i \in 1 .. 2 : <<d, e>>[i] = (<<d>> \o <<e>>)[i]
      BY <1>2
<1>4. <<d, e>> = <<d>> \o <<e>>
      BY <1>1, <1>2, <1>3, SeqEqual
<1> QED BY <1>1, <1>4, ConcatAssociative

-----------------------------------------------------------------------------
(* The mouse's bytes.                                                       *)

LEMMA ByteIs ==
    ASSUME NEW b \in Byte
    PROVE  /\ IsMouse(b) => /\ b.at \in 0 .. 2 /\ b.of \in Nat /\ b.over \in BOOLEAN
                            /\ b.sync \in BOOLEAN /\ (b.at = 0 => b.sync)
           /\ ~IsMouse(b) => b.from = "keyboard" /\ b.code \in Codes
BY DEF Byte, KeyBytes, MouseBytes, IsMouse

\* A byte of the keyboard among them changes nothing.
LEMMA KeySent ==
    ASSUME NEW o \in Seq(Byte), NEW s \in Sending, NEW at \in 0 .. 2, NEW of \in Nat,
           Stream(o, s, at, of), NEW b \in Byte, ~IsMouse(b)
    PROVE  Stream(o \o <<b>>, s, at, of)
<1> DEFINE p == o \o <<b>>
           n == Len(o)
<1>1. /\ n \in Nat /\ Len(p) = n + 1 /\ ~IsMouse(p[n + 1])
      /\ \A i \in 1 .. n : p[i] = o[i]
      BY AddAt
<1> HIDE DEF p
<1>2. Chain(p)
    <2> SUFFICES ASSUME NEW i \in 1 .. n + 1, NEW j \in 1 .. n + 1, i < j,
                        IsMouse(p[i]), IsMouse(p[j]), NoMouse(p, i + 1, j - 1)
                 PROVE  p[j].at = (p[i].at + 1) % 3 /\ p[j].of = NextOf(p[i].at, p[i].of)
        BY <1>1 DEF Chain
    <2>1. i \in 1 .. n /\ j \in 1 .. n
          BY <1>1
    <2>2. p[i] = o[i] /\ p[j] = o[j] /\ NoMouse(o, i + 1, j - 1)
          BY <1>1, <2>1 DEF NoMouse
    <2> QED BY <2>1, <2>2 DEF Stream, Chain
<1>3. EndsAt(p, s)
    <2> SUFFICES ASSUME NEW i \in 1 .. n + 1, IsMouse(p[i]), NoMouse(p, i + 1, n + 1)
                 PROVE  s.next = (p[i].at + 1) % 3 /\ s.packets = p[i].of
        BY <1>1 DEF EndsAt
    <2>1. i \in 1 .. n
          BY <1>1
    <2>2. p[i] = o[i] /\ NoMouse(o, i + 1, n)
          BY <1>1, <2>1 DEF NoMouse
    <2> QED BY <2>1, <2>2 DEF Stream, EndsAt
<1>4. Comes(p, s, at, of)
    <2>1. ASSUME NEW i \in 1 .. n + 1, IsMouse(p[i]), NoMouse(p, 1, i - 1)
          PROVE  p[i].at = at /\ p[i].of = of
        <3>1. i \in 1 .. n
              BY <1>1, <2>1
        <3>2. p[i] = o[i] /\ NoMouse(o, 1, i - 1)
              BY <1>1, <2>1, <3>1 DEF NoMouse
        <3> QED BY <2>1, <3>1, <3>2 DEF Stream, Comes
    <2>2. NoMouse(p, 1, n + 1) => NoMouse(o, 1, n)
          BY <1>1 DEF NoMouse
    <2> QED BY <1>1, <2>1, <2>2 DEF Stream, Comes
<1> QED BY <1>2, <1>3, <1>4 DEF Stream, p

\* The mouse sends the next byte of its packet.
LEMMA MouseSent ==
    ASSUME NEW o \in Seq(Byte), NEW s \in Sending, NEW at \in 0 .. 2, NEW of \in Nat,
           Stream(o, s, at, of), NEW b \in Byte, IsMouse(b), b.at = s.next,
           b.of = s.packets + (IF s.next = 0 THEN 1 ELSE 0),
           NEW t, t.next = (s.next + 1) % 3, t.packets = b.of
    PROVE  Stream(o \o <<b>>, t, at, of)
<1> DEFINE p == o \o <<b>>
           n == Len(o)
<1>1. /\ n \in Nat /\ Len(p) = n + 1 /\ p[n + 1] = b
      /\ \A i \in 1 .. n : p[i] = o[i] /\ o[i] \in Byte
      BY AddAt, ElementOfSeq
<1> HIDE DEF p
<1>2. Chain(p)
    <2> SUFFICES ASSUME NEW i \in 1 .. n + 1, NEW j \in 1 .. n + 1, i < j,
                        IsMouse(p[i]), IsMouse(p[j]), NoMouse(p, i + 1, j - 1)
                 PROVE  p[j].at = (p[i].at + 1) % 3 /\ p[j].of = NextOf(p[i].at, p[i].of)
        BY <1>1 DEF Chain
    <2>1. i \in 1 .. n /\ p[i] = o[i]
          BY <1>1
    <2>2. CASE j \in 1 .. n
        <3>1. p[j] = o[j] /\ NoMouse(o, i + 1, j - 1)
              BY <1>1, <2>1, <2>2 DEF NoMouse
        <3> QED BY <2>1, <2>2, <3>1 DEF Stream, Chain
    <2>3. CASE j = n + 1
        <3>1. p[j] = b /\ NoMouse(o, i + 1, n)
              BY <1>1, <2>1, <2>3 DEF NoMouse
        <3>2. s.next = (o[i].at + 1) % 3 /\ s.packets = o[i].of
              BY <2>1, <3>1 DEF Stream, EndsAt
        <3>3. o[i].at \in 0 .. 2 /\ o[i].of \in Nat
              BY <1>1, <2>1, ByteIs
        <3> QED BY <2>1, <3>1, <3>2, <3>3 DEF NextOf
    <2> QED BY <1>1, <2>2, <2>3
<1>3. EndsAt(p, t)
    <2> SUFFICES ASSUME NEW i \in 1 .. n + 1, IsMouse(p[i]), NoMouse(p, i + 1, n + 1)
                 PROVE  t.next = (p[i].at + 1) % 3 /\ t.packets = p[i].of
        BY <1>1 DEF EndsAt
    <2>1. i = n + 1
          BY <1>1 DEF NoMouse
    <2> QED BY <1>1, <2>1
<1>4. Comes(p, t, at, of)
    <2>1. ASSUME NEW i \in 1 .. n + 1, IsMouse(p[i]), NoMouse(p, 1, i - 1)
          PROVE  p[i].at = at /\ p[i].of = of
        <3>1. CASE i \in 1 .. n
            <4>1. p[i] = o[i] /\ NoMouse(o, 1, i - 1)
                  BY <1>1, <2>1, <3>1 DEF NoMouse
            <4> QED BY <2>1, <3>1, <4>1 DEF Stream, Comes
        <3>2. CASE i = n + 1
            <4>1. NoMouse(o, 1, n)
                  BY <1>1, <2>1, <3>2 DEF NoMouse
            <4> QED BY <1>1, <3>2, <4>1 DEF Stream, Comes
        <3> QED BY <1>1, <3>1, <3>2
    <2>2. ~NoMouse(p, 1, n + 1)
          BY <1>1 DEF NoMouse
    <2> QED BY <1>1, <2>1, <2>2 DEF Comes
<1> QED BY <1>2, <1>3, <1>4 DEF Stream, p

\* Reading the first byte leaves what follows as it was.
LEMMA ChainTail ==
    ASSUME NEW o \in Seq(Byte), o # <<>>, NEW s, Chain(o), EndsAt(o, s)
    PROVE  Chain(Tail(o)) /\ EndsAt(Tail(o), s)
<1> DEFINE p == Tail(o)
           n == Len(o)
<1>1. /\ n \in Nat /\ n >= 1 /\ Len(p) = n - 1
      /\ \A i \in 1 .. n - 1 : p[i] = o[i + 1]
      BY TailAt
<1> HIDE DEF p
<1>2. ASSUME NEW i \in 1 .. n, NEW j \in 0 .. n - 1, NoMouse(p, i, j)
      PROVE  NoMouse(o, i + 1, j + 1)
    <2> SUFFICES ASSUME NEW k \in i + 1 .. j + 1 PROVE ~IsMouse(o[k])
        BY DEF NoMouse
    <2>1. k - 1 \in i .. j /\ k - 1 \in 1 .. n - 1 /\ k - 1 + 1 = k
          BY <1>1
    <2> QED BY <1>1, <1>2, <2>1 DEF NoMouse
<1>3. Chain(p)
    <2> SUFFICES ASSUME NEW i \in 1 .. n - 1, NEW j \in 1 .. n - 1, i < j,
                        IsMouse(p[i]), IsMouse(p[j]), NoMouse(p, i + 1, j - 1)
                 PROVE  p[j].at = (p[i].at + 1) % 3 /\ p[j].of = NextOf(p[i].at, p[i].of)
        BY <1>1 DEF Chain
    <2>1. NoMouse(o, i + 2, j)
          BY <1>1, <1>2
    <2>2. i + 1 \in 1 .. n /\ j + 1 \in 1 .. n /\ i + 1 < j + 1 /\ p[i] = o[i + 1] /\ p[j] = o[j + 1]
          BY <1>1
    <2>3. NoMouse(o, (i + 1) + 1, (j + 1) - 1)
          BY <2>1 DEF NoMouse
    <2> QED BY <2>2, <2>3 DEF Chain
<1>4. EndsAt(p, s)
    <2> SUFFICES ASSUME NEW i \in 1 .. n - 1, IsMouse(p[i]), NoMouse(p, i + 1, n - 1)
                 PROVE  s.next = (p[i].at + 1) % 3 /\ s.packets = p[i].of
        BY <1>1 DEF EndsAt
    <2>1. NoMouse(o, (i + 1) + 1, n)
          BY <1>1, <1>2
    <2>2. i + 1 \in 1 .. n /\ p[i] = o[i + 1]
          BY <1>1
    <2> QED BY <2>1, <2>2 DEF EndsAt
<1> QED BY <1>3, <1>4 DEF p

\* The first byte is the keyboard's: the mouse's next is the same.
LEMMA KeyRead ==
    ASSUME NEW o \in Seq(Byte), o # <<>>, NEW s, NEW at, NEW of, Stream(o, s, at, of),
           ~IsMouse(o[1])
    PROVE  Stream(Tail(o), s, at, of)
<1> DEFINE p == Tail(o)
           n == Len(o)
<1>1. /\ n \in Nat /\ n >= 1 /\ Len(p) = n - 1
      /\ \A i \in 1 .. n - 1 : p[i] = o[i + 1]
      BY TailAt
<1> HIDE DEF p
<1>2. ASSUME NEW j \in 0 .. n - 1, NoMouse(p, 1, j) PROVE NoMouse(o, 1, j + 1)
    <2> SUFFICES ASSUME NEW k \in 1 .. j + 1 PROVE ~IsMouse(o[k])
        BY DEF NoMouse
    <2>1. k # 1 => k - 1 \in 1 .. j /\ k - 1 \in 1 .. n - 1 /\ k - 1 + 1 = k
          BY <1>1
    <2> QED BY <1>1, <1>2, <2>1 DEF NoMouse
<1>3. ASSUME NEW i \in 1 .. n - 1, IsMouse(p[i]), NoMouse(p, 1, i - 1)
      PROVE  p[i].at = at /\ p[i].of = of
    <2>1. i + 1 \in 1 .. n /\ p[i] = o[i + 1] /\ i - 1 \in 0 .. n - 1
          BY <1>1
    <2>2. NoMouse(o, 1, (i - 1) + 1)
          BY <1>2, <1>3, <2>1
    <2>3. NoMouse(o, 1, (i + 1) - 1)
          BY <2>2 DEF NoMouse
    <2> QED BY <1>3, <2>1, <2>3 DEF Stream, Comes
<1>4. NoMouse(p, 1, n - 1) => NoMouse(o, 1, n)
      BY <1>1, <1>2
<1>5. Comes(p, s, at, of)
      BY <1>1, <1>3, <1>4 DEF Stream, Comes
<1> QED BY <1>5, ChainTail DEF Stream, p

\* The first byte is the mouse's, the one that comes; its next is the one after it.
LEMMA MouseRead ==
    ASSUME NEW o \in Seq(Byte), o # <<>>, NEW s \in Sending, NEW at, NEW of, Stream(o, s, at, of),
           IsMouse(o[1])
    PROVE  /\ o[1].at = at /\ o[1].of = of
           /\ Stream(Tail(o), s, (at + 1) % 3, NextOf(at, of))
<1> DEFINE p == Tail(o)
           n == Len(o)
<1>1. /\ n \in Nat /\ n >= 1 /\ Len(p) = n - 1 /\ o[1] \in Byte
      /\ \A i \in 1 .. n - 1 : p[i] = o[i + 1]
      BY TailAt
<1> HIDE DEF p
<1>2. o[1].at = at /\ o[1].of = of /\ at \in 0 .. 2 /\ of \in Nat
    <2>1. 1 \in 1 .. n /\ NoMouse(o, 1, 1 - 1)
          BY <1>1 DEF NoMouse
    <2> QED BY <1>1, <2>1, ByteIs DEF Stream, Comes
<1>3. ASSUME NEW j \in 0 .. n - 1, NoMouse(p, 1, j) PROVE NoMouse(o, 1 + 1, j + 1)
    <2> SUFFICES ASSUME NEW k \in 2 .. j + 1 PROVE ~IsMouse(o[k])
        BY DEF NoMouse
    <2>1. k - 1 \in 1 .. j /\ k - 1 \in 1 .. n - 1 /\ k - 1 + 1 = k
          BY <1>1
    <2> QED BY <1>1, <1>3, <2>1 DEF NoMouse
<1>4. ASSUME NEW i \in 1 .. n - 1, IsMouse(p[i]), NoMouse(p, 1, i - 1)
      PROVE  p[i].at = (at + 1) % 3 /\ p[i].of = NextOf(at, of)
    <2>1. 1 \in 1 .. n /\ i + 1 \in 1 .. n /\ 1 < i + 1 /\ p[i] = o[i + 1] /\ i - 1 \in 0 .. n - 1
          BY <1>1
    <2>2. NoMouse(o, 1 + 1, (i - 1) + 1)
          BY <1>3, <1>4, <2>1
    <2>3. NoMouse(o, 1 + 1, (i + 1) - 1)
          BY <2>2 DEF NoMouse
    <2> QED BY <1>2, <1>4, <2>1, <2>3 DEF Stream, Chain
<1>5. ASSUME NoMouse(p, 1, n - 1)
      PROVE  /\ (at + 1) % 3 = s.next
             /\ NextOf(at, of) = s.packets + (IF s.next = 0 THEN 1 ELSE 0)
    <2>1. 1 \in 1 .. n /\ NoMouse(o, 1 + 1, n)
          BY <1>1, <1>3, <1>5
    <2>2. s.next = (at + 1) % 3 /\ s.packets = of
          BY <1>2, <2>1 DEF Stream, EndsAt
    <2> QED BY <1>2, <2>2 DEF NextOf
<1>6. Comes(p, s, (at + 1) % 3, NextOf(at, of))
      BY <1>1, <1>4, <1>5 DEF Comes
<1> QED BY <1>2, <1>6, ChainTail DEF Stream, p

-----------------------------------------------------------------------------
(* The keyboard's codes.                                                    *)

\* The key of a code, as far as convert() is concerned.
LEMMA CodeIs ==
    ASSUME NEW code \in Codes
    PROVE  /\ code \in 1 .. 255 /\ Base(code) \in 0 .. 127
           /\ code < KEY_RELEASED => code \in Keys /\ Base(code) = code
           /\ code \in Keys => code < KEY_RELEASED
           /\ code >= KEY_RELEASED /\ code < KEYMAP_SIZE => Base(code) \in Keys
           /\ code >= KEYMAP_SIZE => Base(code) >= KEYMAP_SIZE - KEY_RELEASED
           /\ code >= KEY_RELEASED => code = Base(code) + KEY_RELEASED
BY Ps2Assumption DEF Codes, Base, KEY_RELEASED, KEYMAP_SIZE, ACK

\* The keys that are down, or have a code on the way, when a byte is sent.
LEMMA SentKeys ==
    ASSUME NEW o \in Seq(Byte), NEW q, NEW h, NEW g, NEW b \in Byte,
           \A k \in h : IsKey(b, k) \/ k \in g,
           ~IsMouse(b) /\ b.code \in Keys => b.code \in g
    PROVE  /\ Coming(o, q, h) => Coming(o \o <<b>>, q, g)
           /\ \A k : Under(o, q, k) => Under(o \o <<b>>, q, k)
           /\ \A k : k \in h \/ Under(o, q, k) => k \in g \/ Under(o \o <<b>>, q, k)
<1> DEFINE p == o \o <<b>>
           n == Len(o)
<1>1. /\ n \in Nat /\ Len(p) = n + 1 /\ p[n + 1] = b
      /\ \A i \in 1 .. n : p[i] = o[i]
      BY AddAt
<1> HIDE DEF p
<1>2. ASSUME NEW k PROVE InOut(p, k) <=> InOut(o, k) \/ IsKey(b, k)
      BY <1>1 DEF InOut
<1>3. ASSUME NEW k
      PROVE  /\ Under(o, q, k) => Under(p, q, k)
             /\ k \in h \/ Under(o, q, k) => k \in g \/ Under(p, q, k)
      BY <1>2 DEF Under
<1>4. ASSUME OutMeansHeld(o, h) PROVE OutMeansHeld(p, g)
    <2> SUFFICES ASSUME NEW i \in 1 .. n + 1, ~IsMouse(p[i]), p[i].code \in Keys,
                        \A j \in i + 1 .. n + 1 : ~IsKey(p[j], p[i].code)
                 PROVE  p[i].code \in g
        BY <1>1 DEF OutMeansHeld
    <2>1. CASE i = n + 1
          BY <1>1, <2>1
    <2>2. CASE i \in 1 .. n
        <3>1. p[i] = o[i] /\ ~IsKey(b, o[i].code)
              BY <1>1, <2>2
        <3>2. \A j \in i + 1 .. n : ~IsKey(o[j], o[i].code)
              BY <1>1, <2>2
        <3>3. o[i].code \in h
              BY <1>4, <2>2, <3>1, <3>2 DEF OutMeansHeld
        <3> QED BY <3>1, <3>3
    <2> QED BY <1>1, <2>1, <2>2
<1>5. ASSUME QueueMeansHeld(o, q, h) PROVE QueueMeansHeld(p, q, g)
      BY <1>2, <1>5 DEF QueueMeansHeld
<1> QED BY <1>3, <1>4, <1>5 DEF Coming, p

\* A byte of the mouse is read from the head of the port.
LEMMA TakenKeys ==
    ASSUME NEW o \in Seq(Byte), o # <<>>, IsMouse(o[1]), NEW q, NEW h
    PROVE  /\ Coming(o, q, h) => Coming(Tail(o), q, h)
           /\ \A k : Under(o, q, k) => Under(Tail(o), q, k)
<1> DEFINE p == Tail(o)
           n == Len(o)
<1>1. /\ n \in Nat /\ n >= 1 /\ Len(p) = n - 1
      /\ \A i \in 1 .. n - 1 : p[i] = o[i + 1]
      BY TailAt
<1> HIDE DEF p
<1>2. \A i \in 2 .. n : i - 1 \in 1 .. n - 1 /\ p[i - 1] = o[i]
      BY <1>1
<1>3. ASSUME NEW k PROVE InOut(o, k) => InOut(p, k)
      BY <1>1, <1>2 DEF InOut, IsKey
<1>4. ASSUME OutMeansHeld(o, h) PROVE OutMeansHeld(p, h)
    <2> SUFFICES ASSUME NEW i \in 1 .. n - 1, ~IsMouse(p[i]), p[i].code \in Keys,
                        \A j \in i + 1 .. n - 1 : ~IsKey(p[j], p[i].code)
                 PROVE  p[i].code \in h
        BY <1>1 DEF OutMeansHeld
    <2>1. i + 1 \in 1 .. n /\ p[i] = o[i + 1]
          BY <1>1
    <2>2. ASSUME NEW j \in (i + 1) + 1 .. n PROVE ~IsKey(o[j], o[i + 1].code)
        <3>1. j - 1 \in i + 1 .. n - 1 /\ p[j - 1] = o[j]
              BY <1>2
        <3> QED BY <2>1, <3>1
    <2> QED BY <1>4, <2>1, <2>2 DEF OutMeansHeld
<1>5. ASSUME QueueMeansHeld(o, q, h) PROVE QueueMeansHeld(p, q, h)
      BY <1>3, <1>5 DEF QueueMeansHeld
<1> QED BY <1>3, <1>4, <1>5 DEF Coming, Under, p

\* A code goes from the port to the queue.
LEMMA MovedKeys ==
    ASSUME NEW o \in Seq(Byte), o # <<>>, ~IsMouse(o[1]), NEW q \in Seq(Codes), NEW h
    PROVE  /\ Coming(o, q, h) => Coming(Tail(o), Append(q, o[1].code), h)
           /\ \A k : Under(o, q, k) => Under(Tail(o), Append(q, o[1].code), k)
<1> DEFINE p == Tail(o)
           n == Len(o)
           code == o[1].code
           r == Append(q, code)
           m == Len(q)
<1>1. /\ n \in Nat /\ n >= 1 /\ Len(p) = n - 1 /\ o[1] \in Byte
      /\ \A i \in 1 .. n - 1 : p[i] = o[i + 1]
      BY TailAt
<1>2. code \in Codes
      BY <1>1, ByteIs
<1>3. /\ m \in Nat /\ Len(r) = m + 1 /\ r[m + 1] = code
      /\ \A i \in 1 .. m : r[i] = q[i]
      BY <1>2, AppendProperties, LenProperties
<1> HIDE DEF p, r, code
<1>4. \A i \in 2 .. n : i - 1 \in 1 .. n - 1 /\ p[i - 1] = o[i]
      BY <1>1
<1>5. ASSUME NEW k, InOut(o, k) PROVE InOut(p, k) \/ Base(code) = k
    <2>1. PICK i \in 1 .. n : IsKey(o[i], k)
          BY <1>5 DEF InOut
    <2>2. CASE i = 1
          BY <2>1, <2>2 DEF IsKey, code
    <2>3. CASE i \in 2 .. n
          BY <1>1, <1>4, <2>1, <2>3 DEF InOut
    <2> QED BY <1>1, <2>2, <2>3
<1>6. ASSUME NEW k, InQueue(q, k) PROVE InQueue(r, k)
      BY <1>3, <1>6 DEF InQueue
<1>7. ASSUME NEW k, Under(o, q, k) PROVE Under(p, r, k)
    <2>1. Base(code) = k => InQueue(r, k)
          BY <1>3 DEF InQueue
    <2> QED BY <1>5, <1>6, <1>7, <2>1 DEF Under
<1>8. ASSUME OutMeansHeld(o, h) PROVE OutMeansHeld(p, h)
    <2> SUFFICES ASSUME NEW i \in 1 .. n - 1, ~IsMouse(p[i]), p[i].code \in Keys,
                        \A j \in i + 1 .. n - 1 : ~IsKey(p[j], p[i].code)
                 PROVE  p[i].code \in h
        BY <1>1 DEF OutMeansHeld
    <2>1. i + 1 \in 1 .. n /\ p[i] = o[i + 1]
          BY <1>1
    <2>2. ASSUME NEW j \in (i + 1) + 1 .. n PROVE ~IsKey(o[j], o[i + 1].code)
        <3>1. j - 1 \in i + 1 .. n - 1 /\ p[j - 1] = o[j]
              BY <1>4
        <3> QED BY <2>1, <3>1
    <2> QED BY <1>8, <2>1, <2>2 DEF OutMeansHeld
<1>9. ASSUME OutMeansHeld(o, h), QueueMeansHeld(o, q, h) PROVE QueueMeansHeld(p, r, h)
    <2> SUFFICES ASSUME NEW i \in 1 .. m + 1, r[i] \in Keys,
                        \A j \in i + 1 .. m + 1 : Base(r[j]) # r[i], ~InOut(p, r[i])
                 PROVE  r[i] \in h
        BY <1>3 DEF QueueMeansHeld
    <2>1. CASE i = m + 1
        <3>1. r[i] = code
              BY <1>3, <2>1
        <3>2. ASSUME NEW j \in 1 + 1 .. n PROVE ~IsKey(o[j], code)
            <4>1. j - 1 \in 1 .. n - 1 /\ p[j - 1] = o[j]
                  BY <1>4
            <4> QED BY <1>1, <3>1, <4>1 DEF InOut
        <3>3. 1 \in 1 .. n /\ o[1].code = code
              BY <1>1 DEF code
        <3> QED BY <1>9, <3>1, <3>2, <3>3 DEF OutMeansHeld
    <2>2. CASE i \in 1 .. m
        <3>1. r[i] = q[i] /\ Base(code) # q[i]
              BY <1>3, <2>2
        <3>2. ~InOut(o, q[i])
              BY <1>5, <3>1
        <3>3. \A j \in i + 1 .. m : Base(q[j]) # q[i]
              BY <1>3, <2>2, <3>1
        <3> QED BY <1>9, <2>2, <3>1, <3>2, <3>3 DEF QueueMeansHeld
    <2> QED BY <1>3, <2>1, <2>2
<1> QED BY <1>7, <1>8, <1>9 DEF Coming, p, r, code

\* convert() takes a code from the queue.
LEMMA ConvertedKeys ==
    ASSUME NEW o, NEW q \in Seq(Codes), q # <<>>, NEW h
    PROVE  /\ Coming(o, q, h) => /\ Coming(o, Tail(q), h)
                                 /\ q[1] \in Keys => q[1] \in h \/ Under(o, Tail(q), q[1])
           /\ \A k : Under(o, q, k) => Under(o, Tail(q), k) \/ k = Base(q[1])
<1> DEFINE r == Tail(q)
           m == Len(q)
<1>1. /\ m \in Nat /\ m >= 1 /\ Len(r) = m - 1
      /\ \A i \in 1 .. m - 1 : r[i] = q[i + 1]
      BY TailAt
<1> HIDE DEF r
<1>2. \A i \in 2 .. m : i - 1 \in 1 .. m - 1 /\ r[i - 1] = q[i]
      BY <1>1
<1>3. ASSUME NEW k, InQueue(q, k) PROVE InQueue(r, k) \/ k = Base(q[1])
    <2>1. PICK i \in 1 .. m : Base(q[i]) = k
          BY <1>3 DEF InQueue
    <2>2. CASE i = 1
          BY <2>1, <2>2
    <2>3. CASE i \in 2 .. m
          BY <1>1, <1>2, <2>1, <2>3 DEF InQueue
    <2> QED BY <1>1, <2>2, <2>3
<1>4. ASSUME QueueMeansHeld(o, q, h) PROVE QueueMeansHeld(o, r, h)
    <2> SUFFICES ASSUME NEW i \in 1 .. m - 1, r[i] \in Keys,
                        \A j \in i + 1 .. m - 1 : Base(r[j]) # r[i], ~InOut(o, r[i])
                 PROVE  r[i] \in h
        BY <1>1 DEF QueueMeansHeld
    <2>1. i + 1 \in 1 .. m /\ r[i] = q[i + 1]
          BY <1>1
    <2>2. ASSUME NEW j \in (i + 1) + 1 .. m PROVE Base(q[j]) # q[i + 1]
        <3>1. j - 1 \in i + 1 .. m - 1 /\ r[j - 1] = q[j]
              BY <1>2
        <3> QED BY <2>1, <3>1
    <2> QED BY <1>4, <2>1, <2>2 DEF QueueMeansHeld
<1>5. ASSUME QueueMeansHeld(o, q, h), q[1] \in Keys, ~Under(o, r, q[1]) PROVE q[1] \in h
    <2>1. ASSUME NEW j \in 1 + 1 .. m PROVE Base(q[j]) # q[1]
        <3>1. j - 1 \in 1 .. m - 1 /\ r[j - 1] = q[j]
              BY <1>2
        <3> QED BY <1>1, <1>5, <3>1 DEF Under, InQueue
    <2>2. 1 \in 1 .. m /\ ~InOut(o, q[1])
          BY <1>1, <1>5 DEF Under
    <2> QED BY <1>5, <2>1, <2>2 DEF QueueMeansHeld
<1> QED BY <1>3, <1>4, <1>5 DEF Coming, Under, r

-----------------------------------------------------------------------------
(* The steps.                                                               *)

LEMMA RaiseIs == ASSUME NEW o PROVE Raise(o) \subseteq {1, 12}
BY DEF Raise

LEMMA InitInv == Init => Inv
<1> SUFFICES ASSUME Init PROVE Inv
    OBVIOUS
<1>1. out = <<>> /\ kb_queue = <<>> /\ Len(out) = 0 /\ Len(kb_queue) = 0
      BY DEF Init
<1>2. Types
    <2>1. KeyByte(ACK) \in Byte
          BY DEF KeyByte, Byte, KeyBytes, Codes
    <2>2. pkt \in [1 .. 3 -> Byte]
          BY <2>1 DEF Init
    <2> QED BY <1>1, <2>2, Ps2Assumption DEF Init, Types, Mods, Sending
<1>3. MouseInv
    <2>1. Stream(out, sending, 0, 1)
          BY <1>1 DEF Stream, Chain, EndsAt, Comes, NoMouse, Init
    <2>2. InStep(0, 1)
          BY DEF InStep, Init, NoCicle
    <2> QED BY <2>1, <2>2 DEF MouseInv, Init
<1>4. KeyInv
      BY <1>1 DEF KeyInv, Coming, OutMeansHeld, QueueMeansHeld, ShiftInv, ReportInv, GhostInv, Init
<1> QED BY <1>2, <1>3, <1>4 DEF Inv

\* A code is sent: its key goes down or up, or it is an answer.
LEMMA CodeSent ==
    ASSUME Inv, NEW b \in KeyBytes, Send(<<b>>), held' \subseteq Keys,
           UNCHANGED <<kb_queue, mods, reported, reshifted, dropped, mouse, crossed>>,
           \A k \in held : IsKey(b, k) \/ k \in held', b.code \in Keys => b.code \in held'
    PROVE  Inv'
<1>1. b \in Byte /\ ~IsMouse(b)
      BY DEF Byte, KeyBytes, IsMouse
<1>2. out' = out \o <<b>> /\ out \in Seq(Byte) /\ sending \in Sending
      BY DEF Send, Inv, Types
<1>3. Types'
    <2>1. out' \in Seq(Byte)
          BY <1>1, <1>2, AddAt
    <2>2. irq' \subseteq {1, 12}
          BY RaiseIs DEF Send, Inv, Types
    <2> QED BY <2>1, <2>2 DEF Inv, Types, mouse
<1>4. MouseInv'
    <2> SUFFICES ASSUME ~crossed, ~cut PROVE MouseInv'
        BY DEF MouseInv, mouse
    <2>1. PICK at \in 0 .. 2, of \in Nat : Stream(out, sending, at, of) /\ InStep(at, of)
          BY DEF Inv, MouseInv
    <2>2. Stream(out', sending', at, of)
          BY <1>1, <1>2, <2>1, KeySent DEF mouse
    <2>3. InStep(at, of)'
          BY <2>1 DEF InStep, mouse
    <2> QED BY <2>2, <2>3 DEF Inv, MouseInv, OnePacket, mouse
<1>5. KeyInv'
    <2> SUFFICES ASSUME ~crossed, ~dropped PROVE KeyInv'
        BY DEF KeyInv
    <2>1. Coming(out', kb_queue, held')
          BY <1>1, <1>2, SentKeys DEF Inv, KeyInv
    <2>2. \A k : k \in held \/ Under(out, kb_queue, k) => k \in held' \/ Under(out', kb_queue, k)
          BY <1>1, <1>2, SentKeys
    <2>3. ShiftInv(out, kb_queue, held)'
          BY <2>2 DEF Inv, KeyInv, ShiftInv
    <2>4. GhostInv(out, kb_queue, held)'
          BY <2>2 DEF Inv, KeyInv, GhostInv
    <2>5. ReportInv'
          BY DEF Inv, KeyInv, ReportInv
    <2> QED BY <2>1, <2>3, <2>4, <2>5 DEF KeyInv
<1> QED BY <1>3, <1>4, <1>5 DEF Inv

\* A key goes down or up.
LEMMA KeySteps ==
    ASSUME Inv, NEW k \in Keys, key_press(k) \/ key_release(k)
    PROVE  Inv'
<1>1. CASE key_press(k)
    <2>1. KeyByte(k) \in KeyBytes /\ KeyByte(k).code = k
          BY DEF KeyByte, KeyBytes, Codes
    <2>2. held' \subseteq Keys /\ k \in held' /\ \A j \in held : j \in held'
          BY <1>1 DEF key_press, Inv, Types
    <2> QED BY <1>1, <2>1, <2>2, CodeSent DEF key_press
<1>2. CASE key_release(k)
    <2>1. /\ KeyByte(k + KEY_RELEASED) \in KeyBytes /\ KeyByte(k + KEY_RELEASED).code = k + KEY_RELEASED
          /\ ~IsMouse(KeyByte(k + KEY_RELEASED))
          BY DEF KeyByte, KeyBytes, Codes, IsMouse
    <2>2. k + KEY_RELEASED \notin Keys /\ Base(k + KEY_RELEASED) = k
          BY Ps2Assumption DEF Base, KEY_RELEASED
    <2>3. held' \subseteq Keys /\ \A j \in held : j = k \/ j \in held'
          BY <1>2 DEF key_release, Inv, Types
    <2>4. IsKey(KeyByte(k + KEY_RELEASED), k)
          BY <2>1, <2>2 DEF IsKey
    <2> QED BY <1>2, <2>1, <2>2, <2>3, <2>4, CodeSent DEF key_release
<1> QED BY <1>1, <1>2

\* The mouse sends a byte.
LEMMA MouseByteStep == ASSUME Inv, mouse_byte PROVE Inv'
<1> DEFINE B(sync, over) == [from |-> "mouse", at |-> sending.next, sync |-> sync, over |-> over,
                             of |-> sending.packets + (IF sending.next = 0 THEN 1 ELSE 0)]
<1>1. PICK sync \in BOOLEAN, over \in BOOLEAN :
         (IF sending.next = 0 THEN sync ELSE ~over) /\ Send(<<B(sync, over)>>)
      BY DEF mouse_byte
<1>2. out \in Seq(Byte) /\ sending \in Sending /\ sending.next \in 0 .. 2 /\ sending.packets \in Nat
      BY DEF Inv, Types, Sending
<1>3. PICK b \in Byte : /\ Send(<<b>>) /\ IsMouse(b) /\ b.at = sending.next
                        /\ b.of = sending.packets + (IF sending.next = 0 THEN 1 ELSE 0)
    <2>1. B(sync, over) \in MouseBytes
          BY <1>1, <1>2 DEF MouseBytes
    <2> QED BY <1>1, <2>1 DEF Byte, IsMouse
<1>4. /\ UNCHANGED <<unacked, cicle, pkt, packet, cut, keyboard, crossed>>
      /\ sending' = [packets |-> b.of, next |-> (sending.next + 1) % 3]
      BY <1>3 DEF mouse_byte
<1>5. out' = out \o <<b>> /\ sending'.packets = b.of /\ sending'.next = (sending.next + 1) % 3
      BY <1>3, <1>4 DEF Send
<1>6. Types'
    <2>1. out' \in Seq(Byte)
          BY <1>2, <1>5, AddAt
    <2>2. irq' \subseteq {1, 12}
          BY <1>3, RaiseIs DEF Send, Inv, Types
    <2>3. sending' \in Sending
          BY <1>2, <1>3, <1>4 DEF Sending
    <2> QED BY <1>4, <2>1, <2>2, <2>3 DEF Inv, Types, keyboard
<1>7. MouseInv'
    <2> SUFFICES ASSUME ~crossed, ~cut PROVE MouseInv'
        BY <1>4 DEF MouseInv
    <2>1. PICK at \in 0 .. 2, of \in Nat : Stream(out, sending, at, of) /\ InStep(at, of)
          BY DEF Inv, MouseInv
    <2>2. Stream(out', sending', at, of)
          BY <1>2, <1>3, <1>5, <2>1, MouseSent
    <2>3. InStep(at, of)'
          BY <1>4, <2>1 DEF InStep
    <2> QED BY <1>4, <2>2, <2>3 DEF Inv, MouseInv, OnePacket
<1>8. KeyInv'
    <2> SUFFICES ASSUME ~crossed, ~dropped PROVE KeyInv'
        BY <1>4 DEF KeyInv, keyboard
    <2>0. UNCHANGED <<kb_queue, mods, held, reported, reshifted>>
          BY <1>4 DEF keyboard
    <2>1. Coming(out', kb_queue, held)
          BY <1>2, <1>3, <1>5, SentKeys DEF Inv, KeyInv
    <2>2. \A k : k \in held \/ Under(out, kb_queue, k) => k \in held \/ Under(out', kb_queue, k)
          BY <1>2, <1>3, <1>5, SentKeys
    <2>3. ShiftInv(out, kb_queue, held)'
          BY <2>0, <2>2 DEF Inv, KeyInv, ShiftInv
    <2>4. GhostInv(out, kb_queue, held)'
          BY <2>0, <2>2 DEF Inv, KeyInv, GhostInv
    <2>5. ReportInv'
          BY <2>0 DEF Inv, KeyInv, ReportInv
    <2> QED BY <2>0, <2>1, <2>3, <2>4, <2>5 DEF KeyInv
<1> QED BY <1>6, <1>7, <1>8 DEF Inv

\* What mouse_handler reads of the mouse's is nothing to the keyboard.
LEMMA MouseTook ==
    ASSUME Inv, out # <<>>, IsMouse(out[1]), Read, UNCHANGED <<keyboard, crossed>>
    PROVE  KeyInv' /\ out' \in Seq(Byte) /\ irq' \subseteq {1, 12} /\ out[1] \in Byte
<1>1. out \in Seq(Byte) /\ out' = Tail(out)
      BY DEF Inv, Types, Read
<1>2. out' \in Seq(Byte) /\ out[1] \in Byte
      BY <1>1, TailAt
<1>3. irq' \subseteq {1, 12}
      BY RaiseIs DEF Read, Inv, Types
<1>4. KeyInv'
    <2> SUFFICES ASSUME ~crossed, ~dropped PROVE KeyInv'
        BY DEF KeyInv, keyboard
    <2>0. UNCHANGED <<kb_queue, mods, held, reported, reshifted>>
          BY DEF keyboard
    <2>1. Coming(out', kb_queue, held)
          BY <1>1, TakenKeys DEF Inv, KeyInv
    <2>2. \A k : Under(out, kb_queue, k) => Under(out', kb_queue, k)
          BY <1>1, TakenKeys
    <2>3. ShiftInv(out, kb_queue, held)'
          BY <2>0, <2>2 DEF Inv, KeyInv, ShiftInv
    <2>4. GhostInv(out, kb_queue, held)'
          BY <2>0, <2>2 DEF Inv, KeyInv, GhostInv
    <2>5. ReportInv'
          BY <2>0 DEF Inv, KeyInv, ReportInv
    <2> QED BY <2>0, <2>1, <2>3, <2>4, <2>5 DEF KeyInv
<1> QED BY <1>2, <1>3, <1>4

\* A byte of a packet is stored.
LEMMA ReadSteps ==
    ASSUME Inv, ~crossed, mouse_read_flags \/ mouse_read_dx \/ mouse_read_dy
    PROVE  Inv'
<1>1. /\ out # <<>> /\ IsMouse(out[1]) /\ Read
      /\ UNCHANGED <<keyboard, crossed, sending, cut>>
      BY DEF mouse_read_flags, mouse_read_dx, mouse_read_dy, IsMouse
<1>2. KeyInv' /\ out' \in Seq(Byte) /\ irq' \subseteq {1, 12} /\ out[1] \in Byte
      BY <1>1, MouseTook
<1>3. pkt \in [1 .. 3 -> Byte] /\ out \in Seq(Byte) /\ sending \in Sending /\ out' = Tail(out)
      BY <1>1 DEF Inv, Types, Read
<1>4. Types'
    <2>1. cicle' \in {NoCicle, 0, 1, 2}
          BY DEF mouse_read_flags, mouse_read_dx, mouse_read_dy, Inv, Types
    <2>2. pkt' \in [1 .. 3 -> Byte]
          BY <1>2, <1>3 DEF mouse_read_flags, mouse_read_dx, mouse_read_dy
    <2> QED BY <1>1, <1>2, <2>1, <2>2 DEF Inv, Types, keyboard
<1>5. MouseInv'
    <2> SUFFICES ASSUME ~cut PROVE MouseInv'
        BY <1>1 DEF MouseInv
    <2>1. PICK at \in 0 .. 2, of \in Nat : Stream(out, sending, at, of) /\ InStep(at, of)
          BY DEF Inv, MouseInv
    <2> DEFINE at1 == (at + 1) % 3
               of1 == NextOf(at, of)
    <2>2. /\ out[1].at = at /\ out[1].of = of
          /\ Stream(out', sending', at1, of1)
          BY <1>1, <1>3, <2>1, MouseRead
    <2>3. at1 \in 0 .. 2 /\ of1 \in Nat
          BY DEF NextOf
    <2>4. ~unacked /\ (packet # <<>> => OnePacket(packet))
          BY DEF Inv, MouseInv
    <2>5. ASSUME ~unacked', packet' # <<>> => OnePacket(packet'), InStep(at1, of1)'
          PROVE  MouseInv'
        <3> HIDE DEF at1, of1
        <3> QED BY <2>2, <2>3, <2>5 DEF MouseInv
    <2>6. CASE mouse_read_flags
        <3>1. cicle = 0 /\ pkt' = [pkt EXCEPT ![1] = out[1]] /\ UNCHANGED packet
              BY <2>6 DEF mouse_read_flags
        <3>2. at = 0 /\ out[1].sync
              BY <1>1, <1>2, <2>1, <2>2, <3>1, ByteIs DEF InStep
        <3>3. cicle' = 1 /\ UNCHANGED unacked
              BY <2>6, <3>2 DEF mouse_read_flags
        <3>4. pkt'[1] = out[1]
              BY <1>3, <3>1
        <3>5. InStep(at1, of1)'
              BY <2>2, <3>2, <3>3, <3>4 DEF InStep, NextOf, NoCicle
        <3> QED BY <2>4, <2>5, <3>1, <3>3, <3>5
    <2>7. CASE mouse_read_dx
        <3>1. /\ cicle = 1 /\ cicle' = 2 /\ pkt' = [pkt EXCEPT ![2] = out[1]]
              /\ UNCHANGED <<packet, unacked>>
              BY <2>7 DEF mouse_read_dx
        <3>2. at = 1 /\ pkt[1].at = 0 /\ pkt[1].of = of
              BY <2>1, <3>1 DEF InStep
        <3>3. pkt'[1] = pkt[1] /\ pkt'[2] = out[1]
              BY <1>3, <3>1
        <3>4. InStep(at1, of1)'
              BY <2>2, <3>1, <3>2, <3>3 DEF InStep, NextOf, NoCicle
        <3> QED BY <2>4, <2>5, <3>1, <3>4
    <2>8. CASE mouse_read_dy
        <3>1. cicle = 2 /\ pkt' = [pkt EXCEPT ![3] = out[1]] /\ UNCHANGED unacked
              BY <2>8 DEF mouse_read_dy
        <3>2. pkt'[1] = pkt[1] /\ pkt'[2] = pkt[2] /\ pkt'[3] = out[1]
              BY <1>3, <3>1
        <3>3. CASE pkt[1].over /\ UNCHANGED <<cicle, packet>>
            <4>1. InStep(at1, of1)'
                  BY <3>1, <3>2, <3>3 DEF InStep, NoCicle
            <4> QED BY <2>4, <2>5, <3>1, <3>3, <4>1
        <3>4. CASE ~pkt[1].over /\ cicle' = 0 /\ packet' = pkt'
            <4>1. /\ at = 2 /\ pkt[1].at = 0 /\ pkt[2].at = 1
                  /\ pkt[1].of = of /\ pkt[2].of = of
                  BY <2>1, <3>1, <3>4 DEF InStep
            <4>2. InStep(at1, of1)'
                  BY <3>4, <4>1 DEF InStep, NoCicle
            <4>3. OnePacket(packet')
                  BY <2>2, <3>2, <3>4, <4>1 DEF OnePacket
            <4> QED BY <2>4, <2>5, <3>1, <4>2, <4>3
        <3> QED BY <2>8, <3>3, <3>4 DEF mouse_read_dy
    <2> QED BY <2>6, <2>7, <2>8
<1> QED BY <1>2, <1>4, <1>5 DEF Inv

\* The rest of mouse_handler.
LEMMA HandlerSteps ==
    ASSUME Inv, ~crossed, mouse_irq \/ mouse_read_key \/ mouse_done
    PROVE  Inv'
<1>1. CASE mouse_irq
    <2>1. Types'
          BY <1>1 DEF mouse_irq, Inv, Types, keyboard
    <2>2. MouseInv'
        <3>1. \A at, of : InStep(at, of) => InStep(at, of)'
              BY <1>1 DEF mouse_irq, InStep, NoCicle
        <3> QED BY <1>1, <3>1 DEF mouse_irq, Inv, MouseInv, OnePacket
    <2>3. KeyInv'
          BY <1>1 DEF mouse_irq, keyboard, Inv, KeyInv, ShiftInv, ReportInv, GhostInv
    <2> QED BY <2>1, <2>2, <2>3 DEF Inv
<1>2. CASE mouse_read_key
    <2>1. out # <<>> /\ out' = Tail(out) /\ irq' = irq \cup Raise(Tail(out)) /\ crossed'
          /\ UNCHANGED <<keyboard, mouse>>
          BY <1>2 DEF mouse_read_key, Read
    <2>2. out' \in Seq(Byte)
          BY <2>1, TailAt DEF Inv, Types
    <2>3. irq' \subseteq {1, 12}
          BY <2>1, RaiseIs DEF Inv, Types
    <2> QED BY <2>1, <2>2, <2>3 DEF Inv, Types, MouseInv, KeyInv, keyboard, mouse
<1>3. CASE mouse_done
    <2>1. /\ out = <<>> /\ cicle' = NoCicle /\ UNCHANGED <<port, unacked, pkt, packet, sending>>
          /\ UNCHANGED <<keyboard, crossed>>
          BY <1>3 DEF mouse_done
    <2>2. Types'
          BY <2>1 DEF Inv, Types, keyboard, port
    <2>3. MouseInv'
        <3> SUFFICES ASSUME ~cut' PROVE MouseInv'
            BY DEF MouseInv
        <3>1. ~cut /\ sending.next = 0
              BY <1>3, Zenon DEF mouse_done
        <3>2. PICK at \in 0 .. 2, of \in Nat : Stream(out, sending, at, of) /\ InStep(at, of)
              BY <3>1 DEF Inv, MouseInv
        <3>3. at = 0
              BY <2>1, <3>1, <3>2 DEF Stream, Comes, NoMouse
        <3>4. InStep(at, of)'
              BY <2>1, <3>3 DEF InStep, NoCicle
        <3>5. Stream(out', sending', at, of)
              BY <2>1, <3>2 DEF port
        <3> QED BY <2>1, <3>1, <3>4, <3>5 DEF Inv, MouseInv, OnePacket
    <2>4. KeyInv'
          BY <2>1 DEF port, keyboard, Inv, KeyInv, ShiftInv, ReportInv, GhostInv
    <2> QED BY <2>2, <2>3, <2>4 DEF Inv
<1> QED BY <1>1, <1>2, <1>3

\* A byte goes to kb_queue.
LEMMA KeyboardStep == ASSUME Inv, ~crossed, keyboard_handler PROVE Inv'
<1> DEFINE crossing == out = <<>> \/ Raise(out) # {1}
<1>1. PICK code \in IF crossing THEN Keys ELSE {out[1].code} :
         kb_queue' = IF Len(kb_queue) < KeyQueueSize THEN Append(kb_queue, code) ELSE kb_queue
      BY DEF keyboard_handler
<1>2. /\ crossed' = crossing
      /\ dropped' = (dropped \/ Len(kb_queue) = KeyQueueSize)
      /\ out' = IF out = <<>> THEN out ELSE Tail(out)
      /\ irq' = (irq \ {1}) \cup (IF out = <<>> THEN {} ELSE Raise(Tail(out)))
      /\ UNCHANGED <<mods, held, reported, keys, reshifted, mouse>>
      BY DEF keyboard_handler
<1>3. out \in Seq(Byte) /\ kb_queue \in Seq(Codes) /\ Len(kb_queue) <= KeyQueueSize
      BY DEF Inv, Types
<1>4. ~crossing => out # <<>> /\ ~IsMouse(out[1]) /\ out[1] \in Byte
      BY <1>3, TailAt DEF Raise, IsMouse
<1>5. code \in Codes
      BY <1>4, ByteIs DEF Codes
<1>6. Types'
    <2>1. out' \in Seq(Byte)
          BY <1>2, <1>3, TailAt
    <2>2. irq' \subseteq {1, 12}
          BY <1>2, RaiseIs DEF Inv, Types
    <2>3. kb_queue' \in Seq(Codes) /\ Len(kb_queue') <= KeyQueueSize
        <3>1. Len(kb_queue) \in Nat /\ Append(kb_queue, code) \in Seq(Codes)
              /\ Len(Append(kb_queue, code)) = Len(kb_queue) + 1
              BY <1>3, <1>5, AppendProperties, LenProperties
        <3> QED BY <1>1, <1>3, <3>1, Ps2Assumption
    <2> QED BY <1>2, <2>1, <2>2, <2>3 DEF Inv, Types, mouse
<1>7. MouseInv'
    <2> SUFFICES ASSUME ~crossed', ~cut PROVE MouseInv'
        BY <1>2 DEF MouseInv, mouse
    <2>0. ~crossing
          BY <1>2
    <2>1. PICK at \in 0 .. 2, of \in Nat : Stream(out, sending, at, of) /\ InStep(at, of)
          BY DEF Inv, MouseInv
    <2>2. Stream(out', sending', at, of)
          BY <1>2, <1>3, <1>4, <2>0, <2>1, KeyRead DEF mouse
    <2>3. InStep(at, of)'
          BY <1>2, <2>1 DEF InStep, mouse
    <2> QED BY <1>2, <2>2, <2>3 DEF Inv, MouseInv, OnePacket, mouse
<1>8. KeyInv'
    <2> SUFFICES ASSUME ~crossed', ~dropped' PROVE KeyInv'
        BY DEF KeyInv
    <2>0. ~crossing
          BY <1>2
    <2>1. ~dropped /\ Len(kb_queue) # KeyQueueSize
          BY <1>2, Zenon
    <2>2. kb_queue' = Append(kb_queue, out[1].code) /\ out' = Tail(out)
        <3>1. Len(kb_queue) < KeyQueueSize
              BY <1>3, <2>1, Ps2Assumption, LenProperties
        <3>2. code = out[1].code
              BY <2>0
        <3> QED BY <1>1, <1>2, <1>4, <2>0, <3>1, <3>2
    <2>3. Coming(out', kb_queue', held)
          BY <1>3, <1>4, <2>0, <2>1, <2>2, MovedKeys DEF Inv, KeyInv
    <2>4. \A k : Under(out, kb_queue, k) => Under(out', kb_queue', k)
          BY <1>3, <1>4, <2>0, <2>2, MovedKeys
    <2>5. ShiftInv(out, kb_queue, held)'
          BY <1>2, <2>1, <2>4 DEF Inv, KeyInv, ShiftInv
    <2>6. GhostInv(out, kb_queue, held)'
          BY <1>2, <2>1, <2>4 DEF Inv, KeyInv, GhostInv
    <2>7. ReportInv'
          BY <1>2, <2>1 DEF Inv, KeyInv, ReportInv
    <2> QED BY <1>2, <2>3, <2>5, <2>6, <2>7 DEF KeyInv
<1> QED BY <1>6, <1>7, <1>8 DEF Inv

\* The keyboard's answers to the commands for its lights, if any, change nothing of
\* what is on the way.
LEMMA Answers ==
    ASSUME out \in Seq(Byte), sending \in Sending, irq \subseteq {1, 12}, SetLeds \/ UNCHANGED port
    PROVE  /\ out' \in Seq(Byte) /\ irq' \subseteq {1, 12}
           /\ \A at \in 0 .. 2, of \in Nat : Stream(out, sending, at, of) => Stream(out', sending, at, of)
           /\ \A q, h : Coming(out, q, h) => Coming(out', q, h)
           /\ \A q, k : Under(out, q, k) => Under(out', q, k)
<1>1. CASE SetLeds
    <2> DEFINE b == KeyByte(ACK)
               mid == out \o <<b>>
    <2>1. b \in Byte /\ ~IsMouse(b) /\ b.code \notin Keys
          BY Ps2Assumption DEF KeyByte, Byte, KeyBytes, Codes, IsMouse, ACK, KEY_RELEASED
    <2> HIDE DEF b
    <2>2. mid \in Seq(Byte)
          BY <2>1, AddAt
    <2>3. out' = mid \o <<b>> /\ irq' = IF out = <<>> THEN irq \cup Raise(<<b, b>>) ELSE irq
          BY <1>1, <2>1, AddTwo, SMTT(30) DEF SetLeds, Send, b
    <2>4. out' \in Seq(Byte) /\ irq' \subseteq {1, 12}
          BY <2>1, <2>2, <2>3, AddAt, RaiseIs
    <2>5. ASSUME NEW at \in 0 .. 2, NEW of \in Nat, Stream(out, sending, at, of)
          PROVE  Stream(out', sending, at, of)
        <3>1. Stream(mid, sending, at, of)
              BY <2>1, <2>5, KeySent
        <3> HIDE DEF mid
        <3> QED BY <2>1, <2>2, <2>3, <3>1, KeySent
    <2>6. ASSUME NEW q, NEW h, Coming(out, q, h) PROVE Coming(out', q, h)
        <3>1. Coming(mid, q, h)
              BY <2>1, <2>6, SentKeys
        <3> HIDE DEF mid
        <3> QED BY <2>1, <2>2, <2>3, <3>1, SentKeys
    <2>7. ASSUME NEW q, NEW k, Under(out, q, k) PROVE Under(out', q, k)
        <3> DEFINE e == {}
        <3>1. \A j \in e : FALSE
              OBVIOUS
        <3> HIDE DEF e
        <3>2. Under(mid, q, k)
              BY <2>1, <2>7, <3>1, SentKeys
        <3> HIDE DEF mid
        <3> QED BY <2>1, <2>2, <2>3, <3>1, <3>2, SentKeys
    <2> QED BY <2>4, <2>5, <2>6, <2>7
<1>2. CASE UNCHANGED port
      BY <1>2 DEF port
<1> QED BY <1>1, <1>2

\* The keys that convert() never reports.
Silent == Shifts \cup {ALT} \cup Locks

LEMMA ConvertIs ==
    ASSUME mods \in Mods, NEW code \in Codes
    PROVE  /\ convert(code).mods \in Mods
           /\ IF Base(code) \in Shifts THEN convert(code).mods.shift = ~Released(code)
                                       ELSE convert(code).mods.shift = mods.shift
           /\ IF \/ code >= KEYMAP_SIZE \/ Base(code) \in Silent
                 \/ Zero(Base(code), mods.shift)
              THEN convert(code).key = NoKey
              ELSE convert(code).key = <<Base(code), mods.shift>>
<1>1. /\ code \in 1 .. 255 /\ Base(code) \in 0 .. 127
      /\ code >= KEYMAP_SIZE => Base(code) >= KEYMAP_SIZE - KEY_RELEASED
      BY CodeIs
<1> DEFINE up == ~Released(code)
<1>0. up \in BOOLEAN
      BY DEF Released
<1> HIDE DEF up
<1>2. CASE code >= KEYMAP_SIZE
    <2>1. Base(code) >= 82
          BY <1>1, <1>2 DEF KEYMAP_SIZE, KEY_RELEASED
    <2>2. Base(code) \notin Shifts /\ Base(code) # ALT /\ Base(code) \notin Locks
          BY <1>1, <2>1 DEF Shifts, LSHIFT, RSHIFT, ALT, Locks, KEY_NUM_LOCK,
                                KEY_SCROLL_LOCK, KEY_CAPS_LOCK
    <2>3. convert(code) = [mods |-> mods, key |-> NoKey]
          BY <1>2, <2>2 DEF convert, Shifts
    <2> QED BY <1>2, <2>2, <2>3
<1>3. CASE code < KEYMAP_SIZE /\ Base(code) \in Shifts
    <2>1. Base(code) # ALT /\ Base(code) \notin Locks /\ ~(code >= KEYMAP_SIZE)
          BY <1>1, <1>3 DEF Shifts, LSHIFT, RSHIFT, ALT, Locks, KEY_NUM_LOCK,
                                KEY_SCROLL_LOCK, KEY_CAPS_LOCK, KEYMAP_SIZE
    <2> DEFINE m == [mods EXCEPT !.shift = up]
    <2>2. convert(code) = [mods |-> m, key |-> NoKey]
          BY <1>3, <2>1 DEF convert, Shifts, up
    <2>3. m \in Mods /\ m.shift = up
          BY <1>0 DEF Mods
    <2> HIDE DEF m
    <2>4. convert(code).mods \in Mods /\ convert(code).mods.shift = up /\ convert(code).key = NoKey
          BY <2>2, <2>3
    <2> QED BY <1>3, <2>4 DEF Silent, up
<1>4. CASE code < KEYMAP_SIZE /\ Base(code) = ALT
    <2>1. Base(code) \notin Shifts /\ Base(code) \notin Locks /\ ~(code >= KEYMAP_SIZE)
          BY <1>1, <1>4 DEF Shifts, LSHIFT, RSHIFT, ALT, Locks, KEY_NUM_LOCK,
                                KEY_SCROLL_LOCK, KEY_CAPS_LOCK, KEYMAP_SIZE
    <2> DEFINE m == [mods EXCEPT !.alt = up]
    <2>2. convert(code) = [mods |-> m, key |-> NoKey]
          BY <1>4, <2>1 DEF convert, Shifts, up
    <2>3. m \in Mods /\ m.shift = mods.shift
          BY <1>0 DEF Mods
    <2> HIDE DEF m
    <2>4. /\ convert(code).mods \in Mods /\ convert(code).mods.shift = mods.shift
          /\ convert(code).key = NoKey
          BY <2>2, <2>3
    <2> QED BY <1>4, <2>1, <2>4 DEF Silent
<1>5. CASE code < KEYMAP_SIZE /\ Base(code) \in Locks
    <2>1. Base(code) \notin Shifts /\ Base(code) # ALT /\ ~(code >= KEYMAP_SIZE)
          BY <1>1, <1>5 DEF Shifts, LSHIFT, RSHIFT, ALT, Locks, KEY_NUM_LOCK,
                                KEY_SCROLL_LOCK, KEY_CAPS_LOCK, KEYMAP_SIZE
    <2>2. convert(code) = [mods |-> [mods EXCEPT !.locks = Toggle(mods.locks, Base(code))], key |-> NoKey]
          BY <1>5, <2>1 DEF convert, Shifts
    <2>3. Toggle(mods.locks, Base(code)) \in SUBSET Locks
          BY <1>5 DEF Toggle, Mods
    <2> QED BY <1>5, <2>1, <2>2, <2>3 DEF Mods, Silent
<1>6. CASE code < KEYMAP_SIZE /\ Base(code) \notin Silent
    <2>1. /\ Base(code) \notin Shifts /\ Base(code) # ALT /\ Base(code) \notin Locks
          /\ ~(code >= KEYMAP_SIZE)
          BY <1>1, <1>6 DEF Silent, KEYMAP_SIZE
    <2> DEFINE m == [mods EXCEPT !.ctrl = mods.ctrl \/ Base(code) = CTRL]
    <2>2. convert(code) = [mods |-> m,
                           key |-> Keymap(Base(code), mods.shift)]
          BY <2>1 DEF convert, Shifts
    <2>3. m \in Mods
          BY DEF Mods
    <2>4. m.shift = mods.shift
          BY DEF Mods
    <2> HIDE DEF m
    <2>5. /\ convert(code).mods \in Mods /\ convert(code).mods.shift = mods.shift
          /\ convert(code).key = Keymap(Base(code), mods.shift)
          BY <2>2, <2>3, <2>4
    <2>6. IF Zero(Base(code), mods.shift)
          THEN convert(code).key = NoKey ELSE convert(code).key = <<Base(code), mods.shift>>
          BY <2>1, <2>5 DEF Keymap
    <2> QED BY <1>6, <2>1, <2>5, <2>6
<1>7. code < KEYMAP_SIZE \/ code >= KEYMAP_SIZE
      BY <1>1 DEF KEYMAP_SIZE
<1> QED BY <1>2, <1>3, <1>4, <1>5, <1>6, <1>7 DEF Silent

\* A scan code is converted and reported.
LEMMA TaskStep == ASSUME Inv, ~crossed, keyboad_task PROVE Inv'
<1> DEFINE code == kb_queue[1]
           c == convert(code)
           key == <<Base(code), mods.shift>>
           quiet == \/ code >= KEYMAP_SIZE \/ Base(code) \in Silent
                    \/ Zero(Base(code), mods.shift)
<1>1. /\ kb_queue # <<>> /\ kb_queue' = Tail(kb_queue) /\ mods' = c.mods
      /\ reported' = (CASE c.key = NoKey -> reported
                        [] c.key # NoKey /\ Released(code) -> reported \ {c.key}
                        [] OTHER -> reported \cup {c.key})
      /\ reshifted' = (IF c.mods.shift # mods.shift
                       THEN reshifted \cup {k[1] : k \in reported} ELSE reshifted)
      /\ SetLeds \/ UNCHANGED port
      /\ UNCHANGED <<held, keys, dropped, mouse, crossed>>
      BY DEF keyboad_task
<1>2. /\ kb_queue \in Seq(Codes) /\ out \in Seq(Byte) /\ sending \in Sending /\ irq \subseteq {1, 12}
      /\ mods \in Mods /\ mods.shift \in BOOLEAN /\ reported \subseteq Keys \X BOOLEAN
      BY DEF Inv, Types, Mods
<1>3. /\ Tail(kb_queue) \in Seq(Codes) /\ Len(Tail(kb_queue)) = Len(kb_queue) - 1
      /\ code \in Codes /\ Len(kb_queue) \in Nat
      BY <1>1, <1>2, TailAt
<1>4. /\ code \in 1 .. 255 /\ Base(code) \in 0 .. 127
      /\ code < KEY_RELEASED => code \in Keys /\ Base(code) = code
      /\ code >= KEY_RELEASED /\ code < KEYMAP_SIZE => Base(code) \in Keys
      /\ code >= KEY_RELEASED => code = Base(code) + KEY_RELEASED
      BY <1>3, CodeIs
<1>5. /\ c.mods \in Mods
      /\ IF Base(code) \in Shifts THEN c.mods.shift = ~Released(code) ELSE c.mods.shift = mods.shift
      /\ IF quiet THEN c.key = NoKey ELSE c.key = key
      BY <1>2, <1>3, ConvertIs
<1>6. reported' = IF quiet THEN reported
                  ELSE IF Released(code) THEN reported \ {key} ELSE reported \cup {key}
    <2>1. key # NoKey
          BY DEF NoKey
    <2> HIDE DEF key, quiet, c
    <2> QED BY <1>1, <1>5, <2>1
<1>7. ~quiet => key \in Keys \X BOOLEAN
    <2>1. ~quiet => code < KEYMAP_SIZE
          BY <1>4 DEF KEYMAP_SIZE
    <2>2. code < KEYMAP_SIZE => Base(code) \in Keys
          BY <1>4 DEF KEYMAP_SIZE, KEY_RELEASED
    <2> HIDE DEF quiet
    <2> QED BY <1>2, <2>1, <2>2
<1> HIDE DEF c
<1>8. /\ out' \in Seq(Byte) /\ irq' \subseteq {1, 12}
      /\ \A at \in 0 .. 2, of \in Nat : Stream(out, sending, at, of) => Stream(out', sending, at, of)
      /\ \A q, h : Coming(out, q, h) => Coming(out', q, h)
      /\ \A q, k : Under(out, q, k) => Under(out', q, k)
      BY <1>1, <1>2, Answers
<1>9. Types'
    <2>1. reported' \subseteq Keys \X BOOLEAN
        <3> HIDE DEF key, quiet
        <3> QED BY <1>2, <1>6, <1>7
    <2>2. Len(kb_queue') <= KeyQueueSize
          BY <1>1, <1>3, Ps2Assumption DEF Inv, Types
    <2> QED BY <1>1, <1>3, <1>5, <1>8, <2>1, <2>2 DEF Inv, Types, mouse
<1>10. MouseInv'
    <2> SUFFICES ASSUME ~cut PROVE MouseInv'
        BY <1>1 DEF MouseInv, mouse
    <2>1. PICK at \in 0 .. 2, of \in Nat : Stream(out, sending, at, of) /\ InStep(at, of)
          BY DEF Inv, MouseInv
    <2>2. Stream(out', sending', at, of)
          BY <1>1, <1>8, <2>1 DEF mouse
    <2>3. InStep(at, of)'
          BY <1>1, <2>1 DEF InStep, mouse
    <2> QED BY <1>1, <2>2, <2>3 DEF Inv, MouseInv, OnePacket, mouse
<1>11. KeyInv'
    <2> SUFFICES ASSUME ~dropped PROVE KeyInv'
        BY <1>1 DEF KeyInv
    <2>1. Coming(out, kb_queue, held) /\ ShiftInv(out, kb_queue, held) /\ ReportInv
          /\ GhostInv(out, kb_queue, held)
          BY DEF Inv, KeyInv
    <2>2. /\ Coming(out, kb_queue', held)
          /\ code \in Keys => code \in held \/ Under(out, kb_queue', code)
          /\ \A k : Under(out, kb_queue, k) => Under(out, kb_queue', k) \/ k = Base(code)
          BY <1>1, <1>2, <2>1, ConvertedKeys
    <2>3. /\ Coming(out', kb_queue', held)
          /\ code \in Keys => code \in held \/ Under(out', kb_queue', code)
          /\ \A k : Under(out, kb_queue, k) => Under(out', kb_queue', k) \/ k = Base(code)
          BY <1>8, <2>2
    <2>4. mods'.shift \in BOOLEAN
          BY <1>1, <1>5 DEF Mods
    <2>5. ShiftInv(out, kb_queue, held)'
        <3> SUFFICES ASSUME mods'.shift
                     PROVE  \E k \in Shifts : k \in held \/ Under(out', kb_queue', k)
            BY <1>1 DEF ShiftInv
        <3>1. CASE Base(code) \in Shifts
            <4>1. ~Released(code)
                  BY <1>1, <1>5, <3>1
            <4>2. code \in Keys /\ Base(code) = code
                  BY <1>4, <4>1 DEF Released, KEY_RELEASED
            <4> QED BY <2>3, <3>1, <4>2
        <3>2. CASE Base(code) \notin Shifts
            <4>1. mods.shift
                  BY <1>1, <1>5, <3>2
            <4> QED BY <2>1, <2>3, <3>2, <4>1 DEF ShiftInv
        <3> QED BY <3>1, <3>2
    <2>6. reshifted \subseteq reshifted'
          BY <1>1
    <2>7. ReportInv'
        <3> SUFFICES ASSUME NEW k \in reported'
                     PROVE  /\ k[2] = mods'.shift \/ k[1] \in reshifted'
                            /\ k[1] \notin Silent
                            /\ ~(Zero(k[1], k[2]))
            BY DEF ReportInv, Silent
        <3>1. CASE k \in reported
            <4>1. /\ k[2] = mods.shift \/ k[1] \in reshifted
                  /\ k[1] \notin Silent
                  /\ ~(Zero(k[1], k[2]))
                  BY <2>1, <3>1 DEF ReportInv, Silent
            <4>2. mods'.shift # mods.shift => k[1] \in reshifted'
                  BY <1>1, <3>1
            <4> QED BY <2>6, <4>1, <4>2
        <3>2. CASE k = key /\ ~quiet
            <4>1. k[1] = Base(code) /\ k[2] = mods.shift
                  BY <3>2
            <4>2. Base(code) \notin Silent /\ ~(Zero(Base(code), mods.shift))
                  BY <3>2
            <4>3. mods'.shift = mods.shift
                  BY <1>1, <1>5, <4>2 DEF Silent
            <4> QED BY <4>1, <4>2, <4>3
        <3> HIDE DEF key, quiet
        <3> QED BY <1>6, <3>1, <3>2
    <2>8. GhostInv(out, kb_queue, held)'
        <3> SUFFICES ASSUME NEW k \in reported', k[1] \notin held, ~Under(out', kb_queue', k[1]),
                            k[1] \notin reshifted'
                     PROVE  k[1] + KEY_RELEASED >= KEYMAP_SIZE
            BY <1>1 DEF GhostInv
        <3>1. k[1] \notin reshifted
              BY <2>6
        <3>2. CASE k = key /\ ~quiet /\ ~Released(code)
            <4>1. k[1] = code /\ code \in Keys
                  BY <1>4, <3>2 DEF Released, KEY_RELEASED
            <4> QED BY <2>3, <4>1
        <3>3. CASE k \in reported /\ k[1] # Base(code)
              BY <2>1, <2>3, <3>1, <3>3 DEF GhostInv
        <3>4. CASE k \in reported /\ k[1] = Base(code) /\ ~Released(code)
            <4>1. code \in Keys /\ Base(code) = code
                  BY <1>4, <3>4 DEF Released, KEY_RELEASED
            <4> QED BY <2>3, <3>4, <4>1
        <3>5. CASE k \in reported /\ k[1] = Base(code) /\ Released(code)
            <4>1. /\ k[2] = mods.shift /\ k[1] \notin Silent
                  /\ ~(Zero(k[1], k[2]))
                  BY <2>1, <3>1, <3>5 DEF ReportInv, Silent
            <4>2. k = key
                  BY <1>2, <3>5, <4>1
            <4>3. quiet
                <5> HIDE DEF key, quiet
                <5> QED BY <1>6, <3>5, <4>2
            <4>4. code >= KEYMAP_SIZE
                  BY <3>5, <4>1, <4>3
            <4> QED BY <1>4, <3>5, <4>4 DEF Released, KEY_RELEASED, KEYMAP_SIZE
        <3> HIDE DEF key, quiet
        <3> QED BY <1>6, <3>2, <3>3, <3>4, <3>5
    <2> QED BY <1>1, <2>3, <2>5, <2>7, <2>8 DEF KeyInv
<1> QED BY <1>9, <1>10, <1>11 DEF Inv

LEMMA NextInv == Inv /\ [Next]_vars => Inv'
<1> SUFFICES ASSUME Inv, [Next]_vars PROVE Inv'
    OBVIOUS
<1>1. CASE Next
    <2>1. ~crossed
          BY <1>1 DEF Next
    <2>2. CASE \E k \in Keys : key_press(k) \/ key_release(k)
          BY <2>2, KeySteps
    <2>3. CASE mouse_handler
          BY <2>1, <2>3, ReadSteps, HandlerSteps DEF mouse_handler
    <2> QED BY <1>1, <2>1, <2>2, <2>3, MouseByteStep, KeyboardStep, TaskStep DEF Next
<1>2. CASE UNCHANGED vars
      BY <1>2 DEF vars, port, keyboard, mouse, Inv, Types, MouseInv, InStep, OnePacket,
                  KeyInv, ShiftInv, ReportInv, GhostInv
<1> QED BY <1>1, <1>2

-----------------------------------------------------------------------------
\* For every set of keys and any number of bytes in the controller, cicle of
\* mouse_handler stays within the packet's three fields, kb_queue within its capacity
\* and what is reported to listeners among the keys.  (mouse_handler,
\* keyboard_handler, convert.)
THEOREM Ps2TypeCorrect == Spec => []TypeOK
<1>1. Inv => TypeOK
      BY DEF Inv, Types, TypeOK, Mods
<1> QED BY <1>1, InitInv, NextInv, PTL DEF Spec

\* Until mouse_handler ends inside a packet or a handler takes the other device's byte,
\* every packet it queues is one whole packet of the mouse, overflows between them or
\* not, and interrupt 12 is acknowledged.  (mouse_handler.)
THEOREM MouseStaysInStep == Spec => []MouseInStep
<1>1. Inv => MouseInStep
      BY DEF Inv, MouseInv, MouseInStep, OnePacket
<1> QED BY <1>1, InitInv, NextInv, PTL DEF Spec

\* When nothing of the keyboard is on the way and no code was lost, k_shift is on only
\* if a shift key is down.  (convert, keyboad_task.)
THEOREM ShiftAlwaysMeansHeld == Spec => []ShiftMeansHeld
<1>1. Inv => ShiftMeansHeld
    <2> SUFFICES ASSUME Inv, KeyboardWhole, KeyboardQuiet, mods.shift
                 PROVE  {LSHIFT, RSHIFT} \cap held # {}
        BY DEF ShiftMeansHeld
    <2>1. \A k : ~Under(out, kb_queue, k)
          BY DEF KeyboardQuiet, Under, InOut, InQueue, IsKey, IsMouse
    <2>2. ShiftInv(out, kb_queue, held)
          BY DEF Inv, KeyInv, KeyboardWhole
    <2> QED BY <2>1, <2>2 DEF ShiftInv, Shifts
<1> QED BY <1>1, InitInv, NextInv, PTL DEF Spec

\* When nothing of the keyboard is on the way and no code was lost, a key that was
\* reported pressed and not released is down, or k_shift changed while it was, or
\* its release code is beyond KEYMAP_SIZE.  (convert, keyboad_task.)
THEOREM GhostAlwaysNeedsShift == Spec => []GhostNeedsShift
<1>1. Inv => GhostNeedsShift
    <2> SUFFICES ASSUME Inv, KeyboardWhole, KeyboardQuiet, NEW k \in reported
                 PROVE  k[1] \in held \/ k[1] \in reshifted \/ k[1] + KEY_RELEASED >= KEYMAP_SIZE
        BY DEF GhostNeedsShift
    <2>1. \A j : ~Under(out, kb_queue, j)
          BY DEF KeyboardQuiet, Under, InOut, InQueue, IsKey, IsMouse
    <2>2. GhostInv(out, kb_queue, held)
          BY DEF Inv, KeyInv, KeyboardWhole
    <2> QED BY <2>1, <2>2 DEF GhostInv
<1> QED BY <1>1, InitInv, NextInv, PTL DEF Spec
=============================================================================
