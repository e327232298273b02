---------------------------- MODULE ConsoleProofs ----------------------------
(***************************************************************************)
(* Proofs about the text console of drivers/fb.c, for every width and      *)
(* height of the screen and for texts of any length: where two printf that  *)
(* overlap leave the cursor.                                                *)
(***************************************************************************)
EXTENDS Console, Induction, SequenceTheorems, TLAPS

Steps == {"out", "char", "x_load", "x_store", "x_test", "y_load", "y_store", "x_reset", "y_test",
          "roll", "y_reload", "y_restore", "offset_load", "offset_add", "offset_store"}

\* (The provers take no string of a single space: Blank stays a name.)
Char == STRING \cup {Blank}

Call == [at : Steps, text : Seq(Char), reg : Nat]

CallTypes == /\ sharing \in {"interrupt", "threads"}
             /\ call \in [Callers -> Call]
             /\ \A c \in Callers : call[c].at = "out" <=> call[c].text = <<>>

\* How far beyond the last column and the last row c may have moved the cursor,
\* which it will test and put right.
XAhead(c) == IF call[c].at \in {"x_test", "y_load", "y_store", "x_reset"} THEN 1 ELSE 0
YAhead(c) == IF call[c].at \in {"x_reset", "y_test", "roll", "y_reload", "y_restore"} THEN 1 ELSE 0

\* c has found the cursor below the last row and is going to count it back.
Rolling(c) == call[c].at \in {"roll", "y_reload", "y_restore"}

CursorInv == /\ x \in Nat /\ x <= Width + XAhead("first") + XAhead("second")
             /\ y \in Nat /\ y <= Height + YAhead("first") + YAhead("second")
             /\ \A c \in Callers : Rolling(c) => y >= Height
             /\ (\A c \in Callers : Rolling(c)) => y > Height

\* What the callers have loaded is still x or y; a printf that another came into
\* may have an old value, but one it loaded while nothing else was under way.
RegInv == /\ \A c \in Callers :
                sharing = "threads" \/ c = "second" =>
                    /\ call[c].at = "x_store" => call[c].reg = x
                    /\ call[c].at \in {"y_store", "y_restore"} => call[c].reg = y
          /\ sharing = "interrupt" =>
                /\ call["first"].at = "x_store" => call["first"].reg <= Width
                /\ call["first"].at = "y_store" => call["first"].reg <= Height
                /\ call["first"].at = "y_restore" => call["first"].reg \in Height .. Height + 1

OffsetInv == /\ offset \in Cells
             /\ \A c \in Callers :
                   /\ call[c].at = "offset_add" => \E b \in 0 .. Height + 1 : call[c].reg = b * Width
                   /\ call[c].at = "offset_store" => call[c].reg \in Cells

Inv == CallTypes /\ (~Lost => CursorInv /\ RegInv /\ OffsetInv)

-----------------------------------------------------------------------------
\* The cells that a cursor at most a row and a column off the screen stands for.
LEMMA CellInside ==
    ASSUME NEW a \in Nat, NEW b \in Nat, a <= Width + 1, b <= Height + 1
    PROVE  b * Width + a \in Cells
<1>1. Width \in Nat \ {0} /\ Height \in Nat
      BY ConsoleAssumption
<1>2. b * Width <= (Height + 1) * Width /\ b * Width \in Nat
      BY <1>1
<1>3. (Height + 1) * Width + Width + 1 <= (Height + 4) * Width
      BY <1>1
<1> QED BY <1>1, <1>2, <1>3 DEF Cells

\* fb() starts with the invariant.
LEMMA InitInv == fb => Inv
<1>1. 0 \in Cells
      BY ConsoleAssumption DEF Cells
<1> QED BY <1>1, ConsoleAssumption
        DEF fb, Inv, CallTypes, Call, Steps, Idle, Callers, CursorInv, RegInv, OffsetInv,
            XAhead, YAhead, Rolling

-----------------------------------------------------------------------------
(* The steps of a call.                                                     *)

\* c goes on at `to`, maybe with a value loaded; the other caller does not move.
LEMMA Moves ==
    ASSUME CallTypes, UNCHANGED sharing, NEW c \in Callers, call[c].at # "out",
           NEW to \in Steps \ {"out"}, NEW v \in Nat,
           Load(c, v, to) \/ (Go(c, to) /\ v = call[c].reg)
    PROVE  /\ CallTypes'
           /\ call'[c].at = to /\ call'[c].reg = v
           /\ \A d \in Callers \ {c} : call'[d] = call[d]
<1>1. /\ call' \in [Callers -> Call]
      /\ call'[c].at = to /\ call'[c].reg = v /\ call'[c].text = call[c].text
      /\ \A d \in Callers \ {c} : call'[d] = call[d]
    <2>1. CASE Load(c, v, to)
          BY <2>1 DEF Load, CallTypes, Call
    <2>2. CASE Go(c, to) /\ v = call[c].reg
          BY <2>2 DEF Go, CallTypes, Call
    <2> QED BY <2>1, <2>2
<1> QED BY <1>1 DEF CallTypes

\* In an interrupt's printf the first caller stands still, so the second is not
\* under way when the first moves.
LEMMA OneAtATime ==
    ASSUME NEW c \in Callers, NEW from, At(c, from), sharing = "interrupt", c = "first"
    PROVE  call["second"].at = "out"
BY DEF At

\* A store that nobody's update is lost by: the other caller is at none of
\* `stores`, unless the store is an interrupt's.
LEMMA NotCrossed ==
    ASSUME NEW c \in Callers, NEW stores, crossed' = (crossed \/ Crosses(c, stores)),
           ~Lost', UNCHANGED sharing, sharing = "threads"
    PROVE  \A d \in Callers \ {c} : call[d].at \notin stores
BY Zenon DEF Lost, Crosses

\* x++ and its test.
LEMMA XSteps ==
    ASSUME CallTypes, CursorInv, RegInv, OffsetInv, NEW c \in Callers,
           x_load(c) \/ x_store(c) \/ x_test(c), ~Lost'
    PROVE  CallTypes' /\ CursorInv' /\ RegInv' /\ OffsetInv'
<1> USE ConsoleAssumption
<1>1. CASE x_load(c)
    <2>1. /\ At(c, "x_load") /\ Load(c, x, "x_store") /\ UNCHANGED <<sharing, x, y, offset>>
          BY <1>1 DEF x_load
    <2>2. /\ CallTypes'
          /\ call[c].at = "x_load" /\ call'[c].at = "x_store" /\ call'[c].reg = x
          /\ \A d \in Callers \ {c} : call'[d] = call[d]
          BY <2>1, Moves DEF CursorInv, At, Steps
    <2>3. CursorInv'
          BY <2>1, <2>2 DEF CursorInv, XAhead, YAhead, Rolling, Callers
    <2>4. sharing = "interrupt" /\ c = "first" => x <= Width
          BY <2>1, <2>2, OneAtATime DEF CursorInv, XAhead
    <2>5. RegInv'
          BY <2>1, <2>2, <2>4 DEF RegInv, Callers
    <2>6. OffsetInv'
          BY <2>1, <2>2 DEF OffsetInv
    <2> QED BY <2>2, <2>3, <2>5, <2>6
<1>2. CASE x_store(c)
    <2>1. /\ At(c, "x_store") /\ Go(c, "x_test") /\ x' = call[c].reg + 1
          /\ UNCHANGED <<sharing, y, offset>>
          BY <1>2 DEF x_store
    <2>2. /\ CallTypes'
          /\ call[c].at = "x_store" /\ call'[c].at = "x_test"
          /\ \A d \in Callers \ {c} : call'[d] = call[d]
          BY <2>1, Moves DEF At, Steps, CallTypes, Call
    <2>3. sharing = "threads" => \A d \in Callers \ {c} : call[d].at # "x_store"
          BY <1>2, <2>1, NotCrossed DEF x_store
    <2>4. /\ call[c].reg \in Nat
          /\ c = "first" => call[c].reg <= Width + XAhead("second")
          /\ c = "second" => call[c].reg <= Width + XAhead("first")
        <3>1. sharing = "threads" \/ c = "second" => call[c].reg = x
              BY <2>2 DEF RegInv
        <3>2. sharing = "interrupt" /\ c = "first" => call[c].reg <= Width
              BY <2>2 DEF RegInv
        <3>3. XAhead(c) = 0 /\ \A d \in Callers : XAhead(d) \in 0 .. 1
              BY <2>2 DEF XAhead
        <3> QED BY <3>1, <3>2, <3>3 DEF CursorInv, CallTypes, Call, Callers
    <2>5. CursorInv'
        <3>1. XAhead(c)' = 1 /\ \A d \in Callers \ {c} : XAhead(d)' = XAhead(d)
              BY <2>2 DEF XAhead
        <3>2. x' \in Nat /\ x' <= Width + XAhead("first")' + XAhead("second")'
            <4>1. \A d \in Callers : XAhead(d) \in 0 .. 1
                  BY DEF XAhead
            <4> QED BY <2>1, <2>4, <3>1, <4>1 DEF Callers
        <3> QED BY <2>1, <2>2, <3>2 DEF CursorInv, YAhead, Rolling, Callers
    <2>6. RegInv'
        <3>1. \A d \in Callers \ {c} : (sharing = "threads" \/ d = "second") => call[d].at # "x_store"
              BY <2>1, <2>3, OneAtATime DEF CallTypes, Callers
        <3> QED BY <2>1, <2>2, <3>1 DEF RegInv, Callers
    <2>7. OffsetInv'
          BY <2>1, <2>2 DEF OffsetInv
    <2> QED BY <2>2, <2>5, <2>6, <2>7
<1>3. CASE x_test(c)
    <2> DEFINE to == IF x > Width THEN "y_load" ELSE "offset_load"
    <2>1. /\ At(c, "x_test") /\ Go(c, to) /\ UNCHANGED <<sharing, x, y, offset>>
          BY <1>3 DEF x_test
    <2>2. /\ CallTypes'
          /\ call[c].at = "x_test" /\ call'[c].at = to
          /\ \A d \in Callers \ {c} : call'[d] = call[d]
          BY <2>1, Moves DEF At, Steps, CallTypes, Call
    <2>3. CursorInv'
          BY <2>1, <2>2, SMTT(30) DEF CursorInv, XAhead, YAhead, Rolling, Callers
    <2>4. RegInv'
          BY <2>1, <2>2 DEF RegInv, Callers
    <2>5. OffsetInv'
          BY <2>1, <2>2 DEF OffsetInv
    <2> QED BY <2>2, <2>3, <2>4, <2>5
<1> QED BY <1>1, <1>2, <1>3
\* fb_newline: y++, x = 0 and the test.
LEMMA NewlineSteps ==
    ASSUME CallTypes, CursorInv, RegInv, OffsetInv, NEW c \in Callers,
           y_load(c) \/ y_store(c) \/ x_reset(c) \/ y_test(c), ~Lost'
    PROVE  CallTypes' /\ CursorInv' /\ RegInv' /\ OffsetInv'
<1> USE ConsoleAssumption
<1>1. CASE y_load(c)
    <2>1. /\ At(c, "y_load") /\ Load(c, y, "y_store") /\ UNCHANGED <<sharing, x, y, offset>>
          BY <1>1 DEF y_load
    <2>2. /\ CallTypes'
          /\ call[c].at = "y_load" /\ call'[c].at = "y_store" /\ call'[c].reg = y
          /\ \A d \in Callers \ {c} : call'[d] = call[d]
          BY <2>1, Moves DEF CursorInv, At, Steps
    <2>3. CursorInv'
          BY <2>1, <2>2 DEF CursorInv, XAhead, YAhead, Rolling, Callers
    <2>4. sharing = "interrupt" /\ c = "first" => y <= Height
          BY <2>1, <2>2, OneAtATime DEF CursorInv, YAhead
    <2>5. RegInv'
          BY <2>1, <2>2, <2>4 DEF RegInv, Callers
    <2>6. OffsetInv'
          BY <2>1, <2>2 DEF OffsetInv
    <2> QED BY <2>2, <2>3, <2>5, <2>6
<1>2. CASE y_store(c)
    <2>1. /\ At(c, "y_store") /\ Go(c, "x_reset") /\ y' = call[c].reg + 1
          /\ UNCHANGED <<sharing, x, offset>>
          BY <1>2 DEF y_store
    <2>2. /\ CallTypes'
          /\ call[c].at = "y_store" /\ call'[c].at = "x_reset"
          /\ \A d \in Callers \ {c} : call'[d] = call[d]
          BY <2>1, Moves DEF At, Steps, CallTypes, Call
    <2>3. sharing = "threads" => \A d \in Callers \ {c} : call[d].at \notin {"y_store", "y_restore"}
          BY <1>2, <2>1, NotCrossed DEF y_store
    <2>4. sharing = "threads" \/ c = "second" => call[c].reg = y
          BY <2>2 DEF RegInv
    <2>5. sharing = "interrupt" /\ c = "first" => call[c].reg <= Height /\ call["second"].at = "out"
          BY <2>1, <2>2, OneAtATime DEF RegInv
    <2>6. y' \in Nat /\ y' <= Height + YAhead("first")' + YAhead("second")'
        <3>1. YAhead(c)' = 1 /\ \A d \in Callers \ {c} : YAhead(d)' = YAhead(d)
              BY <2>2 DEF YAhead
        <3>2. YAhead(c) = 0 /\ \A d \in Callers : YAhead(d) \in 0 .. 1
              BY <2>2 DEF YAhead
        <3>3. call[c].reg \in Nat
              BY DEF CallTypes, Call
        <3> QED BY <2>1, <2>4, <2>5, <3>1, <3>2, <3>3 DEF CursorInv, CallTypes, Callers
    <2>7. CursorInv'
        <3>1. ~Rolling(c)' /\ \A d \in Callers \ {c} : Rolling(d)' = Rolling(d)
              BY <2>2 DEF Rolling
        <3>2. ASSUME NEW d \in Callers, Rolling(d)' PROVE y' >= Height
            <4>1. d # c /\ Rolling(d)
                  BY <3>1, <3>2
            <4>2. y >= Height /\ call[c].reg = y
                  BY <2>4, <2>5, <4>1 DEF CursorInv, Rolling, CallTypes, Callers
            <4> QED BY <2>1, <4>2 DEF CursorInv
        <3> QED BY <2>1, <2>2, <2>6, <3>1, <3>2 DEF CursorInv, XAhead, Callers
    <2>8. RegInv'
        <3>1. \A d \in Callers \ {c} : (sharing = "threads" \/ d = "second")
                                          => call[d].at \notin {"y_store", "y_restore"}
              BY <2>1, <2>3, OneAtATime DEF CallTypes, Callers
        <3> QED BY <2>1, <2>2, <3>1 DEF RegInv, Callers
    <2>9. OffsetInv'
          BY <2>1, <2>2 DEF OffsetInv
    <2> QED BY <2>2, <2>7, <2>8, <2>9
<1>3. CASE x_reset(c)
    <2>1. /\ At(c, "x_reset") /\ Go(c, "y_test") /\ x' = 0 /\ UNCHANGED <<sharing, y, offset>>
          BY <1>3 DEF x_reset
    <2>2. /\ CallTypes'
          /\ call[c].at = "x_reset" /\ call'[c].at = "y_test"
          /\ \A d \in Callers \ {c} : call'[d] = call[d]
          BY <2>1, Moves DEF At, Steps, CallTypes, Call
    <2>3. sharing = "threads" => \A d \in Callers \ {c} : call[d].at # "x_store"
          BY <1>3, <2>1, NotCrossed DEF x_reset
    <2>4. CursorInv'
          BY <2>1, <2>2 DEF CursorInv, XAhead, YAhead, Rolling, Callers
    <2>5. RegInv'
        <3>1. \A d \in Callers \ {c} : (sharing = "threads" \/ d = "second") => call[d].at # "x_store"
              BY <2>1, <2>3, OneAtATime DEF CallTypes, Callers
        <3> QED BY <2>1, <2>2, <3>1 DEF RegInv, Callers
    <2>6. OffsetInv'
          BY <2>1, <2>2 DEF OffsetInv
    <2> QED BY <2>2, <2>4, <2>5, <2>6
<1>4. CASE y_test(c)
    <2> DEFINE to == IF y > Height THEN "roll" ELSE "offset_load"
    <2>1. /\ At(c, "y_test") /\ Go(c, to) /\ UNCHANGED <<sharing, x, y, offset>>
          BY <1>4 DEF y_test
    <2>2. /\ CallTypes'
          /\ call[c].at = "y_test" /\ call'[c].at = to
          /\ \A d \in Callers \ {c} : call'[d] = call[d]
          BY <2>1, Moves DEF At, Steps, CallTypes, Call
    <2>3. CursorInv'
          BY <2>1, <2>2, SMTT(30) DEF CursorInv, XAhead, YAhead, Rolling, Callers
    <2>4. RegInv'
          BY <2>1, <2>2 DEF RegInv, Callers
    <2>5. OffsetInv'
          BY <2>1, <2>2 DEF OffsetInv
    <2> QED BY <2>2, <2>3, <2>4, <2>5
<1> QED BY <1>1, <1>2, <1>3, <1>4

\* fb_roll and y--.
LEMMA RollSteps ==
    ASSUME CallTypes, CursorInv, RegInv, OffsetInv, NEW c \in Callers,
           fb_roll(c) \/ y_reload(c) \/ y_restore(c), ~Lost'
    PROVE  CallTypes' /\ CursorInv' /\ RegInv' /\ OffsetInv'
<1> USE ConsoleAssumption
<1>1. CASE fb_roll(c)
    <2>1. /\ At(c, "roll") /\ Go(c, "y_reload") /\ UNCHANGED <<sharing, x, y, offset>>
          BY <1>1 DEF fb_roll
    <2>2. /\ CallTypes'
          /\ call[c].at = "roll" /\ call'[c].at = "y_reload"
          /\ \A d \in Callers \ {c} : call'[d] = call[d]
          BY <2>1, Moves DEF At, Steps, CallTypes, Call
    <2>3. CursorInv' /\ RegInv' /\ OffsetInv'
          BY <2>1, <2>2, SMTT(30) DEF CursorInv, XAhead, YAhead, Rolling, Callers, RegInv, OffsetInv
    <2> QED BY <2>2, <2>3
<1>2. CASE y_reload(c)
    <2>1. /\ At(c, "y_reload") /\ Load(c, y, "y_restore") /\ UNCHANGED <<sharing, x, y, offset>>
          BY <1>2 DEF y_reload
    <2>2. /\ CallTypes'
          /\ call[c].at = "y_reload" /\ call'[c].at = "y_restore" /\ call'[c].reg = y
          /\ \A d \in Callers \ {c} : call'[d] = call[d]
          BY <2>1, Moves DEF CursorInv, At, Steps
    <2>3. CursorInv'
          BY <2>1, <2>2 DEF CursorInv, XAhead, YAhead, Rolling, Callers
    <2>4. sharing = "interrupt" /\ c = "first" => y \in Height .. Height + 1
          BY <2>1, <2>2, OneAtATime DEF CursorInv, YAhead, Rolling
    <2>5. RegInv'
          BY <2>1, <2>2, <2>4 DEF RegInv, Callers
    <2>6. OffsetInv'
          BY <2>1, <2>2 DEF OffsetInv
    <2> QED BY <2>2, <2>3, <2>5, <2>6
<1>3. CASE y_restore(c)
    <2>1. /\ At(c, "y_restore") /\ Go(c, "offset_load") /\ y' = call[c].reg - 1
          /\ UNCHANGED <<sharing, x, offset>>
          BY <1>3 DEF y_restore
    <2>2. /\ CallTypes'
          /\ call[c].at = "y_restore" /\ call'[c].at = "offset_load"
          /\ \A d \in Callers \ {c} : call'[d] = call[d]
          BY <2>1, Moves DEF At, Steps, CallTypes, Call
    <2>3. sharing = "threads" => \A d \in Callers \ {c} : call[d].at \notin {"y_store", "y_restore"}
          BY <1>3, <2>1, NotCrossed DEF y_restore
    <2>4. sharing = "threads" \/ c = "second" => call[c].reg = y
          BY <2>2 DEF RegInv
    <2>5. sharing = "interrupt" /\ c = "first"
              => call[c].reg \in Height .. Height + 1 /\ call["second"].at = "out"
          BY <2>1, <2>2, OneAtATime DEF RegInv
    <2>6. y' \in Nat /\ y' <= Height + YAhead("first")' + YAhead("second")'
        <3>1. YAhead(c)' = 0 /\ \A d \in Callers \ {c} : YAhead(d)' = YAhead(d)
              BY <2>2 DEF YAhead
        <3>2. YAhead(c) = 1 /\ \A d \in Callers : YAhead(d) \in 0 .. 1
              BY <2>2 DEF YAhead
        <3>3. call[c].reg >= Height /\ call[c].reg \in Nat
              BY <2>2, <2>4, <2>5, SMTT(30) DEF CursorInv, Rolling, CallTypes, Call, Callers
        <3> QED BY <2>1, <2>4, <2>5, <3>1, <3>2, <3>3 DEF CursorInv, CallTypes, Callers
    <2>7. CursorInv'
        <3>1. ~Rolling(c)' /\ \A d \in Callers \ {c} : Rolling(d)' = Rolling(d)
              BY <2>2 DEF Rolling
        <3>2. ASSUME NEW d \in Callers, Rolling(d)' PROVE y' >= Height
            <4>1. d # c /\ Rolling(d) /\ Rolling(c)
                  BY <2>2, <3>1, <3>2 DEF Rolling
            <4>2. y > Height /\ call[c].reg = y
                  BY <2>4, <2>5, <4>1 DEF CursorInv, Rolling, CallTypes, Callers
            <4> QED BY <2>1, <4>2 DEF CursorInv
        <3> QED BY <2>1, <2>2, <2>6, <3>1, <3>2 DEF CursorInv, XAhead, Callers
    <2>8. RegInv'
        <3>1. \A d \in Callers \ {c} : (sharing = "threads" \/ d = "second")
                                          => call[d].at \notin {"y_store", "y_restore"}
              BY <2>1, <2>3, OneAtATime DEF CallTypes, Callers
        <3> QED BY <2>1, <2>2, <3>1 DEF RegInv, Callers
    <2>9. OffsetInv'
          BY <2>1, <2>2 DEF OffsetInv
    <2> QED BY <2>2, <2>7, <2>8, <2>9
<1> QED BY <1>1, <1>2, <1>3
\* A text of more than one character goes on.
LEMMA TailLeft ==
    ASSUME NEW S, NEW s \in Seq(S), s # <<>>, Len(s) # 1
    PROVE  Tail(s) \in Seq(S) /\ Tail(s) # <<>>
<1>1. Tail(s) \in Seq(S) /\ Len(Tail(s)) = Len(s) - 1
      BY HeadTailProperties
<1>2. Len(s) - 1 # 0
      BY LenProperties
<1> QED BY <1>1, <1>2, EmptySeq

\* fb_putchar and fb_update_offset, and printf's loop.
LEMMA PutSteps ==
    ASSUME CallTypes, CursorInv, RegInv, OffsetInv, NEW c \in Callers,
           fb_putchar(c) \/ offset_load(c) \/ offset_add(c) \/ fb_update_offset(c)
    PROVE  CallTypes' /\ CursorInv' /\ RegInv' /\ OffsetInv'
<1> USE ConsoleAssumption
<1>1. CASE fb_putchar(c)
    <2>1. PICK to \in {"y_load", "x_load"} : Go(c, to)
          BY <1>1 DEF fb_putchar
    <2>2. At(c, "char") /\ UNCHANGED <<sharing, x, y, offset>>
          BY <1>1 DEF fb_putchar
    <2>3. /\ CallTypes'
          /\ call[c].at = "char" /\ call'[c].at = to
          /\ \A d \in Callers \ {c} : call'[d] = call[d]
          BY <2>1, <2>2, Moves DEF At, Steps, CallTypes, Call
    <2>4. CursorInv'
          BY <2>2, <2>3, SMTT(30) DEF CursorInv, XAhead, YAhead, Rolling, Callers
    <2>5. RegInv' /\ OffsetInv'
          BY <2>2, <2>3 DEF RegInv, OffsetInv, Callers
    <2> QED BY <2>3, <2>4, <2>5
<1>2. CASE offset_load(c)
    <2>1. /\ At(c, "offset_load") /\ Load(c, y * Width, "offset_add")
          /\ UNCHANGED <<sharing, x, y, offset>>
          BY <1>2 DEF offset_load
    <2>2. y \in 0 .. Height + 1 /\ y * Width \in Nat
        <3>1. YAhead(c) = 0
              BY <2>1 DEF YAhead, At
        <3>2. \A d \in Callers : YAhead(d) \in 0 .. 1
              BY DEF YAhead
        <3> QED BY <3>1, <3>2 DEF CursorInv, Callers
    <2>5. /\ CallTypes'
          /\ call[c].at = "offset_load" /\ call'[c].at = "offset_add"
          /\ call'[c].reg = y * Width
          /\ \A d \in Callers \ {c} : call'[d] = call[d]
          BY <2>1, <2>2, Moves DEF At, Steps
    <2>6. CursorInv'
          BY <2>1, <2>5 DEF CursorInv, XAhead, YAhead, Rolling, Callers
    <2>7. RegInv'
          BY <2>1, <2>5 DEF RegInv, Callers
    <2>8. OffsetInv'
          BY <2>1, <2>2, <2>5, ZenonT(30) DEF OffsetInv, Callers
    <2> QED BY <2>5, <2>6, <2>7, <2>8
<1>4. CASE offset_add(c)
    <2>1. /\ At(c, "offset_add") /\ Load(c, call[c].reg + x, "offset_store")
          /\ UNCHANGED <<sharing, x, y, offset>>
          BY <1>4 DEF offset_add
    <2>2. x \in Nat /\ x <= Width + 1
        <3>1. XAhead(c) = 0
              BY <2>1 DEF XAhead, At
        <3>2. \A d \in Callers : XAhead(d) \in 0 .. 1
              BY DEF XAhead
        <3> QED BY <3>1, <3>2 DEF CursorInv, Callers
    <2>3. PICK b \in 0 .. Height + 1 : call[c].reg = b * Width
          BY <2>1 DEF OffsetInv, At
    <2>4. b \in Nat /\ b <= Height + 1 /\ b * Width + x \in Nat
          BY <2>2, <2>3
    <2>5. b * Width + x \in Cells
          BY <2>2, <2>4, CellInside
    <2>6. /\ CallTypes'
          /\ call[c].at = "offset_add" /\ call'[c].at = "offset_store"
          /\ call'[c].reg = b * Width + x
          /\ \A d \in Callers \ {c} : call'[d] = call[d]
          BY <2>1, <2>3, <2>4, Moves DEF At, Steps
    <2>7. CursorInv'
          BY <2>1, <2>6 DEF CursorInv, XAhead, YAhead, Rolling, Callers
    <2>8. RegInv'
          BY <2>1, <2>6 DEF RegInv, Callers
    <2>9. OffsetInv'
          BY <2>1, <2>5, <2>6 DEF OffsetInv, Callers
    <2> QED BY <2>6, <2>7, <2>8, <2>9
<1>3. CASE fb_update_offset(c)
    <2>1. /\ At(c, "offset_store") /\ Done(c) /\ offset' = call[c].reg /\ UNCHANGED <<sharing, x, y>>
          BY <1>3 DEF fb_update_offset
    <2>2. /\ call[c].at = "offset_store" /\ call'[c].at \in {"out", "char"}
          /\ call'[c].at = "out" <=> call'[c].text = <<>>
          /\ call'[c] \in Call
          /\ \A d \in Callers \ {c} : call'[d] = call[d]
          /\ call' \in [Callers -> Call]
        <3>1. call[c].text \in Seq(Char) /\ call[c].text # <<>> /\ call[c].at = "offset_store"
              BY <2>1 DEF At, CallTypes, Call
        <3>2. CASE Len(call[c].text) = 1
              BY <2>1, <3>1, <3>2 DEF Done, Idle, CallTypes, Call, Steps
        <3>3. CASE Len(call[c].text) # 1
            <4>1. Tail(call[c].text) \in Seq(Char) /\ Tail(call[c].text) # <<>>
                  BY <3>1, <3>3, TailLeft
            <4> QED BY <2>1, <3>1, <3>3, <4>1 DEF Done, CallTypes, Call, Steps
        <3> QED BY <3>2, <3>3
    <2>3. CallTypes'
          BY <2>1, <2>2 DEF CallTypes
    <2>4. CursorInv'
          BY <2>1, <2>2 DEF CursorInv, XAhead, YAhead, Rolling, Callers
    <2>5. RegInv'
          BY <2>1, <2>2 DEF RegInv, Callers
    <2>6. OffsetInv'
          BY <2>1, <2>2 DEF OffsetInv
    <2> QED BY <2>3, <2>4, <2>5, <2>6
<1> QED BY <1>1, <1>2, <1>3, <1>4

\* A printf begins, maybe inside another.
LEMMA PrintfStep ==
    ASSUME CallTypes, CursorInv, RegInv, OffsetInv, NEW c \in Callers, NEW text \in Texts,
           printf(c, text), Expand(text) \in Seq(Char), Expand(text) # <<>>
    PROVE  CallTypes' /\ CursorInv' /\ RegInv' /\ OffsetInv'
<1> DEFINE new == [Idle EXCEPT !.at = "char", !.text = Expand(text)]
<1>1. call[c].at = "out" /\ call' = [call EXCEPT ![c] = new] /\ UNCHANGED <<sharing, x, y, offset>>
      BY DEF printf, At
<1>2. /\ call'[c].at = "char" /\ call'[c].text = Expand(text)
      /\ \A d \in Callers \ {c} : call'[d] = call[d]
      /\ call' \in [Callers -> Call]
    <2>1. new.at = "char" /\ new.text = Expand(text) /\ new \in Call
          BY DEF Idle, Call, Steps
    <2> HIDE DEF new
    <2> QED BY <1>1, <2>1 DEF CallTypes
<1>3. CallTypes'
      BY <1>1, <1>2 DEF CallTypes
<1>4. CursorInv'
      BY <1>1, <1>2 DEF CursorInv, XAhead, YAhead, Rolling, Callers
<1>5. RegInv' /\ OffsetInv'
      BY <1>1, <1>2 DEF RegInv, OffsetInv, Callers
<1> QED BY <1>3, <1>4, <1>5
-----------------------------------------------------------------------------
(* What printf is given.                                                    *)

\* What is added to a sequence that is not empty does not empty it.
LEMMA NonemptyConcat ==
    ASSUME NEW S, NEW s \in Seq(S), NEW t \in Seq(S), s # <<>>
    PROVE  s \o t \in Seq(S) /\ s \o t # <<>>
<1>1. s \o t \in Seq(S) /\ Len(s \o t) = Len(s) + Len(t)
      BY ConcatProperties
<1>2. Len(s) \in Nat \ {0} /\ Len(t) \in Nat
      BY LenProperties, EmptySeq
<1> QED BY <1>1, <1>2, EmptySeq

\* FlattenSeq's recursion has a solution.
LEMMA FlattenExists == ASSUME NEW s, NEW n \in Nat, n >= 1
  PROVE \E f : f = [k \in 1 .. n |-> IF k = 1 THEN s[k] ELSE f[k - 1] \o s[k]]
<1> DEFINE Cat(a, b) == a \o b
<1> HIDE DEF Cat
<1> DEFINE Rec(f, m) == f = [k \in 1 .. m |-> IF k = 1 THEN s[k] ELSE Cat(f[k - 1], s[k])]
           Defined == {m \in 1 .. n : \E f : Rec(f, m)}
<1>3. 1 \in Defined
    <2>1. Rec([k \in 1 .. 1 |-> s[k]], 1)
          OBVIOUS
    <2> HIDE DEF Rec
    <2> QED BY <2>1
<1>4. ASSUME NEW m \in 1 .. n - 1, m \in Defined PROVE m + 1 \in Defined
    <2>1. PICK f : Rec(f, m)
          BY <1>4
    <2> DEFINE g == [k \in 1 .. m + 1 |-> IF k = m + 1 THEN Cat(f[m], s[m + 1]) ELSE f[k]]
    <2>2. m \in Nat /\ m >= 1 /\ m + 1 # 1 /\ m + 1 \in 1 .. n /\ m \in 1 .. m
          OBVIOUS
    <2>3. /\ g = [k \in 1 .. m + 1 |-> g[k]]
          /\ g[m + 1] = Cat(f[m], s[m + 1])
          /\ \A k \in 1 .. m : g[k] = f[k]
          BY <2>2
    <2> HIDE DEF g
    <2>4. \A k \in 1 .. m + 1 : g[k] = IF k = 1 THEN s[k] ELSE Cat(g[k - 1], s[k])
        <3> TAKE k \in 1 .. m + 1
        <3>1. CASE k = m + 1
            <4>1. k - 1 = m /\ k # 1
                  BY <2>2, <3>1
            <4>2. g[m] = f[m]
                  BY <2>2, <2>3
            <4> QED BY <2>3, <3>1, <4>1, <4>2
        <3>2. CASE k # m + 1
            <4>1. k \in 1 .. m
                  BY <2>2, <3>2
            <4>2. f[k] = IF k = 1 THEN s[k] ELSE Cat(f[k - 1], s[k])
                  BY <2>1, <4>1
            <4>3. k # 1 => k - 1 \in 1 .. m
                  BY <2>2, <4>1
            <4> QED BY <2>3, <4>1, <4>2, <4>3
        <3> QED BY <3>1, <3>2
    <2>5. Rec(g, m + 1)
          BY <2>3, <2>4
    <2> HIDE DEF Rec
    <2> QED BY <2>2, <2>5
<1>5. \A k \in 1 .. n : k \in Defined
    <2>1. \A m \in 1 .. n - 1 : m \in Defined => m + 1 \in Defined
          BY <1>4
    <2> HIDE DEF Defined
    <2> QED BY <1>3, <2>1, SetInduction
<1> HIDE DEF Rec
<1>6. \E f : Rec(f, n)
    BY <1>5
<1> QED BY <1>6 DEF Rec, Cat

\* Sequences that are not empty, put together, are such a sequence.
LEMMA FlattenNonempty ==
    ASSUME NEW S, NEW s \in Seq(Seq(S)), s # <<>>, \A k \in 1 .. Len(s) : s[k] # <<>>
    PROVE  FlattenSeq(s) \in Seq(S) /\ FlattenSeq(s) # <<>>
<1> DEFINE n == Len(s)
           Rec(f) == f = [k \in 1 .. n |-> IF k = 1 THEN s[k] ELSE f[k - 1] \o s[k]]
           flatten == CHOOSE f : Rec(f)
<1>1. n \in Nat /\ n >= 1
      BY LenProperties, EmptySeq
<1>2. FlattenSeq(s) = flatten[n]
      BY <1>1 DEF FlattenSeq
<1>3. \E f : Rec(f)
      BY <1>1, FlattenExists
<1> HIDE DEF Rec
<1>4. Rec(flatten)
      BY <1>3
<1> HIDE DEF flatten
<1>5. flatten[1] = s[1]
      BY <1>1, <1>4 DEF Rec
<1>6. ASSUME NEW j \in 1 .. n, j # 1 PROVE flatten[j] = flatten[j - 1] \o s[j]
    <2> DEFINE Body(k) == IF k = 1 THEN s[k] ELSE flatten[k - 1] \o s[k]
    <2>1. flatten = [k \in 1 .. n |-> Body(k)]
          BY <1>4 DEF Rec
    <2>2. Body(j) = flatten[j - 1] \o s[j]
          BY <1>6, Zenon
    <2> HIDE DEF Body
    <2>3. flatten[j] = Body(j)
          BY <2>1
    <2> QED BY <2>2, <2>3, Zenon
<1> DEFINE Whole == {m \in 1 .. n : flatten[m] \in Seq(S) /\ flatten[m] # <<>>}
<1>7. \A k \in 1 .. n : s[k] \in Seq(S) /\ s[k] # <<>>
      BY ElementOfSeq
<1>8. 1 \in Whole
      BY <1>1, <1>5, <1>7
<1>9. \A m \in 1 .. n - 1 : m \in Whole => m + 1 \in Whole
    <2> SUFFICES ASSUME NEW m \in 1 .. n - 1, m \in Whole PROVE m + 1 \in Whole
        OBVIOUS
    <2>1. PICK j \in 1 .. n : j = m + 1
          BY <1>1
    <2>2. j # 1 /\ flatten[j - 1] \in Seq(S) /\ flatten[j - 1] # <<>> /\ s[j] \in Seq(S)
          BY <1>1, <1>7, <2>1
    <2>3. flatten[j - 1] \o s[j] \in Seq(S) /\ flatten[j - 1] \o s[j] # <<>>
          BY <2>2, NonemptyConcat
    <2>4. flatten[j] \in Seq(S) /\ flatten[j] # <<>>
          BY <1>6, <2>2, <2>3, Zenon
    <2> QED BY <2>1, <2>4
<1>10. n \in Whole
    <2> HIDE DEF Whole, n
    <2>1. \A m \in 1 .. n : m \in Whole
          BY <1>1, <1>8, <1>9, SetInduction
    <2> QED BY <1>1, <2>1
<1> QED BY <1>2, <1>10

\* What fb_putchar is given of a text is never nothing.
LEMMA ExpandText ==
    ASSUME NEW text \in Texts PROVE Expand(text) \in Seq(Char) /\ Expand(text) # <<>>
<1> DEFINE s == [k \in DOMAIN text |-> IF text[k] = Tab THEN <<Blank, Blank, Blank>> ELSE <<text[k]>>]
<1>1. text \in Seq(STRING) /\ text # <<>>
      BY ConsoleAssumption
<1>2. /\ DOMAIN text = 1 .. Len(text) /\ Len(text) \in Nat /\ Len(text) >= 1
      /\ \A k \in DOMAIN text : text[k] \in Char
      BY <1>1, LenProperties, EmptySeq, ElementOfSeq DEF Char
<1>3. \A k \in DOMAIN text : s[k] \in Seq(Char) /\ s[k] # <<>>
    <2>1. \A e \in Char : <<e, e, e>> \in Seq(Char) /\ <<e, e, e>> # <<>>
          OBVIOUS
    <2>2. \A e \in Char : <<e>> \in Seq(Char) /\ <<e>> # <<>>
          OBVIOUS
    <2>3. Blank \in Char
          BY DEF Char
    <2> QED BY <1>2, <2>1, <2>2, <2>3
<1>4. s \in Seq(Seq(Char)) /\ Len(s) = Len(text)
      BY <1>2, <1>3
<1>5. s # <<>> /\ \A k \in 1 .. Len(s) : s[k] # <<>>
      BY <1>2, <1>3, <1>4
<1> HIDE DEF s
<1>6. FlattenSeq(s) \in Seq(Char) /\ FlattenSeq(s) # <<>>
      BY <1>4, <1>5, FlattenNonempty
<1> QED BY <1>6 DEF Expand, s

-----------------------------------------------------------------------------
\* A step of an update of x or y, a lost one too, moves its caller on and nothing more.
LEMMA KeepsTypes ==
    ASSUME CallTypes, CursorInv, NEW c \in Callers,
           \/ x_load(c) \/ x_store(c) \/ x_test(c)
           \/ y_load(c) \/ y_store(c) \/ x_reset(c) \/ y_test(c)
           \/ fb_roll(c) \/ y_reload(c) \/ y_restore(c)
    PROVE  CallTypes'
<1>1. PICK from \in Steps \ {"out"}, to \in Steps \ {"out"} :
         At(c, from) /\ (Go(c, to) \/ Load(c, x, to) \/ Load(c, y, to)) /\ UNCHANGED sharing
      BY DEF x_load, x_store, x_test, y_load, y_store, x_reset, y_test, fb_roll, y_reload,
             y_restore, Steps
<1>2. call[c].at # "out" /\ call[c].reg \in Nat /\ x \in Nat /\ y \in Nat
      BY <1>1 DEF At, CallTypes, Call, CursorInv, Steps
<1> QED BY <1>1, <1>2, Moves

\* Every step of the two callers keeps the invariant.
LEMMA NextInv == Inv /\ [Next]_vars => Inv'
<1> SUFFICES ASSUME Inv, [Next]_vars PROVE Inv'
    OBVIOUS
<1>1. CASE Next
    <2>1. ~Lost /\ CallTypes /\ CursorInv /\ RegInv /\ OffsetInv
          BY <1>1 DEF Next, Inv
    <2>2. PICK c \in Callers :
             \/ \E text \in Texts : printf(c, text)
             \/ fb_putchar(c) \/ offset_load(c) \/ offset_add(c) \/ fb_update_offset(c)
             \/ x_load(c) \/ x_store(c) \/ x_test(c)
             \/ y_load(c) \/ y_store(c) \/ x_reset(c) \/ y_test(c)
             \/ fb_roll(c) \/ y_reload(c) \/ y_restore(c)
          BY <1>1, Zenon DEF Next
    <2>3. CASE \E text \in Texts : printf(c, text)
          BY <2>1, <2>3, PrintfStep, ExpandText DEF Inv
    <2>4. CASE fb_putchar(c) \/ offset_load(c) \/ offset_add(c) \/ fb_update_offset(c)
          BY <2>1, <2>4, PutSteps DEF Inv
    <2>5. CASE Lost'
        <3>1. CallTypes'
              BY <2>1, <2>2, <2>3, <2>4, KeepsTypes DEF Inv
        <3> QED BY <2>5, <3>1 DEF Inv
    <2>6. CASE ~Lost'
          BY <2>1, <2>2, <2>3, <2>4, <2>6, XSteps, NewlineSteps, RollSteps DEF Inv
    <2> QED BY <2>5, <2>6
<1>2. CASE UNCHANGED vars
      BY <1>2 DEF vars, history, Inv, CallTypes, Lost, CursorInv, RegInv, OffsetInv, XAhead, YAhead, Rolling
<1> QED BY <1>1, <1>2

-----------------------------------------------------------------------------
\* However two printf interleave on a screen of any size, the cursor and every store of
\* fb_putchar stay within the few cells and rows of TypeOK, and no printf runs past the
\* end of its text.  (fb_putchar, fb_newline, fb_roll, fb_update_offset.)
THEOREM ConsoleTypeCorrect == Spec => []TypeOK
<1>1. Inv => TypeOK
    <2> SUFFICES ASSUME Inv PROVE TypeOK
        OBVIOUS
    <2>1. \A c \in Callers : XAhead(c) \in 0 .. 1 /\ YAhead(c) \in 0 .. 1
          BY DEF XAhead, YAhead
    <2>2. ~Lost => x \in 0 .. Width + 2 /\ y \in 0 .. Height + 2 /\ offset \in Cells
          BY <2>1, ConsoleAssumption DEF Inv, CursorInv, OffsetInv, Callers
    <2>3. \A c \in Callers : call[c].reg \in Nat /\ (call[c].at = "out" <=> call[c].text = <<>>)
          BY DEF Inv, CallTypes, Call
    <2> QED BY <2>2, <2>3 DEF TypeOK
<1> QED BY <1>1, InitInv, NextInv, PTL DEF Spec

\* Once every printf has returned the cursor is on the screen, on a screen of any size:
\* after one that an interrupt's printf came into anywhere, and after two threads' unless
\* one's update of x or y fell into the other's.  (fb_putchar, fb_newline.)
THEOREM CursorStaysOnScreen == Spec => []CursorOnScreen
<1>1. Inv => CursorOnScreen
      BY ConsoleAssumption
      DEF Inv, CursorOnScreen, AtRest, CursorInv, XAhead, YAhead, Callers
<1> QED BY <1>1, InitInv, NextInv, PTL DEF Spec

-----------------------------------------------------------------------------
(* The lines of a text.                                                     *)

\* (Max of FiniteSetsExt is Highest of Induction.)
LEMMA MaxIsHighest == \A s : Max(s) = Highest(s)
  BY DEF Max, Highest

\* What Lines gives: one line at least, the last not yet broken.
Paper == {lines \in Seq(Seq(Char)) : Len(lines) >= 1 /\ Len(lines[Len(lines)]) <= Width}

\* One character more: a new line, a line that breaks, or a longer last line.
LEMMA PutIs ==
    ASSUME NEW lines \in Paper, NEW c \in Char, NEW n, n = Len(lines), NEW new, new = Put(lines, c)
    PROVE  /\ new \in Paper /\ n \in Nat \ {0} /\ \A k \in 1 .. n - 1 : new[k] = lines[k]
           /\ \/ c = Newline /\ Len(new) = n + 1 /\ new[n] = lines[n] /\ new[n + 1] = <<>>
              \/ /\ c # Newline /\ Len(lines[n]) = Width
                 /\ Len(new) = n + 1 /\ new[n] = Append(lines[n], c) /\ new[n + 1] = <<>>
              \/ /\ c # Newline /\ Len(lines[n]) < Width
                 /\ Len(new) = n /\ new[n] = Append(lines[n], c)
<1> USE ConsoleAssumption
<1> DEFINE last == lines[n]
           line == Append(last, c)
           longer == [lines EXCEPT ![n] = line]
<1>1. lines \in Seq(Seq(Char)) /\ n \in Nat \ {0} /\ last \in Seq(Char) /\ Len(last) <= Width /\ Len(last) \in Nat
      /\ Last(lines) = last
      BY DEF Paper, Last
<1>2. line \in Seq(Char) /\ Len(line) = Len(last) + 1
      BY <1>1
<1>3. new = CASE c = Newline -> Append(lines, <<>>)
              [] c # Newline /\ Len(line) > Width -> Append(longer, <<>>)
              [] OTHER -> longer
      BY <1>1 DEF Put
<1> HIDE DEF line
<1>4. longer \in Seq(Seq(Char)) /\ Len(longer) = n /\ longer[n] = line /\ \A k \in 1 .. n - 1 : longer[k] = lines[k]
      BY <1>1, <1>2
<1>5. <<>> \in Seq(Char) /\ Len(<<>>) = 0
      OBVIOUS
<1> HIDE DEF longer
<1>6. CASE c = Newline
    <2>1. new = Append(lines, <<>>)
          BY <1>3, <1>6
    <2>2. new \in Seq(Seq(Char)) /\ Len(new) = n + 1 /\ new[n + 1] = <<>> /\ \A k \in 1 .. n : new[k] = lines[k]
          BY <1>1, <1>5, <2>1
    <2>3. new \in Paper
          BY <1>1, <1>5, <2>2 DEF Paper
    <2>4. n \in 1 .. n /\ \A k \in 1 .. n - 1 : k \in 1 .. n
          BY <1>1
    <2>5. new[n] = lines[n] /\ \A k \in 1 .. n - 1 : new[k] = lines[k]
          BY <2>2, <2>4
    <2> QED BY <1>1, <1>6, <2>2, <2>3, <2>5
<1>7. CASE c # Newline /\ Len(line) > Width
    <2>1. new = Append(longer, <<>>)
          BY <1>3, <1>7
    <2>2. new \in Seq(Seq(Char)) /\ Len(new) = n + 1 /\ new[n + 1] = <<>> /\ \A k \in 1 .. n : new[k] = longer[k]
          BY <1>1, <1>4, <1>5, <2>1
    <2>3. new \in Paper
          BY <1>1, <1>5, <2>2 DEF Paper
    <2>4. Len(last) = Width
          BY <1>1, <1>2, <1>7
    <2>5. n \in 1 .. n /\ \A k \in 1 .. n - 1 : k \in 1 .. n
          BY <1>1
    <2>6. new[n] = line /\ \A k \in 1 .. n - 1 : new[k] = lines[k]
          BY <1>4, <2>2, <2>5
    <2> QED BY <1>1, <1>7, <2>2, <2>3, <2>4, <2>6 DEF line
<1>8. CASE c # Newline /\ ~(Len(line) > Width)
    <2>1. new = longer
          BY <1>3, <1>8
    <2>2. new \in Paper /\ Len(last) < Width
          BY <1>1, <1>2, <1>4, <1>8, <2>1 DEF Paper
    <2> QED BY <1>1, <1>4, <1>8, <2>1, <2>2 DEF line
<1> QED BY <1>6, <1>7, <1>8

Puts == [z \in Paper \X Char |-> Put(z[1], z[2])]

LEMMA PutsIs == Puts \in [Paper \X Char -> Paper] /\ \A p \in Paper, c \in Char : Puts[<<p, c>>] = Put(p, c)
<1>1. \A p \in Paper, c \in Char : Put(p, c) \in Paper
      BY PutIs
<1> QED BY <1>1 DEF Puts

\* How long the lines are then.
LEMMA PutLengths ==
    ASSUME NEW lines \in Paper, NEW c \in Char, NEW n, n = Len(lines), NEW new, new = Put(lines, c)
    PROVE  /\ Len(lines[n]) <= Width
           /\ c = Newline \/ Len(lines[n]) = Width => Len(new) = n + 1 /\ new[n + 1] = <<>>
           /\ c # Newline /\ Len(lines[n]) < Width => Len(new) = n /\ Len(new[n]) = Len(lines[n]) + 1
<1>1. lines[n] \in Seq(Char) /\ Len(lines[n]) <= Width
      BY DEF Paper
<1>2. Len(Append(lines[n], c)) = Len(lines[n]) + 1
      BY <1>1
<1>3. \/ c = Newline /\ Len(new) = n + 1 /\ new[n] = lines[n] /\ new[n + 1] = <<>>
      \/ /\ c # Newline /\ Len(lines[n]) = Width
         /\ Len(new) = n + 1 /\ new[n] = Append(lines[n], c) /\ new[n + 1] = <<>>
      \/ /\ c # Newline /\ Len(lines[n]) < Width
         /\ Len(new) = n /\ new[n] = Append(lines[n], c)
      BY PutIs
<1> QED BY <1>1, <1>2, <1>3, ConsoleAssumption

\* Lines takes the characters of the text one after the other.
LEMMA LinesRun ==
    ASSUME NEW text \in Seq(Char)
    PROVE  \E S \in [0 .. Len(text) -> Paper] :
               Run(S, Len(text), Puts, << <<>> >>, text) /\ S[Len(text)] = Lines(text)
<1> DEFINE q == text
           n == Len(q)
           base == << <<>> >>
           Is(w) == w = [s \in SUBSET DOMAIN q |-> IF s = {} THEN base ELSE Put(w[s \ {Max(s)}], q[Max(s)])]
           it == CHOOSE w : Is(w)
<1>1. Lines(text) = it[DOMAIN q]
      BY DEF Lines, FoldLeft, MapThenFoldSet
<1>2. n \in Nat /\ DOMAIN q = 1 .. n /\ \A k \in 1 .. n : q[k] \in Char
      OBVIOUS
<1> HIDE DEF n, q
<1>3. Puts \in [Paper \X Char -> Paper] /\ \A p \in Paper, c \in Char : Puts[<<p, c>>] = Put(p, c)
      BY PutsIs
<1>4. base \in Paper
    <2>1. base \in Seq(Seq(Char)) /\ Len(base) = 1 /\ Len(base[1]) = 0
          OBVIOUS
    <2> HIDE DEF base
    <2>2. Width \in Nat
          BY ConsoleAssumption
    <2>3. Len(base) >= 1 /\ Len(base[Len(base)]) <= Width
          BY <2>1, <2>2
    <2> QED BY <2>1, <2>3 DEF Paper
<1> HIDE DEF base
<1>5. PICK w \in [SUBSET (1 .. n) -> Paper] : Folds(w, n, Puts, base, q)
      BY <1>2, <1>3, <1>4, FoldExists
<1>6. Is(w)
    <2>1. ASSUME NEW s \in SUBSET (1 .. n)
          PROVE  w[s] = IF s = {} THEN base ELSE Put(w[s \ {Max(s)}], q[Max(s)])
        <3>1. s # {} => Max(s) \in s
              BY <1>2, HighestIn, MaxIsHighest
        <3>2. s # {} => w[s \ {Max(s)}] \in Paper /\ q[Max(s)] \in Char
              BY <1>2, <1>5, <3>1
        <3> QED BY <1>3, <1>5, <3>2, MaxIsHighest DEF Folds
    <2> QED BY <1>2, <1>5, <2>1
<1>7. Is(it)
      BY <1>6
<1> HIDE DEF it
<1>8. it[{}] = base
      BY <1>7
<1>9. ASSUME NEW k \in 0 .. n - 1, it[1 .. k] \in Paper PROVE it[1 .. k + 1] = Puts[<<it[1 .. k], q[k + 1]>>]
    <2>1. k \in Nat /\ k + 1 \in 1 .. n /\ 1 .. k + 1 \in SUBSET (1 .. n)
          BY <1>2
    <2>2. Max(1 .. k + 1) = k + 1 /\ (1 .. k + 1) \ {k + 1} = 1 .. k /\ 1 .. k + 1 # {}
          BY <2>1, HighestOfPrefix, MaxIsHighest
    <2>3. it[1 .. k + 1] = Put(it[1 .. k], q[k + 1])
          BY <1>2, <1>7, <2>1, <2>2
    <2> QED BY <1>2, <1>3, <1>9, <2>1, <2>3
<1>10. \E S \in [0 .. n -> Paper] : RunOf(S, it, n, Puts, base, q)
    <2>1. FoldsIn(it, n, Puts, base, q, Paper)
          BY <1>8, <1>9 DEF FoldsIn
    <2>2. n \in Nat /\ (\A k \in 1 .. n : q[k] \in Char) /\ Puts \in [Paper \X Char -> Paper]
          BY <1>2, <1>3
    <2> HIDE DEF Is, base
    <2> QED BY <1>4, <2>1, <2>2, FoldRun, ZenonT(30)
<1> QED BY <1>1, <1>2, <1>10 DEF RunOf, n, q, base

\* One character more at the end of the text.
LEMMA LinesAppend ==
    ASSUME NEW text \in Seq(Char), NEW c \in Char
    PROVE  Lines(text) \in Paper /\ Lines(Append(text, c)) = Put(Lines(text), c)
<1> DEFINE base == << <<>> >>
           n == Len(text)
           more == Append(text, c)
<1>1. more \in Seq(Char) /\ Len(more) = n + 1 /\ n \in Nat /\ more[n + 1] = c /\ \A k \in 1 .. n : text[k] = more[k]
      OBVIOUS
<1>2. \A p \in Paper, d \in Char : Puts[<<p, d>>] = Put(p, d)
      BY PutsIs
<1> HIDE DEF more, n
<1>3. PICK S \in [0 .. n -> Paper] : Run(S, n, Puts, base, text) /\ S[n] = Lines(text)
      BY LinesRun DEF n
<1>4. PICK T \in [0 .. n + 1 -> Paper] : Run(T, n + 1, Puts, base, more) /\ T[n + 1] = Lines(more)
      BY <1>1, LinesRun
<1> HIDE DEF base
<1>5. n \in 0 .. n + 1 /\ n + 1 \in Nat /\ n \in 0 .. n /\ n \in 0 .. (n + 1) - 1
      BY <1>1
<1>6. Run(T, n, Puts, base, more)
      BY <1>4, <1>5, RunBegins
<1>7. S[n] = T[n]
      BY <1>1, <1>3, <1>5, <1>6, RunsAgree, SMTT(30)
<1>8. T[n + 1] = Puts[<<T[n], c>>]
      BY <1>1, <1>4, <1>5 DEF Run
<1>9. S[n] \in Paper
      BY <1>3, <1>5
<1> QED BY <1>2, <1>3, <1>4, <1>7, <1>8, <1>9 DEF more

\* A text of no characters has one line.
LEMMA LinesEmpty == Lines(<<>>) = << <<>> >>
<1>1. <<>> \in Seq(Char) /\ Len(<<>>) = 0 /\ 0 \in 0 .. 0
      OBVIOUS
<1>2. PICK S : Run(S, 0, Puts, << <<>> >>, <<>>) /\ S[0] = Lines(<<>>)
      BY <1>1, LinesRun
<1> QED BY <1>2 DEF Run

-----------------------------------------------------------------------------
(* What the screen shows.                                                   *)

Cell(r, col) == r * Width + col - 1

\* A cell for every place of the screen, and how fb_roll and offset count them.
LEMMA CellIs ==
    ASSUME NEW r \in Nat, NEW col \in 1 .. Width
    PROVE  /\ Cell(r, col) \in Nat
           /\ r <= Height + 1 => Cell(r, col) \in Cells
           /\ Cell(r, col) \div Width = r
           /\ Cell(r, col) + Width = Cell(r + 1, col)
           /\ \A s \in Nat, k \in 1 .. Width : Cell(r, col) = Cell(s, k) => r = s /\ col = k
<1> DEFINE e == r * Width + col - 1
<1>1. Width \in Nat \ {0} /\ Height \in Nat
      BY ConsoleAssumption
<1>2. e \in Nat /\ e = Width * r + (col - 1) /\ col - 1 \in 0 .. Width - 1
      BY <1>1
<1>3. e + Width = (r + 1) * Width + col - 1
      BY <1>1
<1>4. r <= Height + 1 => e \in Cells
    <2>1. col - 1 \in Nat /\ col - 1 <= Width + 1 /\ e = r * Width + (col - 1)
          BY <1>1, <1>2
    <2> HIDE DEF e
    <2> DEFINE a == col - 1
    <2> HIDE DEF a
    <2> QED BY <2>1, CellInside DEF a
<1> HIDE DEF e
<1>5. e \div Width = r
    <2> DEFINE p == e \div Width
               v == e % Width
    <2>1. p \in Nat /\ v \in 0 .. Width - 1 /\ e = Width * p + v
          BY <1>1, <1>2, DivIs
    <2> HIDE DEF p, v
    <2> DEFINE u == col - 1
    <2>2. u \in 0 .. Width - 1 /\ e = Width * r + u
          BY <1>2
    <2> HIDE DEF u
    <2>3. p = r
          BY <1>1, <2>1, <2>2, DivUnique
    <2> QED BY <2>3 DEF p
<1>6. ASSUME NEW s \in Nat, NEW k \in 1 .. Width, e = s * Width + k - 1 PROVE r = s /\ col = k
    <2> DEFINE u == col - 1
               v == k - 1
    <2>1. u \in 0 .. Width - 1 /\ v \in 0 .. Width - 1 /\ Width * r + u = Width * s + v
          BY <1>1, <1>2, <1>6
    <2> HIDE DEF u, v
    <2>2. r = s
          BY <1>1, <2>1, DivUnique
    <2>3. e = Width * r + (col - 1) /\ e = Width * r + (k - 1) /\ Width * r \in Int
          BY <1>1, <1>2, <1>6, <2>2
    <2> QED BY <2>2, <2>3
<1> QED BY <1>2, <1>3, <1>4, <1>5, <1>6 DEF e, Cell

LEMMA CellUnique ==
    ASSUME NEW r \in Nat, NEW col \in 1 .. Width, NEW s \in Nat, NEW k \in 1 .. Width,
           Cell(r, col) = Cell(s, k)
    PROVE  r = s /\ col = k
  BY CellIs

\* Where fb_putchar stores when the last line has a characters.
LEMMA OffsetIs ==
    ASSUME NEW a \in Nat, NEW b \in Nat
    PROVE  a < Width => b * Width + a = Cell(b, a + 1) /\ a + 1 \in 1 .. Width
<1>1. Width \in Nat \ {0}
      BY ConsoleAssumption
<1> QED BY <1>1 DEF Cell

LEMMA OffsetBehind ==
    ASSUME NEW b \in Nat
    PROVE  b * Width + Width = Cell(b + 1, 1) /\ 1 \in 1 .. Width
<1>1. Width \in Nat \ {0}
      BY ConsoleAssumption
<1> QED BY <1>1 DEF Cell

\* e is what Shows asks for in column col of line k.
ShownAt(e, lines, k, col) ==
    IF k <= Len(lines) /\ col <= Len(lines[k]) THEN e = lines[k][col]
    ELSE \/ e = Empty(k)
         \/ k <= Len(lines) /\ col = 1 /\ k > 1 /\ Len(lines[k - 1]) = Width + 1 /\ e = Last(lines[k - 1])

LEMMA ShowsIs ==
    ASSUME NEW mem, NEW lines, NEW top
    PROVE  Shows(mem, lines, top) <=>
               \A r \in Rows, col \in 1 .. Width : ShownAt(mem[Cell(r, col)], lines, top + r, col)
  BY DEF Shows, ShownAt, Cell

\* Where the next character goes: behind the last line, or into the next row.
Target(lines, k, col) ==
    LET n == Len(lines)
    IN  \/ Len(lines[n]) < Width /\ k = n /\ col = Len(lines[n]) + 1
        \/ Len(lines[n]) = Width /\ k = n + 1 /\ col = 1

\* The new character is shown there, if it is not the end of a line.
LEMMA StoresShown ==
    ASSUME NEW lines \in Paper, NEW c \in Char, c # Newline, NEW k \in Nat \ {0}, NEW col \in 1 .. Width,
           Target(lines, k, col)
    PROVE  ShownAt(c, Put(lines, c), k, col)
<1> DEFINE n == Len(lines)
           new == Put(lines, c)
           len == Len(lines[n])
<1>1. /\ n \in Nat \ {0}
      /\ \/ len = Width /\ Len(new) = n + 1 /\ new[n] = Append(lines[n], c) /\ new[n + 1] = <<>>
         \/ len < Width /\ Len(new) = n /\ new[n] = Append(lines[n], c)
    <2> HIDE DEF new
    <2> QED BY PutIs DEF new
<1>2. lines[n] \in Seq(Char) /\ len \in Nat /\ Width \in Nat \ {0}
      BY <1>1, ConsoleAssumption DEF Paper
<1>3. Len(Append(lines[n], c)) = len + 1 /\ Append(lines[n], c)[len + 1] = c /\ Last(Append(lines[n], c)) = c
      BY <1>2 DEF Last
<1>4. CASE len < Width
    <2>1. k = n /\ col = len + 1 /\ Len(new) = n /\ new[n] = Append(lines[n], c)
          BY <1>1, <1>2, <1>4 DEF Target
    <2> HIDE DEF new, n, len
    <2> QED BY <1>1, <1>2, <1>3, <2>1 DEF ShownAt, new, n, len
<1>5. CASE len = Width
    <2>1. k = n + 1 /\ col = 1 /\ Len(new) = n + 1 /\ new[n] = Append(lines[n], c) /\ new[k] = <<>>
          BY <1>1, <1>2, <1>5 DEF Target
    <2>2. Len(<<>>) = 0
          OBVIOUS
    <2> DEFINE more == Append(lines[n], c)
    <2>4. new[n] = more /\ Len(more) = len + 1 /\ Last(more) = c
          BY <1>3, <2>1
    <2> HIDE DEF new, n, len, more
    <2>3. Len(new[k]) = 0 /\ k - 1 = n /\ k > 1 /\ Len(new[k - 1]) = Width + 1 /\ Last(new[k - 1]) = c
          BY <1>1, <1>2, <1>5, <2>1, <2>2, <2>4
    <2> QED BY <1>1, <2>1, <2>3 DEF ShownAt, new
<1> QED BY <1>4, <1>5 DEF Target

\* Everywhere else, and after the end of a line, what is shown stays.
LEMMA KeepsShown ==
    ASSUME NEW lines \in Paper, NEW c \in Char, NEW k \in Nat \ {0}, NEW col \in 1 .. Width,
           c = Newline \/ ~Target(lines, k, col), NEW e, ShownAt(e, lines, k, col)
    PROVE  ShownAt(e, Put(lines, c), k, col)
<1> DEFINE n == Len(lines)
           new == Put(lines, c)
           len == Len(lines[n])
<1>1. /\ n \in Nat \ {0} /\ \A j \in 1 .. n - 1 : new[j] = lines[j]
      /\ \/ c = Newline /\ Len(new) = n + 1 /\ new[n] = lines[n] /\ new[n + 1] = <<>>
         \/ /\ c # Newline /\ len = Width
            /\ Len(new) = n + 1 /\ new[n] = Append(lines[n], c) /\ new[n + 1] = <<>>
         \/ c # Newline /\ len < Width /\ Len(new) = n /\ new[n] = Append(lines[n], c)
    <2>1. /\ n \in Nat \ {0} /\ \A j \in 1 .. n - 1 : new[j] = lines[j]
          /\ \/ c = Newline /\ Len(new) = n + 1 /\ new[n] = lines[n] /\ new[n + 1] = <<>>
             \/ /\ c # Newline /\ Len(lines[n]) = Width
                /\ Len(new) = n + 1 /\ new[n] = Append(lines[n], c) /\ new[n + 1] = <<>>
             \/ /\ c # Newline /\ Len(lines[n]) < Width
                /\ Len(new) = n /\ new[n] = Append(lines[n], c)
        <3>1. n = Len(lines) /\ new = Put(lines, c)
              OBVIOUS
        <3>2. lines \in Paper /\ c \in Char
              OBVIOUS
        <3> HIDE DEF n, new
        <3>3. \A j \in 1 .. n - 1 : new[j] = lines[j]
              BY <3>1, <3>2, PutIs, SMTT(30)
        <3> QED BY <3>1, <3>2, <3>3, PutIs, SMTT(30)
    <2> HIDE DEF n, new
    <2> QED BY <2>1
<1>2. lines[n] \in Seq(Char) /\ len \in Nat /\ Width \in Nat \ {0}
      BY <1>1, ConsoleAssumption DEF Paper
<1> DEFINE more == Append(lines[n], c)
<1>3. Len(more) = len + 1 /\ \A j \in 1 .. len : more[j] = lines[n][j]
      BY <1>2
<1>4. Len(<<>>) = 0
      OBVIOUS
<1> HIDE DEF new, more
<1>5. CASE k < n
    <2>1. new[k] = lines[k] /\ (k > 1 => new[k - 1] = lines[k - 1])
          BY <1>1, <1>5
    <2>2. k <= Len(lines) /\ k <= Len(new)
          BY <1>1, <1>5
    <2> HIDE DEF n
    <2> QED BY <2>1, <2>2 DEF ShownAt, new
<1>6. CASE k = n /\ new[n] = lines[n]
    <2>1. new[k] = lines[k] /\ (k > 1 => new[k - 1] = lines[k - 1])
          BY <1>1, <1>6
    <2>2. k <= Len(lines) /\ k <= Len(new)
          BY <1>1, <1>6
    <2> HIDE DEF n
    <2> QED BY <2>1, <2>2 DEF ShownAt, new
<1>7. CASE k = n /\ new[n] = more
    <2>1. new[k] = more /\ (k > 1 => new[k - 1] = lines[k - 1]) /\ k <= Len(new)
          BY <1>1, <1>7
    <2>2. CASE col <= len
        <3>1. e = lines[k][col] /\ more[col] = lines[k][col]
              BY <1>1, <1>2, <1>3, <1>7, <2>2 DEF ShownAt
        <3>2. col <= Len(new[k])
              BY <1>2, <1>3, <2>1, <2>2
        <3> QED BY <2>1, <3>1, <3>2 DEF ShownAt, new
    <2>3. CASE ~(col <= len) /\ c # Newline
        <3>1. ~(len < Width /\ col = len + 1)
              BY <1>7, <2>3 DEF Target
        <3>2. col > len + 1
              BY <1>2, <2>3, <3>1
        <3>3. e = Empty(k)
              BY <1>1, <1>2, <1>7, <2>3, <3>2 DEF ShownAt
        <3>4. ~(col <= Len(new[k]))
              BY <1>2, <1>3, <2>1, <3>2
        <3> QED BY <3>3, <3>4 DEF ShownAt, new
    <2>4. CASE ~(col <= len) /\ c = Newline
        <3>1. Len(more) = len
              BY <1>1, <1>7, <2>4
        <3> QED BY <1>2, <1>3, <3>1
    <2> QED BY <2>2, <2>3, <2>4
<1>8. CASE k > n
    <2>1. e = Empty(k)
          BY <1>1, <1>8 DEF ShownAt
    <2>2. ~(k <= Len(new) /\ col <= Len(new[k]))
          BY <1>1, <1>4, <1>8
    <2> QED BY <2>1, <2>2 DEF ShownAt, new
<1> QED BY <1>1, <1>5, <1>6, <1>7, <1>8 DEF more

\* The row of the last of n lines.
Row(n) == IF n > Height THEN Height ELSE n - 1

LEMMA RowIs ==
    ASSUME NEW n \in Nat \ {0}
    PROVE  Row(n) \in Rows /\ Row(n) \in Nat /\ n - Row(n) \in Nat \ {0} /\ Height \in Nat \ {0}
  BY ConsoleAssumption DEF Row, Rows

\* fb_putchar's store.
LEMMA StoreScreen ==
    ASSUME NEW lines \in Paper, NEW c \in Char, c # Newline, NEW n, n = Len(lines),
           NEW mem, mem = [k \in Cells |-> mem[k]], Shows(mem, lines, n - Row(n)),
           NEW off, off = Row(n) * Width + Len(lines[n])
    PROVE  Shows([mem EXCEPT ![off] = c], Put(lines, c), n - Row(n))
<1> DEFINE top == n - Row(n)
           a == Len(lines[n])
           b == Row(n)
           more == [mem EXCEPT ![off] = c]
<1>1. n \in Nat \ {0} /\ a \in Nat /\ a <= Width
      BY DEF Paper
<1>2. b \in Nat /\ b <= Height /\ top \in Nat \ {0} /\ n = top + b
      BY <1>1, RowIs, ConsoleAssumption DEF Row
<1>3. more = [k \in Cells |-> IF k = off THEN c ELSE mem[k]]
      OBVIOUS
<1> HIDE DEF more
<1>4. ASSUME NEW r \in Rows, NEW col \in 1 .. Width
      PROVE  ShownAt(more[Cell(r, col)], Put(lines, c), top + r, col)
    <2> DEFINE k == top + r
    <2>1. r \in Nat /\ r <= Height + 1 /\ Height \in Nat /\ k \in Nat \ {0}
          BY <1>2, ConsoleAssumption, SMTT(30) DEF Rows
    <2>2. Cell(r, col) \in Cells
          BY <2>1, CellIs
    <2>3. ShownAt(mem[Cell(r, col)], lines, k, col)
          BY ShowsIs
    <2>4. CASE Target(lines, k, col)
        <3>1. off = Cell(r, col)
            <4>1. CASE a < Width /\ k = n /\ col = a + 1
                <5>1. r = b
                      BY <1>2, <2>1, <4>1
                <5> QED BY <1>1, <1>2, <4>1, <5>1, OffsetIs
            <4>2. CASE a = Width /\ k = n + 1 /\ col = 1
                <5>1. r = b + 1
                      BY <1>2, <2>1, <4>2, SMTT(30)
                <5> QED BY <1>1, <1>2, <4>2, <5>1, OffsetBehind
            <4> HIDE DEF k
            <4> QED BY <2>4, <4>1, <4>2 DEF Target
        <3>2. more[Cell(r, col)] = c
              BY <1>3, <2>2, <3>1
        <3> HIDE DEF k
        <3> QED BY <2>1, <2>4, <3>2, StoresShown DEF k
    <2>5. CASE ~Target(lines, k, col)
        <3>1. off # Cell(r, col)
            <4>1. CASE a < Width
                <5>1. off = Cell(b, a + 1) /\ a + 1 \in 1 .. Width
                      BY <1>1, <1>2, <4>1, OffsetIs
                <5>2. ~(r = b /\ col = a + 1)
                    <6> HIDE DEF k
                    <6>1. r = b => k = n
                          BY <1>1, <1>2 DEF k
                    <6> QED BY <1>1, <2>5, <4>1, <6>1 DEF Target
                <5> DEFINE p == a + 1
                <5>4. p \in 1 .. Width
                      BY <5>1
                <5> HIDE DEF p, top, k, b
                <5>3. Cell(r, col) = Cell(b, p) => r = b /\ col = p
                      BY <1>2, <2>1, <5>4, CellUnique
                <5> QED BY <5>1, <5>2, <5>3 DEF p
            <4>2. CASE a = Width
                <5>1. off = Cell(b + 1, 1) /\ 1 \in 1 .. Width
                      BY <1>1, <1>2, <4>2, OffsetBehind
                <5>2. ~(r = b + 1 /\ col = 1)
                    <6> HIDE DEF k
                    <6>1. r = b + 1 => k = n + 1
                          BY <1>1, <1>2 DEF k
                    <6> QED BY <1>1, <2>5, <4>2, <6>1 DEF Target
                <5>3. b + 1 \in Nat
                      BY <1>2
                <5> DEFINE p == b + 1
                <5>5. p \in Nat
                      BY <5>3
                <5> HIDE DEF p, top, k, b
                <5>4. Cell(r, col) = Cell(p, 1) => r = p /\ col = 1
                      BY <2>1, <5>1, <5>5, CellUnique
                <5> QED BY <5>1, <5>2, <5>4 DEF p
            <4> QED BY <1>1, <4>1, <4>2, ConsoleAssumption
        <3>2. more[Cell(r, col)] = mem[Cell(r, col)]
              BY <1>3, <2>2, <3>1
        <3> HIDE DEF k
        <3> QED BY <2>1, <2>3, <2>5, <3>2, KeepsShown DEF k
    <2> QED BY <2>4, <2>5
<1> HIDE DEF top
<1>5. Shows(more, Put(lines, c), top)
      BY <1>4, ShowsIs
<1> QED BY <1>5 DEF more, top

\* The end of a line stores nothing.
LEMMA NewlineScreen ==
    ASSUME NEW lines \in Paper, NEW c \in Char, c = Newline, NEW mem, NEW top \in Nat \ {0},
           Shows(mem, lines, top)
    PROVE  Shows(mem, Put(lines, c), top)
<1>1. ASSUME NEW r \in Rows, NEW col \in 1 .. Width
      PROVE  ShownAt(mem[Cell(r, col)], Put(lines, c), top + r, col)
    <2>1. top + r \in Nat \ {0}
          BY ConsoleAssumption DEF Rows
    <2>2. ShownAt(mem[Cell(r, col)], lines, top + r, col)
          BY ShowsIs
    <2> QED BY <2>1, <2>2, KeepsShown
<1> QED BY <1>1, ShowsIs

\* fb_roll, when a line is to begin below the last row.
LEMMA RollScreen ==
    ASSUME NEW lines, NEW top \in Nat \ {0}, NEW mem, Shows(mem, lines, top),
           Len(lines) = top + Height + 1, lines[Len(lines)] = <<>>,
           NEW rolled, rolled = [k \in Cells |-> CASE k \div Width < Height -> mem[k + Width]
                                                   [] k \div Width = Height -> Blank
                                                   [] OTHER -> mem[k]]
    PROVE  Shows(rolled, lines, top + 1)
<1>1. ASSUME NEW r \in Rows, NEW col \in 1 .. Width
      PROVE  ShownAt(rolled[Cell(r, col)], lines, (top + 1) + r, col)
    <2> DEFINE e == Cell(r, col)
    <2>1. r \in Nat /\ r <= Height /\ Height \in Nat \ {0}
          BY ConsoleAssumption DEF Rows
    <2>2. e \in Cells /\ e \div Width = r /\ e + Width = Cell(r + 1, col)
          BY <2>1, CellIs
    <2>3. rolled[e] = CASE e \div Width < Height -> mem[e + Width]
                        [] e \div Width = Height -> Blank
                        [] OTHER -> mem[e]
          BY <2>2
    <2> HIDE DEF e
    <2>4. CASE r < Height
        <3>1. rolled[e] = mem[Cell(r + 1, col)]
              BY <2>1, <2>2, <2>3, <2>4
        <3>2. r + 1 \in Rows /\ top + (r + 1) = (top + 1) + r
              BY <2>1, <2>4 DEF Rows
        <3>3. ShownAt(mem[Cell(r + 1, col)], lines, top + (r + 1), col)
              BY <3>2, ShowsIs
        <3> QED BY <3>1, <3>2, <3>3 DEF e
    <2>5. CASE r = Height
        <3>1. rolled[e] = Blank
              BY <2>1, <2>2, <2>3, <2>5
        <3>2. (top + 1) + r = Len(lines)
              BY <2>1, <2>5
        <3>3. Len(<<>>) = 0
              OBVIOUS
        <3>4. ~(col <= Len(lines[(top + 1) + r]))
              BY <3>2, <3>3
        <3>5. (top + 1) + r # Height + 1
              BY <2>1, <2>5
        <3>6. rolled[e] = Empty((top + 1) + r)
              BY <3>1, <3>5 DEF Empty
        <3> QED BY <3>4, <3>6 DEF ShownAt, e
    <2> QED BY <2>1, <2>4, <2>5
<1>2. top + 1 \in Nat
      OBVIOUS
<1> QED BY <1>1, <1>2, ShowsIs

-----------------------------------------------------------------------------
(* The invariant behind ScreenShowsText.                                    *)

\* The cursor (a, b) is behind the last of the lines.
Fits(lines, a, b) == a = Len(lines[Len(lines)]) /\ b = Row(Len(lines))

Synced(text) ==
    LET lines == Lines(text)
    IN  Fits(lines, x, y) /\ offset = y * Width + x /\ Shows(fbmem, lines, Len(lines) - y)

\* c has put the text done and is at work on the next character: the screen shows it
\* as soon as it is stored, and the cursor follows.
Doing(c, done) ==
    LET old == Lines(done)
        new == Put(old, Head(call[c].text))
        n == Len(old)
        at == call[c].at
        reg == call[c].reg
        Stored == Shows(fbmem, new, n - Row(n))
        Breaks == Len(new) = n + 1 /\ new[n + 1] = <<>>
    IN  /\ at = "char" => Synced(done)
        /\ at \in {"x_load", "x_store"} => Head(call[c].text) # Newline /\ Fits(old, x, y) /\ Stored
        /\ at = "x_store" => reg = x
        /\ at = "x_test" => Head(call[c].text) # Newline /\ x = Len(old[n]) + 1 /\ y = Row(n) /\ Stored
        /\ at \in {"y_load", "y_store"} => Breaks /\ y = Row(n) /\ Stored
        /\ at = "y_store" => reg = y
        /\ at \in {"x_reset", "y_test", "roll"} => Breaks /\ y = Row(n) + 1 /\ Stored
        /\ at \in {"y_test", "roll", "y_reload", "y_restore"} => x = 0
        /\ at = "roll" => y > Height
        /\ at \in {"y_reload", "y_restore"} =>
              Breaks /\ y = Height + 1 /\ n > Height /\ Shows(fbmem, new, Len(new) - Height)
        /\ at = "y_restore" => reg = y
        /\ at \in {"offset_load", "offset_add", "offset_store"} =>
              Fits(new, x, y) /\ Shows(fbmem, new, Len(new) - y)
        /\ at = "offset_add" => reg = y * Width
        /\ at = "offset_store" => reg = y * Width + x

Alone(c) == call[c].at # "out" /\ \A d \in Callers \ {c} : call[d].at = "out"

ShowInv ==
    ~raced => /\ fbmem = [k \in Cells |-> fbmem[k]]
              /\ \/ AtRest /\ printed \in Seq(Char) /\ Synced(printed)
                 \/ \E c \in Callers, done \in Seq(Char) :
                       Alone(c) /\ printed = done \o call[c].text /\ Doing(c, done)

\* The screen is blank at first, but for the last row.
LEMMA InitShow == fb => ShowInv
<1> SUFFICES ASSUME fb PROVE ShowInv
    OBVIOUS
<1> DEFINE lines == Lines(<<>>)
<1>1. Len(lines) = 1 /\ Len(lines[1]) = 0
    <2>1. lines = << <<>> >>
          BY LinesEmpty
    <2>2. Len(<< <<>> >>) = 1 /\ Len(<< <<>> >>[1]) = 0
          OBVIOUS
    <2> HIDE DEF lines
    <2> QED BY <2>1, <2>2
<1> HIDE DEF lines
<1>2. /\ fbmem = [k \in Cells |-> IF k \div Width < Height THEN Blank ELSE Leftover]
      /\ x = 0 /\ y = 0 /\ offset = 0 /\ printed = <<>>
      BY DEF fb
<1>3. Fits(lines, x, y) /\ offset = y * Width + x
      BY <1>1, <1>2, ConsoleAssumption DEF Fits, Row
<1>4. Shows(fbmem, lines, 1)
    <2>1. ASSUME NEW r \in Rows, NEW col \in 1 .. Width PROVE ShownAt(fbmem[Cell(r, col)], lines, 1 + r, col)
        <3>1. r \in Nat /\ r <= Height + 1 /\ Height \in Nat
              BY ConsoleAssumption DEF Rows
        <3>2. fbmem[Cell(r, col)] = Empty(1 + r)
            <4>1. Cell(r, col) \in Cells /\ Cell(r, col) \div Width = r
                  BY <3>1, CellIs
            <4>2. r < Height <=> 1 + r # Height + 1
                  BY <3>1 DEF Rows
            <4> QED BY <1>2, <4>1, <4>2 DEF Empty
        <3>3. ~(1 + r <= Len(lines) /\ col <= Len(lines[1 + r]))
              BY <1>1, <3>1
        <3> QED BY <3>2, <3>3 DEF ShownAt
    <2> QED BY <2>1, ShowsIs
<1>5. Synced(printed)
    <2>1. Lines(printed) = lines /\ Len(lines) - y = 1
          BY <1>1, <1>2 DEF lines
    <2> QED BY <1>3, <1>4, <2>1 DEF Synced
<1>6. AtRest
      BY DEF fb, AtRest, Idle
<1>7. printed \in Seq(Char) /\ fbmem = [k \in Cells |-> fbmem[k]]
      BY <1>2
<1> QED BY <1>5, <1>6, <1>7 DEF ShowInv

\* The first of a text goes behind what was done.
LEMMA HeadMoves ==
    ASSUME NEW done \in Seq(Char), NEW text \in Seq(Char), text # <<>>
    PROVE  /\ Head(text) \in Char /\ Append(done, Head(text)) \in Seq(Char) /\ Tail(text) \in Seq(Char)
           /\ done \o text = Append(done, Head(text)) \o Tail(text)
           /\ Len(text) = 1 => done \o text = Append(done, Head(text))
<1>1. Len(text) \in Nat \ {0} /\ Len(done) \in Nat
      BY EmptySeq
<1>2. Head(text) \in Char /\ Append(done, Head(text)) \in Seq(Char) /\ Tail(text) \in Seq(Char)
      /\ Head(text) = text[1]
      BY <1>1
<1> DEFINE more == Append(done, Head(text))
           rest == Tail(text)
<1>3. Len(more) = Len(done) + 1 /\ more[Len(done) + 1] = text[1] /\ \A k \in 1 .. Len(done) : more[k] = done[k]
      BY <1>2
<1>4. Len(rest) = Len(text) - 1 /\ \A k \in 1 .. Len(rest) : rest[k] = text[k + 1]
      BY <1>1
<1> HIDE DEF more, rest
<1>5. /\ done \o text \in Seq(Char) /\ Len(done \o text) = Len(done) + Len(text)
      /\ \A k \in 1 .. Len(done \o text) :
            (done \o text)[k] = IF k <= Len(done) THEN done[k] ELSE text[k - Len(done)]
      BY ConcatProperties
<1>6. /\ more \o rest \in Seq(Char) /\ Len(more \o rest) = Len(more) + Len(rest)
      /\ \A k \in 1 .. Len(more \o rest) :
            (more \o rest)[k] = IF k <= Len(more) THEN more[k] ELSE rest[k - Len(more)]
      BY <1>2, ConcatProperties DEF more, rest
<1> DEFINE a == done \o text
           b == more \o rest
<1>7. a = b
    <2>1. Len(a) = Len(b)
          BY <1>1, <1>3, <1>4, <1>5, <1>6
    <2>2. ASSUME NEW k \in 1 .. Len(a) PROVE a[k] = b[k]
        <3>1. k \in 1 .. Len(b) /\ k \in Nat
              BY <1>1, <1>5, <2>1
        <3>2. CASE k <= Len(done)
              BY <1>1, <1>3, <1>5, <1>6, <3>1, <3>2
        <3>3. CASE k = Len(done) + 1
              BY <1>1, <1>3, <1>5, <1>6, <3>1, <3>3
        <3>4. CASE k > Len(done) + 1
            <4>1. a[k] = text[k - Len(done)] /\ b[k] = rest[k - Len(more)]
                  BY <1>1, <1>3, <1>5, <1>6, <3>1, <3>4
            <4>2. k - Len(more) \in 1 .. Len(rest) /\ (k - Len(more)) + 1 = k - Len(done)
                  BY <1>1, <1>3, <1>4, <1>5, <3>1, <3>4
            <4> QED BY <1>4, <4>1, <4>2
        <3> QED BY <1>1, <3>1, <3>2, <3>3, <3>4
    <2> HIDE DEF a, b
    <2> QED BY <1>5, <1>6, <2>1, <2>2, SeqEqual DEF a, b
<1>8. Len(text) = 1 => a = more
    <2> SUFFICES ASSUME Len(text) = 1 PROVE a = more
        OBVIOUS
    <2>1. Len(a) = Len(more)
          BY <1>1, <1>3, <1>5
    <2>2. ASSUME NEW k \in 1 .. Len(a) PROVE a[k] = more[k]
          BY <1>1, <1>3, <1>5
    <2>3. more \in Seq(Char)
          BY <1>2 DEF more
    <2> HIDE DEF a
    <2> QED BY <1>5, <2>1, <2>2, <2>3, SeqEqual DEF a
<1> QED BY <1>2, <1>7, <1>8 DEF more, rest

-----------------------------------------------------------------------------
(* The steps of the one printf.                                             *)

\* What every step of c that stays in its text keeps.
Within(c) == /\ UNCHANGED <<printed, raced>>
             /\ call'[c].text = call[c].text /\ call'[c].at # "out"
             /\ \A d \in Callers \ {c} : call'[d] = call[d]
             /\ fbmem' = [k \in Cells |-> fbmem'[k]]

\* c begins to do what it has to.
LEMMA StaysShown ==
    ASSUME NEW c \in Callers, NEW done \in Seq(Char), Alone(c), printed = done \o call[c].text,
           Within(c), Doing(c, done)'
    PROVE  ShowInv'
<1>1. Alone(c)' /\ (printed = done \o call[c].text)'
      BY DEF Within, Alone
<1> QED BY <1>1 DEF ShowInv, Within

\* What the lines of the text are before and after the next character.
LEMMA NextLines ==
    ASSUME NEW done \in Seq(Char), NEW ch \in Char, NEW old, old = Lines(done), NEW n, n = Len(old)
    PROVE  /\ old \in Paper /\ n \in Nat \ {0} /\ Len(old[n]) \in Nat
           /\ Row(n) \in Nat /\ n - Row(n) \in Nat \ {0} /\ Height \in Nat \ {0} /\ Width \in Nat \ {0}
           /\ Lines(Append(done, ch)) = Put(old, ch)
<1>1. old \in Paper /\ Lines(Append(done, ch)) = Put(old, ch)
      BY LinesAppend
<1>2. n \in Nat \ {0} /\ Len(old[n]) \in Nat
      BY <1>1 DEF Paper
<1> QED BY <1>1, <1>2, RowIs, ConsoleAssumption

\* fb_putchar's store, and x++ with its test.
LEMMA XShown ==
    ASSUME CallTypes, ~raced, fbmem = [k \in Cells |-> fbmem[k]],
           NEW c \in Callers, NEW done \in Seq(Char),
           Alone(c), printed = done \o call[c].text, Doing(c, done),
           fb_putchar(c) \/ x_load(c) \/ x_store(c) \/ x_test(c)
    PROVE  ShowInv'
<1> DEFINE old == Lines(done)
           ch == Head(call[c].text)
           new == Put(old, ch)
           n == Len(old)
<1>1. /\ call[c].at # "out" /\ call \in [Callers -> Call]
      /\ call[c].text \in Seq(Char) /\ call[c].text # <<>>
      BY DEF Alone, CallTypes, Call
<1>2. /\ ch \in Char /\ old \in Paper /\ n \in Nat \ {0} /\ Len(old[n]) \in Nat
      /\ Row(n) \in Nat /\ n - Row(n) \in Nat \ {0} /\ Height \in Nat \ {0} /\ Width \in Nat \ {0}
    <2>1. old = Lines(done) /\ n = Len(old)
          OBVIOUS
    <2>2. ch \in Char
          BY <1>1, HeadMoves
    <2> HIDE DEF old, ch, n, new
    <2> QED BY <2>1, <2>2, NextLines
<1>3. /\ Len(old[n]) <= Width
      /\ ch = Newline \/ Len(old[n]) = Width => Len(new) = n + 1 /\ new[n + 1] = <<>>
      /\ ch # Newline /\ Len(old[n]) < Width => Len(new) = n /\ Len(new[n]) = Len(old[n]) + 1
    <2>1. n = Len(old) /\ new = Put(old, ch)
          OBVIOUS
    <2> HIDE DEF old, ch, n, new
    <2> QED BY <1>2, <2>1, PutLengths, SMTT(30)
<1>4. CASE fb_putchar(c)
    <2>1. At(c, "char") /\ UNCHANGED <<sharing, x, y, offset, printed, raced>>
          BY <1>4 DEF fb_putchar, history
    <2>2. Fits(old, x, y) /\ offset = y * Width + x /\ Shows(fbmem, old, n - y)
          BY <2>1 DEF Doing, Synced, At
    <2>3. y = Row(n) /\ x = Len(old[n])
          BY <2>2 DEF Fits
    <2>4. CASE ch = Newline
        <3>1. Go(c, "y_load") /\ fbmem' = fbmem
              BY <1>4, <2>4 DEF fb_putchar
        <3>2. Within(c) /\ call'[c].at = "y_load" /\ call'[c].text = call[c].text
              BY <1>1, <2>1, <3>1 DEF Within, Go, Call
        <3> HIDE DEF old, ch, n, new
        <3>3. Shows(fbmem, new, n - y)
              BY <1>2, <2>2, <2>3, <2>4, NewlineScreen DEF new
        <3>4. Doing(c, done)'
              BY <1>3, <2>1, <2>3, <2>4, <3>1, <3>2, <3>3 DEF Doing, old, ch, n, new
        <3> QED BY <3>2, <3>4, StaysShown
    <2>5. CASE ch # Newline
        <3>1. Go(c, "x_load") /\ fbmem' = [fbmem EXCEPT ![offset] = ch]
              BY <1>4, <2>5 DEF fb_putchar
        <3>2. Within(c) /\ call'[c].at = "x_load" /\ call'[c].text = call[c].text
            <4>1. fbmem' = [k \in Cells |-> fbmem'[k]]
                  BY <3>1
            <4> QED BY <1>1, <2>1, <3>1, <4>1 DEF Within, Go, Call
        <3> HIDE DEF old, ch, n, new
        <3>3. Shows(fbmem, old, n - Row(n)) /\ offset = Row(n) * Width + Len(old[n])
              BY <2>2, <2>3
        <3>4. Shows(fbmem', new, n - Row(n))
              BY <1>2, <2>5, <3>1, <3>3, StoreScreen DEF new, n
        <3>5. Doing(c, done)'
              BY <2>1, <2>2, <2>5, <3>2, <3>4 DEF Doing, Fits, old, ch, n, new
        <3> QED BY <3>2, <3>5, StaysShown
    <2> QED BY <2>4, <2>5
<1>5. CASE x_load(c)
    <2>1. At(c, "x_load") /\ Load(c, x, "x_store") /\ UNCHANGED <<sharing, x, y, offset, fbmem, printed, raced>>
          BY <1>5 DEF x_load, history
    <2>2. Within(c) /\ call'[c].at = "x_store" /\ call'[c].text = call[c].text /\ call'[c].reg = x
          BY <1>1, <2>1 DEF Within, Load, Call
    <2>3. ch # Newline /\ Fits(old, x, y) /\ Shows(fbmem, new, n - Row(n))
          BY <2>1 DEF Doing, At
    <2> HIDE DEF old, ch, n, new
    <2>4. Doing(c, done)'
          BY <2>1, <2>2, <2>3 DEF Doing, Fits, old, ch, n, new
    <2> QED BY <2>2, <2>4, StaysShown
<1>6. CASE x_store(c)
    <2>1. /\ At(c, "x_store") /\ Go(c, "x_test") /\ x' = call[c].reg + 1
          /\ UNCHANGED <<sharing, y, offset, fbmem, printed, raced>>
          BY <1>6 DEF x_store
    <2>2. Within(c) /\ call'[c].at = "x_test" /\ call'[c].text = call[c].text
          BY <1>1, <2>1 DEF Within, Go, Call
    <2>3. ch # Newline /\ Fits(old, x, y) /\ Shows(fbmem, new, n - Row(n)) /\ call[c].reg = x
          BY <2>1 DEF Doing, At
    <2>4. x' = Len(old[n]) + 1 /\ y' = Row(n)
          BY <2>1, <2>3 DEF Fits
    <2> HIDE DEF old, ch, n, new
    <2>5. Doing(c, done)'
          BY <2>1, <2>2, <2>3, <2>4 DEF Doing, old, ch, n, new
    <2> QED BY <2>2, <2>5, StaysShown
<1>7. CASE x_test(c)
    <2> DEFINE to == IF x > Width THEN "y_load" ELSE "offset_load"
    <2>1. At(c, "x_test") /\ Go(c, to) /\ UNCHANGED <<sharing, x, y, offset, fbmem, printed, raced>>
          BY <1>7 DEF x_test, history
    <2>2. Within(c) /\ call'[c].at = to /\ call'[c].text = call[c].text
          BY <1>1, <2>1 DEF Within, Go, Call
    <2>3. ch # Newline /\ x = Len(old[n]) + 1 /\ y = Row(n) /\ Shows(fbmem, new, n - Row(n))
          BY <2>1 DEF Doing, At
    <2> HIDE DEF old, ch, n, new
    <2>4. CASE x > Width
        <3>1. Len(new) = n + 1 /\ new[n + 1] = <<>>
              BY <1>2, <1>3, <2>3, <2>4
        <3>2. Doing(c, done)'
              BY <2>1, <2>2, <2>3, <2>4, <3>1 DEF Doing, old, ch, n, new
        <3> QED BY <2>2, <3>2, StaysShown
    <2>5. CASE ~(x > Width)
        <3>1. Len(new) = n /\ Len(new[n]) = x
              BY <1>2, <1>3, <2>3, <2>5
        <3>2. Fits(new, x, y) /\ Shows(fbmem, new, Len(new) - y)
              BY <2>3, <3>1 DEF Fits
        <3>3. call'[c].at = "offset_load"
              BY <2>2, <2>5
        <3>4. Doing(c, done)'
              BY <2>1, <2>2, <3>2, <3>3 DEF Doing, Fits, old, ch, n, new
        <3> QED BY <2>2, <3>4, StaysShown
    <2> QED BY <2>4, <2>5
<1> QED BY <1>4, <1>5, <1>6, <1>7

\* fb_newline: y++, x = 0 and the test.
LEMMA NewlineShown ==
    ASSUME CallTypes, ~raced, fbmem = [k \in Cells |-> fbmem[k]],
           NEW c \in Callers, NEW done \in Seq(Char),
           Alone(c), printed = done \o call[c].text, Doing(c, done),
           y_load(c) \/ y_store(c) \/ x_reset(c) \/ y_test(c)
    PROVE  ShowInv'
<1> DEFINE old == Lines(done)
           ch == Head(call[c].text)
           new == Put(old, ch)
           n == Len(old)
<1>1. /\ call[c].at # "out" /\ call \in [Callers -> Call]
      /\ call[c].text \in Seq(Char) /\ call[c].text # <<>>
      BY DEF Alone, CallTypes, Call
<1>2. /\ ch \in Char /\ old \in Paper /\ n \in Nat \ {0} /\ Len(old[n]) \in Nat
      /\ Row(n) \in Nat /\ n - Row(n) \in Nat \ {0} /\ Height \in Nat \ {0} /\ Width \in Nat \ {0}
    <2>1. old = Lines(done) /\ n = Len(old)
          OBVIOUS
    <2>2. ch \in Char
          BY <1>1, HeadMoves
    <2> HIDE DEF old, ch, n, new
    <2> QED BY <2>1, <2>2, NextLines
<1> DEFINE Breaks == Len(new) = n + 1 /\ new[n + 1] = <<>> /\ Shows(fbmem, new, n - Row(n))
<1>3. CASE y_load(c)
    <2>1. At(c, "y_load") /\ Load(c, y, "y_store") /\ UNCHANGED <<sharing, x, y, offset, fbmem, printed, raced>>
          BY <1>3 DEF y_load, history
    <2>2. Within(c) /\ call'[c].at = "y_store" /\ call'[c].text = call[c].text /\ call'[c].reg = y
          BY <1>1, <2>1 DEF Within, Load, Call
    <2>3. Breaks /\ y = Row(n)
          BY <2>1 DEF Doing, At
    <2> HIDE DEF old, ch, n, new
    <2>4. Doing(c, done)'
          BY <2>1, <2>2, <2>3 DEF Doing, old, ch, n, new
    <2> QED BY <2>2, <2>4, StaysShown
<1>4. CASE y_store(c)
    <2>1. /\ At(c, "y_store") /\ Go(c, "x_reset") /\ y' = call[c].reg + 1
          /\ UNCHANGED <<sharing, x, offset, fbmem, printed, raced>>
          BY <1>4 DEF y_store
    <2>2. Within(c) /\ call'[c].at = "x_reset" /\ call'[c].text = call[c].text
          BY <1>1, <2>1 DEF Within, Go, Call
    <2>3. Breaks /\ y = Row(n) /\ call[c].reg = y
          BY <2>1 DEF Doing, At
    <2>4. y' = Row(n) + 1
          BY <2>1, <2>3
    <2> HIDE DEF old, ch, n, new
    <2>5. Doing(c, done)'
          BY <2>1, <2>2, <2>3, <2>4 DEF Doing, old, ch, n, new
    <2> QED BY <2>2, <2>5, StaysShown
<1>5. CASE x_reset(c)
    <2>1. At(c, "x_reset") /\ Go(c, "y_test") /\ x' = 0 /\ UNCHANGED <<sharing, y, offset, fbmem, printed, raced>>
          BY <1>5 DEF x_reset
    <2>2. Within(c) /\ call'[c].at = "y_test" /\ call'[c].text = call[c].text
          BY <1>1, <2>1 DEF Within, Go, Call
    <2>3. Breaks /\ y = Row(n) + 1
          BY <2>1 DEF Doing, At
    <2> HIDE DEF old, ch, n, new
    <2>4. Doing(c, done)'
          BY <2>1, <2>2, <2>3 DEF Doing, old, ch, n, new
    <2> QED BY <2>2, <2>4, StaysShown
<1>6. CASE y_test(c)
    <2> DEFINE to == IF y > Height THEN "roll" ELSE "offset_load"
    <2>1. At(c, "y_test") /\ Go(c, to) /\ UNCHANGED <<sharing, x, y, offset, fbmem, printed, raced>>
          BY <1>6 DEF y_test, history
    <2>2. Within(c) /\ call'[c].at = to /\ call'[c].text = call[c].text
          BY <1>1, <2>1 DEF Within, Go, Call
    <2>3. Breaks /\ y = Row(n) + 1 /\ x = 0
          BY <2>1 DEF Doing, At
    <2> HIDE DEF old, ch, n, new
    <2>4. CASE y > Height
        <3>1. call'[c].at = "roll"
              BY <2>2, <2>4
        <3>2. Doing(c, done)'
              BY <2>1, <2>3, <2>4, <2>2, <3>1 DEF Doing, old, ch, n, new
        <3> QED BY <2>2, <3>2, StaysShown
    <2>5. CASE ~(y > Height)
        <3>1. call'[c].at = "offset_load"
              BY <2>2, <2>5
        <3>2. Row(n + 1) = y /\ Len(new) - y = n - Row(n)
            <4>1. n <= Height
                  BY <1>2, <2>3, <2>5 DEF Row
            <4>2. Row(n) = n - 1 /\ Row(n + 1) = n
                  BY <1>2, <4>1 DEF Row
            <4> QED BY <1>2, <2>3, <4>2
        <3>3. Len(<<>>) = 0
              OBVIOUS
        <3>4. Fits(new, x, y) /\ Shows(fbmem, new, Len(new) - y)
              BY <2>3, <3>2, <3>3 DEF Fits
        <3>5. Doing(c, done)'
              BY <2>1, <2>2, <3>1, <3>4 DEF Doing, Fits, old, ch, n, new
        <3> QED BY <2>2, <3>5, StaysShown
    <2> QED BY <2>4, <2>5
<1> QED BY <1>3, <1>4, <1>5, <1>6

\* fb_roll and y--.
LEMMA RollShown ==
    ASSUME CallTypes, ~raced, fbmem = [k \in Cells |-> fbmem[k]],
           NEW c \in Callers, NEW done \in Seq(Char),
           Alone(c), printed = done \o call[c].text, Doing(c, done),
           fb_roll(c) \/ y_reload(c) \/ y_restore(c)
    PROVE  ShowInv'
<1> DEFINE old == Lines(done)
           ch == Head(call[c].text)
           new == Put(old, ch)
           n == Len(old)
<1>1. /\ call[c].at # "out" /\ call \in [Callers -> Call]
      /\ call[c].text \in Seq(Char) /\ call[c].text # <<>>
      BY DEF Alone, CallTypes, Call
<1>2. /\ ch \in Char /\ old \in Paper /\ n \in Nat \ {0} /\ Len(old[n]) \in Nat
      /\ Row(n) \in Nat /\ n - Row(n) \in Nat \ {0} /\ Height \in Nat \ {0} /\ Width \in Nat \ {0}
    <2>1. old = Lines(done) /\ n = Len(old)
          OBVIOUS
    <2>2. ch \in Char
          BY <1>1, HeadMoves
    <2> HIDE DEF old, ch, n, new
    <2> QED BY <2>1, <2>2, NextLines
<1> DEFINE Breaks == Len(new) = n + 1 /\ new[n + 1] = <<>>
           Rolled == Breaks /\ y = Height + 1 /\ n > Height /\ x = 0 /\ Shows(fbmem, new, Len(new) - Height)
<1>3. CASE fb_roll(c)
    <2> DEFINE rolled == [k \in Cells |-> CASE k \div Width < Height -> fbmem[k + Width]
                                            [] k \div Width = Height -> Blank
                                            [] OTHER -> fbmem[k]]
    <2>1. At(c, "roll") /\ Go(c, "y_reload") /\ fbmem' = rolled /\ UNCHANGED <<sharing, x, y, offset, printed, raced>>
          BY <1>3 DEF fb_roll, history
    <2>2. Within(c) /\ call'[c].at = "y_reload" /\ call'[c].text = call[c].text
        <3>1. fbmem' = [k \in Cells |-> fbmem'[k]]
              BY <2>1
        <3> QED BY <1>1, <2>1, <3>1 DEF Within, Go, Call
    <2>3. Breaks /\ y = Row(n) + 1 /\ x = 0 /\ y > Height /\ Shows(fbmem, new, n - Row(n))
          BY <2>1 DEF Doing, At
    <2> HIDE DEF old, ch, n, new, rolled
    <2>4. Row(n) = Height /\ n > Height
          BY <1>2, <2>3 DEF Row
    <2> DEFINE top == n - Height
    <2>5. top \in Nat \ {0} /\ Len(new) = top + Height + 1 /\ new[Len(new)] = <<>> /\ top + 1 = Len(new) - Height
          BY <1>2, <2>3, <2>4
    <2>6. Shows(fbmem, new, top)
          BY <2>3, <2>4
    <2> HIDE DEF top
    <2>7. Shows(rolled, new, top + 1)
          BY <2>5, <2>6, RollScreen DEF rolled
    <2>8. Doing(c, done)'
          BY <1>2, <2>1, <2>2, <2>3, <2>4, <2>5, <2>7 DEF Doing, old, ch, n, new
    <2> QED BY <2>2, <2>8, StaysShown
<1>4. CASE y_reload(c)
    <2>1. At(c, "y_reload") /\ Load(c, y, "y_restore") /\ UNCHANGED <<sharing, x, y, offset, fbmem, printed, raced>>
          BY <1>4 DEF y_reload, history
    <2>2. Within(c) /\ call'[c].at = "y_restore" /\ call'[c].text = call[c].text /\ call'[c].reg = y
          BY <1>1, <2>1 DEF Within, Load, Call
    <2>3. Rolled
          BY <2>1 DEF Doing, At
    <2> HIDE DEF old, ch, n, new
    <2>4. Doing(c, done)'
          BY <2>1, <2>2, <2>3 DEF Doing, old, ch, n, new
    <2> QED BY <2>2, <2>4, StaysShown
<1>5. CASE y_restore(c)
    <2>1. /\ At(c, "y_restore") /\ Go(c, "offset_load") /\ y' = call[c].reg - 1
          /\ UNCHANGED <<sharing, x, offset, fbmem, printed, raced>>
          BY <1>5 DEF y_restore
    <2>2. Within(c) /\ call'[c].at = "offset_load" /\ call'[c].text = call[c].text
          BY <1>1, <2>1 DEF Within, Go, Call
    <2>3. Rolled /\ call[c].reg = y
          BY <2>1 DEF Doing, At
    <2> HIDE DEF old, ch, n, new
    <2>4. y' = Height /\ Row(n + 1) = Height
          BY <1>2, <2>1, <2>3 DEF Row
    <2>5. Len(<<>>) = 0
          OBVIOUS
    <2>6. Fits(new, x', y') /\ Shows(fbmem', new, Len(new) - y')
          BY <2>1, <2>3, <2>4, <2>5 DEF Fits
    <2>7. Doing(c, done)'
          BY <2>1, <2>2, <2>6 DEF Doing, Fits, old, ch, n, new
    <2> QED BY <2>2, <2>7, StaysShown
<1> QED BY <1>3, <1>4, <1>5

\* fb_update_offset, after which the character is done.
LEMMA OffsetShown ==
    ASSUME CallTypes, ~raced, fbmem = [k \in Cells |-> fbmem[k]],
           NEW c \in Callers, NEW done \in Seq(Char),
           Alone(c), printed = done \o call[c].text, Doing(c, done),
           offset_load(c) \/ offset_add(c) \/ fb_update_offset(c)
    PROVE  ShowInv'
<1> DEFINE old == Lines(done)
           ch == Head(call[c].text)
           new == Put(old, ch)
           n == Len(old)
<1>1. call[c].at # "out" /\ call \in [Callers -> Call] /\ call[c].text \in Seq(Char) /\ call[c].text # <<>>
      BY DEF Alone, CallTypes, Call
<1>2. ch \in Char /\ Append(done, ch) \in Seq(Char)
      BY <1>1, HeadMoves
<1>3. CASE offset_load(c)
    <2>1. /\ At(c, "offset_load") /\ Load(c, y * Width, "offset_add")
          /\ UNCHANGED <<sharing, x, y, offset, fbmem, printed, raced>>
          BY <1>3 DEF offset_load, history
    <2>2. Within(c) /\ call'[c].at = "offset_add" /\ call'[c].text = call[c].text /\ call'[c].reg = y * Width
          BY <1>1, <2>1 DEF Within, Load, Call
    <2>3. Fits(new, x, y) /\ Shows(fbmem, new, Len(new) - y)
          BY <2>1 DEF Doing, At
    <2> HIDE DEF old, ch, n, new
    <2>4. Doing(c, done)'
          BY <2>1, <2>2, <2>3 DEF Doing, Fits, old, ch, n, new
    <2> QED BY <2>2, <2>4, StaysShown
<1>5. CASE offset_add(c)
    <2>1. /\ At(c, "offset_add") /\ Load(c, call[c].reg + x, "offset_store")
          /\ UNCHANGED <<sharing, x, y, offset, fbmem, printed, raced>>
          BY <1>5 DEF offset_add, history
    <2>5. call[c].reg = y * Width
          BY <2>1 DEF Doing, At
    <2>2. Within(c) /\ call'[c].at = "offset_store" /\ call'[c].text = call[c].text /\ call'[c].reg = y * Width + x
          BY <1>1, <2>1, <2>5 DEF Within, Load, Call
    <2>3. Fits(new, x, y) /\ Shows(fbmem, new, Len(new) - y)
          BY <2>1 DEF Doing, At
    <2> HIDE DEF old, ch, n, new
    <2>4. Doing(c, done)'
          BY <2>1, <2>2, <2>3 DEF Doing, Fits, old, ch, n, new
    <2> QED BY <2>2, <2>4, StaysShown
<1>4. CASE fb_update_offset(c)
    <2>1. At(c, "offset_store") /\ Done(c) /\ offset' = call[c].reg /\ UNCHANGED <<sharing, x, y, fbmem, printed, raced>>
          BY <1>4 DEF fb_update_offset, history
    <2>2. Fits(new, x, y) /\ Shows(fbmem, new, Len(new) - y) /\ call[c].reg = y * Width + x
          BY <2>1 DEF Doing, At
    <2> HIDE DEF ch
    <2>3. PICK more \in Seq(Char) : more = Append(done, ch)
          BY <1>2
    <2>4. new = Lines(more)
        <3>1. old = Lines(done) /\ n = Len(old)
              OBVIOUS
        <3> HIDE DEF old, n
        <3> QED BY <1>2, <2>3, <3>1, NextLines
    <2> HIDE DEF new
    <2>5. Synced(more)'
          BY <2>1, <2>2, <2>4 DEF Synced, Fits
    <2>6. /\ more \in Seq(Char) /\ printed = more \o Tail(call[c].text)
          /\ Len(call[c].text) = 1 => printed = more
          BY <1>1, <2>3, HeadMoves DEF ch
    <2>7. fbmem' = [k \in Cells |-> fbmem'[k]]
          BY <2>1
    <2>8. CASE Len(call[c].text) = 1
        <3>1. call' = [call EXCEPT ![c] = Idle]
              BY <2>1, <2>8 DEF Done
        <3>2. AtRest'
              BY <1>1, <3>1 DEF AtRest, Alone, Idle, Callers
        <3> QED BY <2>1, <2>5, <2>6, <2>7, <2>8, <3>2 DEF ShowInv
    <2>9. CASE Len(call[c].text) # 1
        <3> DEFINE next == [at |-> "char", text |-> Tail(call[c].text), reg |-> 0]
        <3>1. call' = [call EXCEPT ![c] = next]
              BY <2>1, <2>9 DEF Done
        <3>2. call'[c] = next /\ \A d \in Callers \ {c} : call'[d] = call[d]
              BY <1>1, <3>1
        <3>3. call'[c].at = "char" /\ call'[c].text = Tail(call[c].text)
              BY <3>2
        <3>4. Alone(c)' /\ printed' = more \o call'[c].text
              BY <2>1, <2>6, <3>2, <3>3 DEF Alone
        <3>5. Doing(c, more)'
              BY <2>5, <3>3 DEF Doing
        <3> QED BY <2>1, <2>6, <2>7, <3>4, <3>5 DEF ShowInv
    <2> QED BY <2>8, <2>9
<1> QED BY <1>3, <1>4, <1>5

\* A printf begins, and no other is under way.
LEMMA PrintfShown ==
    ASSUME CallTypes, ShowInv, NEW c \in Callers, NEW text \in Texts, printf(c, text), ~raced'
    PROVE  ShowInv'
<1> DEFINE new == [Idle EXCEPT !.at = "char", !.text = Expand(text)]
<1>1. /\ ~raced /\ AtRest /\ call' = [call EXCEPT ![c] = new] /\ printed' = printed \o Expand(text)
      /\ UNCHANGED <<x, y, offset, fbmem>>
      BY DEF printf, AtRest
<1>2. call'[c].at = "char" /\ call'[c].text = Expand(text) /\ \A d \in Callers \ {c} : call'[d] = call[d]
      BY <1>1 DEF Idle, CallTypes
<1>3. \A d \in Callers : ~Alone(d)
      BY <1>1 DEF AtRest, Alone
<1>4. fbmem = [k \in Cells |-> fbmem[k]] /\ printed \in Seq(Char) /\ Synced(printed)
      BY <1>1, <1>3 DEF ShowInv
<1>5. PICK done \in Seq(Char) : done = printed
      BY <1>4
<1>6. Alone(c)' /\ printed' = done \o call'[c].text
      BY <1>1, <1>2, <1>5 DEF Alone, AtRest
<1>7. Synced(done)'
      BY <1>1, <1>4, <1>5 DEF Synced
<1>8. Doing(c, done)'
      BY <1>2, <1>7 DEF Doing
<1> QED BY <1>1, <1>4, <1>6, <1>8 DEF ShowInv

\* Every step keeps the invariant.
LEMMA StepShow == Inv /\ ShowInv /\ [Next]_vars => ShowInv'
<1> SUFFICES ASSUME Inv, ShowInv, [Next]_vars, ~raced' PROVE ShowInv'
    BY DEF ShowInv
<1>1. CallTypes
      BY DEF Inv
<1>2. CASE Next
    <2>1. PICK c \in Callers :
             \/ \E text \in Texts : printf(c, text)
             \/ fb_putchar(c) \/ x_load(c) \/ x_store(c) \/ x_test(c)
             \/ y_load(c) \/ y_store(c) \/ x_reset(c) \/ y_test(c)
             \/ fb_roll(c) \/ y_reload(c) \/ y_restore(c)
             \/ offset_load(c) \/ offset_add(c) \/ fb_update_offset(c)
          BY <1>2, Zenon DEF Next
    <2>2. CASE \E text \in Texts : printf(c, text)
          BY <1>1, <2>2, PrintfShown
    <2>3. CASE ~\E text \in Texts : printf(c, text)
        <3>1. /\ \E from \in Steps \ {"out"} : At(c, from)
              /\ raced' = raced
              BY <2>1, <2>3 DEF fb_putchar, x_load, x_store, x_test, y_load, y_store, x_reset, y_test,
                 fb_roll, y_reload, y_restore, offset_load, offset_add, fb_update_offset, history, Steps
        <3>2. call[c].at # "out" /\ ~raced
              BY <3>1 DEF At
        <3>3. fbmem = [k \in Cells |-> fbmem[k]]
              BY <3>2 DEF ShowInv
        <3>4. PICK d \in Callers, done \in Seq(Char) :
                 Alone(d) /\ printed = done \o call[d].text /\ Doing(d, done)
              BY <3>2 DEF ShowInv, AtRest
        <3>5. c = d
              BY <3>2, <3>4 DEF Alone
        <3> QED BY <1>1, <2>1, <2>3, <3>2, <3>3, <3>4, <3>5, XShown, NewlineShown, RollShown, OffsetShown
    <2> QED BY <2>2, <2>3
<1>3. CASE UNCHANGED vars
    <2>1. UNCHANGED <<x, y, offset, fbmem, call, printed, raced>>
          BY <1>3 DEF vars, history
    <2>2. ASSUME NEW text, Synced(text) PROVE Synced(text)'
          BY <2>1, <2>2 DEF Synced
    <2>3. ASSUME NEW c, NEW done, Doing(c, done) PROVE Doing(c, done)'
        <3>1. Synced(done) => Synced(done)'
              BY <2>2
        <3> QED BY <2>1, <2>3, <3>1 DEF Doing, Fits
    <2>4. CASE AtRest /\ printed \in Seq(Char) /\ Synced(printed)
        <3>1. PICK text \in Seq(Char) : text = printed
              BY <2>4
        <3>2. Synced(text)' /\ printed' = text
              BY <2>1, <2>2, <2>4, <3>1
        <3>3. Synced(printed)'
              BY <3>2 DEF Synced
        <3> QED BY <2>1, <2>4, <3>3 DEF ShowInv, AtRest
    <2>5. CASE \E c \in Callers, done \in Seq(Char) :
                  Alone(c) /\ printed = done \o call[c].text /\ Doing(c, done)
          BY <2>1, <2>3, <2>5 DEF ShowInv, Alone
    <2> QED BY <2>1, <2>4, <2>5 DEF ShowInv
<1> QED BY <1>2, <1>3

\* On a screen of any size, and for texts of any length, the screen shows the last lines
\* of what was printed, each in its row, as long as one printf ran at a time; an empty cell
\* is blank, but in the line that came into the row fb_clear leaves out.
\* (fb_putchar, fb_newline, fb_roll, fb_update_offset.)
THEOREM ScreenAlwaysShowsText == Spec => []ScreenShowsText
<1>1. ShowInv => ScreenShowsText
    <2> SUFFICES ASSUME ShowInv, AtRest, ~raced
                 PROVE  LET lines == Lines(printed)
                        IN  Shows(fbmem, lines, IF Len(lines) > Height + 1 THEN Len(lines) - Height ELSE 1)
        BY DEF ScreenShowsText
    <2> DEFINE lines == Lines(printed)
               n == Len(lines)
    <2>1. printed \in Seq(Char) /\ Synced(printed)
          BY DEF ShowInv, AtRest, Alone
    <2>2. lines \in Paper
          BY <2>1, LinesAppend DEF Char
    <2>3. n \in Nat \ {0}
          BY <2>2 DEF Paper
    <2>4. Shows(fbmem, lines, n - y) /\ y = Row(n)
          BY <2>1 DEF Synced, Fits
    <2> HIDE DEF lines
    <2>5. n - Row(n) = IF n > Height + 1 THEN n - Height ELSE 1
          BY <2>3, ConsoleAssumption DEF Row
    <2> QED BY <2>4, <2>5 DEF lines
<1> QED BY <1>1, InitInv, NextInv, InitShow, StepShow, PTL DEF Spec

=============================================================================
