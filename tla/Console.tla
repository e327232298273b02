------------------------------- MODULE Console -------------------------------
(***************************************************************************)
(* The text console, drivers/fb.c, under printf.  frame_get prints, so that *)
(* malloc prints, in threads and in the mouse's interrupt: one printf may   *)
(* be interrupted by another whole one, or two threads may print in turns.  *)
(* Each access to x, y and offset is a step (the build does not optimise).  *)
(*                                                                          *)
(* offset counts cells of a character and its colour, which is always the   *)
(* same.  height is 24 for 25 rows: it is the number of the last one.       *)
(***************************************************************************)
EXTENDS Integers, Sequences, SequencesExt

CONSTANTS Width,      \* width, 80
          Height,     \* height, 24
          Texts,      \* what printf is called with, after formatting
          Sharings,   \* subset of {"interrupt", "threads"}
          MaxPrinted  \* bound on the characters printed

Blank == " "
Leftover == "what was there"
Newline == "\n"
Tab == "\t"
Callers == {"first", "second"}

ASSUME ConsoleAssumption == /\ {Width, Height, MaxPrinted} \subseteq Nat \ {0}
                            /\ \A text \in Texts : text \in Seq(STRING) /\ text # <<>>
                            /\ Sharings \subseteq {"interrupt", "threads"}

VARIABLES sharing,    \* how the second printf comes into the first
          x, y, offset,
          fbmem,      \* cell -> character
          call,       \* of each caller: at, the text left, and a register
          count,      \* characters printed so far
          printed,    \* history: the text, as long as one printf ran at a time
          raced,      \* history: two were in progress at a time
          crossed     \* history: x or y was stored within an update of it

history == <<count, printed, raced, crossed>>
vars == <<sharing, x, y, offset, fbmem, call, history>>

\* The rows of the screen, and those behind it that a store may reach.
Rows == 0 .. Height
Cells == 0 .. (Height + 4) * Width

Idle == [at |-> "out", text |-> <<>>, reg |-> 0]

\* An interrupt's printf is done before the thread it interrupted goes on.
At(c, from) == /\ call[c].at = from
               /\ sharing = "interrupt" /\ c = "first" => call["second"].at = "out"

Go(c, to) == call' = [call EXCEPT ![c].at = to]
Load(c, v, to) == call' = [call EXCEPT ![c].at = to, ![c].reg = v]

\* (variant) the end of the text is passed
Done_past(c) == call' = [call EXCEPT ![c] = [at |-> "char", text |-> Tail(@.text), reg |-> 0]]

\* The character is done: printf goes on with the next.
Done(c) == call' = [call EXCEPT ![c] = IF Len(@.text) = 1 THEN Idle
                                       ELSE [at |-> "char", text |-> Tail(@.text), reg |-> 0]]

\* c stores what another caller has loaded and is about to store.
Crosses(c, stores) == \E d \in Callers \ {c} : call[d].at \in stores

\* A thread's update of x or y undid the other's.
Lost == sharing = "threads" /\ crossed

-----------------------------------------------------------------------------
\* fb(), with fb_clear and fb_gotoxy(0, 0).  buff_size is height rows, so the
\* last row keeps what was there.
fb == /\ sharing \in Sharings
      /\ x = 0 /\ y = 0 /\ offset = 0
      /\ fbmem = [k \in Cells |-> IF k \div Width < Height THEN Blank ELSE Leftover]
      /\ call = [c \in Callers |-> Idle]
      /\ count = 0 /\ printed = <<>> /\ raced = FALSE /\ crossed = FALSE

\* fb_putchar puts three blanks for a tab
Expand(text) == FlattenSeq([k \in DOMAIN text |->
                              IF text[k] = Tab THEN <<Blank, Blank, Blank>> ELSE <<text[k]>>])

printf(c, text) ==
    LET alone == \A d \in Callers : call[d].at = "out"
    IN  /\ At(c, "out")
        /\ count + Len(Expand(text)) <= MaxPrinted
        /\ call' = [call EXCEPT ![c] = [Idle EXCEPT !.at = "char", !.text = Expand(text)]]
        /\ count' = count + Len(Expand(text))
        /\ printed' = IF alone /\ ~raced THEN printed \o Expand(text) ELSE <<>>
        /\ raced' = (raced \/ ~alone)
        /\ UNCHANGED <<sharing, x, y, offset, fbmem, crossed>>

\* fbmem[offset] = c, or on to fb_newline
fb_putchar(c) ==
    /\ At(c, "char")
    /\ IF Head(call[c].text) = Newline
       THEN Go(c, "y_load") /\ UNCHANGED fbmem
       ELSE Go(c, "x_load") /\ fbmem' = [fbmem EXCEPT ![offset] = Head(call[c].text)]
    /\ UNCHANGED <<sharing, x, y, offset, history>>

\* x++
x_load(c) == /\ At(c, "x_load")
             /\ Load(c, x, "x_store")
             /\ UNCHANGED <<sharing, x, y, offset, fbmem, history>>

x_store(c) == /\ At(c, "x_store")
              /\ x' = call[c].reg + 1
              /\ Go(c, "x_test")
              /\ crossed' = (crossed \/ Crosses(c, {"x_store"}))
              /\ UNCHANGED <<sharing, y, offset, fbmem, count, printed, raced>>

\* if( x > width ) fb_newline()
x_test(c) == /\ At(c, "x_test")
             /\ Go(c, IF x > Width THEN "y_load" ELSE "offset_load")
             /\ UNCHANGED <<sharing, x, y, offset, fbmem, history>>

\* fb_newline: y++
y_load(c) == /\ At(c, "y_load")
             /\ Load(c, y, "y_store")
             /\ UNCHANGED <<sharing, x, y, offset, fbmem, history>>

y_store(c) == /\ At(c, "y_store")
              /\ y' = call[c].reg + 1
              /\ Go(c, "x_reset")
              /\ crossed' = (crossed \/ Crosses(c, {"y_store", "y_restore"}))
              /\ UNCHANGED <<sharing, x, offset, fbmem, count, printed, raced>>

x_reset(c) == /\ At(c, "x_reset")
              /\ x' = 0
              /\ Go(c, "y_test")
              /\ crossed' = (crossed \/ Crosses(c, {"x_store"}))
              /\ UNCHANGED <<sharing, y, offset, fbmem, count, printed, raced>>

\* if( y > height ) { fb_roll(); y--; }
y_test(c) == /\ At(c, "y_test")
             /\ Go(c, IF y > Height THEN "roll" ELSE "offset_load")
             /\ UNCHANGED <<sharing, x, y, offset, fbmem, history>>

\* (variant) the last row is copied and not cleared
fb_roll_keep(c) == /\ At(c, "roll")
                   /\ fbmem' = [k \in Cells |-> IF k \div Width < Height THEN fbmem[k + Width]
                                                ELSE fbmem[k]]
                   /\ Go(c, "y_reload")
                   /\ UNCHANGED <<sharing, x, y, offset, history>>

\* Every row takes the one below it; the last is made blank.
fb_roll(c) == /\ At(c, "roll")
              /\ fbmem' = [k \in Cells |-> CASE k \div Width < Height -> fbmem[k + Width]
                                             [] k \div Width = Height -> Blank
                                             [] OTHER -> fbmem[k]]
              /\ Go(c, "y_reload")
              /\ UNCHANGED <<sharing, x, y, offset, history>>

y_reload(c) == /\ At(c, "y_reload")
               /\ Load(c, y, "y_restore")
               /\ UNCHANGED <<sharing, x, y, offset, fbmem, history>>

\* (variant) the row is not counted back
y_restore_none(c) == /\ At(c, "y_restore")
                     /\ Go(c, "offset_load")
                     /\ UNCHANGED <<sharing, x, y, offset, fbmem, history>>

y_restore(c) == /\ At(c, "y_restore")
                /\ y' = call[c].reg - 1
                /\ Go(c, "offset_load")
                /\ crossed' = (crossed \/ Crosses(c, {"y_store", "y_restore"}))
                /\ UNCHANGED <<sharing, x, offset, fbmem, count, printed, raced>>

\* fb_update_offset: offset = y * line_size + x * cell_size
offset_load(c) == /\ At(c, "offset_load")
                  /\ Load(c, y * Width, "offset_add")
                  /\ UNCHANGED <<sharing, x, y, offset, fbmem, history>>

offset_add(c) == /\ At(c, "offset_add")
                 /\ Load(c, call[c].reg + x, "offset_store")
                 /\ UNCHANGED <<sharing, x, y, offset, fbmem, history>>

fb_update_offset(c) == /\ At(c, "offset_store")
                       /\ offset' = call[c].reg
                       /\ Done(c)
                       /\ UNCHANGED <<sharing, x, y, fbmem, history>>

\* Once an update of x or y is lost the cursor may drift off the screen, further
\* with every such loss; the behaviour ends there.
Next == /\ ~Lost
        /\ \E c \in Callers :
           \/ \E text \in Texts : printf(c, text)
           \/ fb_putchar(c)
           \/ x_load(c) \/ x_store(c) \/ x_test(c)
           \/ y_load(c) \/ y_store(c) \/ x_reset(c) \/ y_test(c)
           \/ fb_roll(c) \/ y_reload(c) \/ y_restore(c)
           \/ offset_load(c) \/ offset_add(c) \/ fb_update_offset(c)

Spec == fb /\ [][Next]_vars

-----------------------------------------------------------------------------
(* Properties.                                                              *)

AtRest == \A c \in Callers : call[c].at = "out"

\* However two printf interleave, x, y and every store stay within a few cells
\* and rows of the screen, which is still video memory, and no printf runs past
\* the end of its text.
TypeOK == /\ ~Lost => x \in 0 .. Width + 2 /\ y \in 0 .. Height + 2 /\ offset \in Cells
          /\ \A c \in Callers : /\ call[c].reg \in Nat
                                /\ call[c].at = "out" <=> call[c].text = <<>>

\* After a printf that an interrupt's printf came into anywhere, an update of x
\* or y included, the cursor is on the screen again; so it is after two threads'
\* that overlap, unless one's update falls into the other's: only that can leave
\* it below the last row, where nothing printed is seen.  (x = Width, one column
\* behind the last, is where a full line leaves it until the next character
\* breaks the line.  fb_newline, fb_putchar.)
CursorOnScreen == AtRest /\ ~Lost => x <= Width /\ y <= Height

\* c behind the last line.  A line that reaches Width + 1 characters is broken
\* there.
Put(lines, c) ==
    LET line == Append(Last(lines), c)
    IN  CASE c = Newline -> Append(lines, <<>>)
          [] c # Newline /\ Len(line) > Width ->
                Append([lines EXCEPT ![Len(lines)] = line], <<>>)
          [] OTHER -> [lines EXCEPT ![Len(lines)] = line]

Lines(text) == FoldLeft(Put, << <<>> >>, text)

\* What an empty cell of line k shows: the row that fb_clear left out is the
\* first that line Height + 1 has; fb_roll blanks the row of every later one.
Empty(k) == IF k = Height + 1 THEN Leftover ELSE Blank

\* mem shows the lines from top on, each in its row.
Shows(mem, lines, top) ==
    LET Shown(r, col) == mem[r * Width + col - 1]
        Broken(k) == k > 1 /\ Len(lines[k - 1]) = Width + 1
    IN  \A r \in Rows, col \in 1 .. Width :
           LET k == top + r
           IN  IF k <= Len(lines) /\ col <= Len(lines[k])
               THEN Shown(r, col) = lines[k][col]
               ELSE \/ Shown(r, col) = Empty(k)
                    \/ /\ k <= Len(lines) /\ col = 1 /\ Broken(k)
                       /\ Shown(r, col) = Last(lines[k - 1])

\* With one printf at a time the screen shows the last lines of the text, each
\* in its row.  What goes beyond a row, the character that breaks its line, is
\* lost, or is left alone in the next row if that line is empty.  What was in the
\* last row before fb() is seen behind the text, and rolls up with the line it is
\* in.  (fb_clear, fb_putchar, fb_newline, fb_roll.)
ScreenShowsText ==
    AtRest /\ ~raced =>
        LET lines == Lines(printed)
        IN  Shows(fbmem, lines, IF Len(lines) > Height + 1 THEN Len(lines) - Height ELSE 1)

=============================================================================
