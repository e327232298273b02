---------------------------- MODULE DesktopProofs ----------------------------
(***************************************************************************)
(* Whatever is typed, clicked and opened, the GUI's state keeps its bounds, *)
(* one window of the desktop is active, and another becomes active only     *)
(* under the pointer: for every archive, screen, layout and number of       *)
(* windows.                                                                  *)
(***************************************************************************)
EXTENDS Desktop, FilesProofs

-----------------------------------------------------------------------------
(* Windows.                                                                 *)

Box == [x : Nat, y : Nat, w : Nat, h : Nat]

IsWindow(v) ==
    /\ v = [f \in {"box", "active", "focus", "text", "from", "chosen"} |-> v[f]]
    /\ v.box \in Box /\ v.active \in BOOLEAN /\ v.focus \in {"none", "edit", "fn"}

Range1(all) == {all[k] : k \in DOMAIN all}

\* all is a list of windows.
IsWindows(all) == /\ all \in Seq(Range1(all))
                  /\ \A k \in 1 .. Len(all) : IsWindow(all[k])

\* w is the active one of them.
ActiveIs(all, w) == /\ w \in 1 .. Len(all)
                    /\ \A k \in 1 .. Len(all) : all[k].active <=> k = w

\* Views take no focus.
NoFocus(all) == \A k \in 2 .. Len(all) : all[k].focus = "none"

\* The same text of the same file of a directory.
SameView(u, v) == u.text = v.text /\ u.from = v.from /\ u.chosen = v.chosen

\* No window opens, and no view changes what it shows.
SameViews == /\ Len(windows') = Len(windows)
             /\ \A k \in 1 .. Len(windows) : SameView(windows'[k], windows[k])

\* One more view, of that text of a file that was chosen in a directory.
ViewAdded(text, from, chosen) ==
    /\ Len(windows') = Len(windows) + 1
    /\ \A k \in 1 .. Len(windows) : SameView(windows'[k], windows[k])
    /\ LET view == windows'[Len(windows) + 1]
       IN  view.text = text /\ view.from = from /\ view.chosen = chosen

\* Before the GUI runs there is no window.
WindowsInv ==
    /\ IsWindows(windows)
    /\ phase \in {"start", "serial", "parse", "parsed", "build", "up"} => windows = <<>>
    /\ phase = "gui" => NoFocus(windows) /\ \E w \in 1 .. Len(windows) : ActiveIs(windows, w)

-----------------------------------------------------------------------------
(* The operators on lists of windows.                                       *)

LEMMA NewWindow ==
    ASSUME NEW box \in Box
    PROVE  IsWindow(window_create(box)) /\ window_create(box).focus = "none"
<1> DEFINE text == [file |-> NULL, len |-> 0]
<1> HIDE DEF text
<1>1. window_create(box) = [box |-> box, active |-> FALSE, focus |-> "none", text |-> text,
                             from |-> NULL, chosen |-> NULL]
      BY DEF window_create, text
<1> QED BY <1>1 DEF IsWindow

LEMMA SetWindowFocus ==
    ASSUME NEW v, IsWindow(v), NEW focus \in {"none", "edit", "fn"}
    PROVE  IsWindow([v EXCEPT !.focus = focus])
  BY DEF IsWindow

LEMMA AppendWindow ==
    ASSUME NEW all, IsWindows(all), NEW v, IsWindow(v)
    PROVE  /\ IsWindows(Append(all, v)) /\ Len(Append(all, v)) = Len(all) + 1
           /\ Append(all, v)[Len(all) + 1] = v
           /\ \A k \in 1 .. Len(all) : Append(all, v)[k] = all[k]
<1> DEFINE S == Range1(all) \cup {v}
           n == Len(all)
           b == Append(all, v)
<1>1. all \in Seq(S) /\ v \in S
      BY DEF IsWindows
<1> HIDE DEF S
<1>2. /\ b \in Seq(S) /\ n \in Nat /\ Len(b) = n + 1 /\ b[n + 1] = v
      /\ \A k \in 1 .. n : b[k] = all[k]
      BY <1>1
<1> HIDE DEF b, n
<1>3. \A k \in 1 .. n + 1 : IsWindow(b[k])
    <2>1. \A k \in 1 .. n : IsWindow(all[k])
          BY DEF IsWindows, n
    <2>2. \A k \in 1 .. n + 1 : k \in 1 .. n \/ k = n + 1
          BY <1>2
    <2> QED BY <1>2, <2>1, <2>2
<1>4. b \in Seq(Range1(b))
      BY <1>2 DEF Range1
<1> QED BY <1>2, <1>3, <1>4 DEF IsWindows, b, n

\* gui_set_active_window makes one window active and changes nothing else.
LEMMA SetActive ==
    ASSUME NEW all, IsWindows(all), NEW w
    PROVE  LET b == gui_set_active_window(all, w)
           IN  /\ IsWindows(b) /\ Len(b) = Len(all)
               /\ \A k \in 1 .. Len(all) : /\ b[k].active <=> k = w
                                           /\ b[k].focus = all[k].focus
                                           /\ b[k].box = all[k].box
                                           /\ SameView(b[k], all[k])
<1> DEFINE n == Len(all)
           b == gui_set_active_window(all, w)
<1>1. n \in Nat /\ DOMAIN all = 1 .. n
      BY DEF IsWindows
<1>2. b = [k \in 1 .. n |-> [all[k] EXCEPT !.active = (k = w)]]
      BY <1>1 DEF gui_set_active_window
<1> HIDE DEF n, b
<1>3. ASSUME NEW k \in 1 .. n
      PROVE  /\ IsWindow(b[k]) /\ (b[k].active <=> k = w)
             /\ b[k].focus = all[k].focus /\ b[k].box = all[k].box /\ SameView(b[k], all[k])
    <2>1. IsWindow(all[k])
          BY DEF IsWindows, n
    <2>2. b[k] = [all[k] EXCEPT !.active = (k = w)]
          BY <1>2
    <2> QED BY <2>1, <2>2 DEF IsWindow, SameView
<1>4. b \in Seq(Range1(b)) /\ Len(b) = n
      BY <1>1, <1>2 DEF Range1
<1> QED BY <1>3, <1>4 DEF IsWindows, b, n

\* widget_set_focus changes a focus and nothing else.
LEMMA SetFocus ==
    ASSUME NEW all, IsWindows(all), NEW w \in 1 .. Len(all), NEW child \in {"edit", "fn"}
    PROVE  LET b == widget_set_focus(all, w, child)
           IN  /\ IsWindows(b) /\ Len(b) = Len(all)
               /\ \A k \in 1 .. Len(all) : /\ b[k].active <=> all[k].active
                                           /\ k # w => b[k].focus = all[k].focus
                                           /\ b[k].box = all[k].box
                                           /\ SameView(b[k], all[k])
<1> DEFINE n == Len(all)
           b == widget_set_focus(all, w, child)
<1>1. n \in Nat /\ DOMAIN all = 1 .. n /\ all = [k \in 1 .. n |-> all[k]]
      BY DEF IsWindows
<1>2. /\ b = [k \in 1 .. n |-> b[k]] /\ b[w] = [all[w] EXCEPT !.focus = child]
      /\ \A k \in 1 .. n : k # w => b[k] = all[k]
      BY <1>1 DEF widget_set_focus
<1>3. w \in 1 .. n
      OBVIOUS
<1> HIDE DEF n, b
<1>4. ASSUME NEW k \in 1 .. n
      PROVE  /\ IsWindow(b[k]) /\ (b[k].active <=> all[k].active)
             /\ k # w => b[k].focus = all[k].focus
             /\ b[k].box = all[k].box /\ SameView(b[k], all[k])
    <2>1. IsWindow(all[k])
          BY DEF IsWindows, n
    <2>2. CASE k = w
          BY <1>2, <2>1, <2>2 DEF IsWindow, SameView
    <2>3. CASE k # w
          BY <1>2, <2>1, <2>3 DEF SameView
    <2> QED BY <2>2, <2>3
<1>5. b \in Seq(Range1(b)) /\ Len(b) = n
      BY <1>1, <1>2 DEF Range1
<1> QED BY <1>4, <1>5 DEF IsWindows, b, n

\* The active window is the one that gui_get_active_window finds.
LEMMA GetActive ==
    ASSUME NEW all, IsWindows(all), NEW w, ActiveIs(all, w)
    PROVE  gui_get_active_window(all) = w
<1>1. {k \in DOMAIN all : all[k].active} = {w}
      BY DEF IsWindows, ActiveIs
<1>2. w <= w
      BY DEF ActiveIs
<1> QED BY <1>1, <1>2 DEF gui_get_active_window

\* What is found under a point is one of the boxes with the point inside.
LEMMA FirstAtIs ==
    ASSUME NEW boxes, DOMAIN boxes \subseteq Nat, NEW x, NEW y, FirstAt(boxes, x, y) # NULL
    PROVE  /\ FirstAt(boxes, x, y) \in DOMAIN boxes
           /\ point_is_inside(boxes[FirstAt(boxes, x, y)], x, y)
<1> DEFINE hits == {k \in DOMAIN boxes : point_is_inside(boxes[k], x, y)}
<1>1. hits # {}
      BY DEF FirstAt
<1>2. hits \subseteq Nat
      OBVIOUS
<1>3. FirstAt(boxes, x, y) = CHOOSE k \in hits : \A j \in hits : k <= j
      BY <1>1 DEF FirstAt
<1> HIDE DEF hits
<1>4. \E k \in hits : \A j \in hits : k <= j
      BY <1>1, <1>2, LeastOf
<1>5. FirstAt(boxes, x, y) \in hits
      BY <1>3, <1>4
<1> QED BY <1>5 DEF hits

-----------------------------------------------------------------------------
(* Steps.                                                                   *)

\* What a step of the running GUI does: the active window stays, is a new one,
\* or is one with the pointer inside.
GuiStep == \E w \in 1 .. Len(windows), v \in 1 .. Len(windows') :
              /\ ActiveIs(windows, w) /\ ActiveIs(windows', v)
              /\ IsWindows(windows') /\ NoFocus(windows')
              /\ v = w \/ v > Len(windows)
                 \/ point_is_inside(windows[v].box, pointer'.x, pointer'.y)

LEMMA SameWindows ==
    ASSUME WindowsInv, phase = "gui", UNCHANGED windows
    PROVE  GuiStep
<1>1. PICK w \in 1 .. Len(windows) : ActiveIs(windows, w)
      BY DEF WindowsInv
<1>2. w \in 1 .. Len(windows') /\ ActiveIs(windows', w) /\ IsWindows(windows') /\ NoFocus(windows')
      BY <1>1 DEF WindowsInv
<1> QED BY <1>1, <1>2 DEF GuiStep

\* A new view lies a little off the active window and becomes active.
LEMMA ViewStep ==
    ASSUME WindowsInv, phase = "gui", NEW file, NEW chosen, text_view(file, chosen)
    PROVE  GuiStep /\ ViewAdded(ReadText(open(file, task)), find(fn.directory), chosen)
<1> DEFINE n == Len(windows)
           at == windows[gui_get_active_window(windows)].box
           box == [x |-> at.x + Shift, y |-> at.y + Shift, w |-> ViewSize.w, h |-> ViewSize.h]
           o == open(file, task)
           from == find(fn.directory)
           wnd == [window_create(box) EXCEPT !.text = ReadText(o), !.from = from, !.chosen = chosen]
           all == widget_set_parent(windows, wnd)
<1>1. PICK w \in 1 .. n : ActiveIs(windows, w)
      BY DEF WindowsInv
<1>2. IsWindows(windows) /\ n \in Nat /\ n >= 1 /\ NoFocus(windows)
      BY <1>1 DEF WindowsInv, IsWindows
<1>3. at = windows[w].box
      BY <1>1, <1>2, GetActive
<1>4. box \in Box
    <2>1. at \in Box
          BY <1>1, <1>2, <1>3 DEF IsWindows, IsWindow
    <2> HIDE DEF at
    <2>2. at.x \in Nat /\ at.y \in Nat
          BY <2>1 DEF Box
    <2>3. Shift \in Nat /\ ViewSize.w \in Nat /\ ViewSize.h \in Nat
          BY DesktopAssumption
    <2>4. at.x + Shift \in Nat /\ at.y + Shift \in Nat
          BY <2>2, <2>3
    <2> QED BY <2>3, <2>4 DEF Box
<1>5. /\ IsWindow(wnd) /\ wnd.focus = "none"
      /\ wnd.text = ReadText(o) /\ wnd.from = from /\ wnd.chosen = chosen
    <2> DEFINE v == window_create(box)
               text == ReadText(o)
               u == [v EXCEPT !.text = text]
               t == [u EXCEPT !.from = from]
    <2>1. IsWindow(v) /\ v.focus = "none"
          BY <1>4, NewWindow
    <2> HIDE DEF v, text, from
    <2>2. IsWindow(u) /\ u.focus = "none" /\ u.text = text
          BY <2>1 DEF IsWindow
    <2>3. wnd = [t EXCEPT !.chosen = chosen]
          BY DEF v, text, from
    <2> HIDE DEF u, wnd
    <2>4. IsWindow(t) /\ t.focus = "none" /\ t.text = text /\ t.from = from
          BY <2>2 DEF IsWindow
    <2> HIDE DEF t
    <2>5. /\ IsWindow(wnd) /\ wnd.focus = "none"
          /\ wnd.text = text /\ wnd.from = from /\ wnd.chosen = chosen
          BY <2>3, <2>4 DEF IsWindow
    <2> QED BY <2>5 DEF text, from
<1>6. windows' = gui_set_active_window(all, n + 1)
      BY DEF text_view
<1> HIDE DEF wnd
<1>7. /\ IsWindows(all) /\ Len(all) = n + 1 /\ all[n + 1] = wnd
      /\ \A k \in 1 .. n : all[k] = windows[k]
      BY <1>2, <1>5, AppendWindow DEF widget_set_parent
<1> HIDE DEF all
<1>8. /\ IsWindows(windows') /\ Len(windows') = n + 1
      /\ \A k \in 1 .. n + 1 : /\ (windows'[k].active <=> k = n + 1) /\ windows'[k].focus = all[k].focus
                                /\ SameView(windows'[k], all[k])
      BY <1>6, <1>7, SetActive
<1> HIDE DEF n
<1>9. NoFocus(windows')
    <2> SUFFICES ASSUME NEW k \in 2 .. n + 1 PROVE windows'[k].focus = "none"
        BY <1>8 DEF NoFocus
    <2>1. CASE k = n + 1
          BY <1>2, <1>5, <1>7, <1>8, <2>1
    <2>2. CASE k \in 2 .. n
          BY <1>2, <1>7, <1>8, <2>2 DEF NoFocus, n
    <2> QED BY <1>2, <2>1, <2>2
<1>10. n + 1 \in 1 .. Len(windows') /\ n + 1 > n /\ ActiveIs(windows', n + 1)
       BY <1>2, <1>8 DEF ActiveIs
<1>11. ViewAdded(wnd.text, wnd.from, wnd.chosen)
    <2>1. \A k \in 1 .. n : SameView(windows'[k], windows[k])
          BY <1>2, <1>7, <1>8
    <2>2. SameView(windows'[n + 1], wnd)
          BY <1>2, <1>7, <1>8
    <2> QED BY <1>8, <2>1, <2>2 DEF ViewAdded, SameView, n
<1>12. GuiStep
       BY <1>1, <1>8, <1>9, <1>10 DEF GuiStep, n
<1> QED BY <1>5, <1>11, <1>12

\* A mouse event of a window: it becomes active or nothing does, and only the
\* explorer's focus may change.
LEMMA EventStep ==
    ASSUME WindowsInv, phase = "gui", NEW w \in 1 .. Len(windows), NEW x, NEW y, NEW left \in BOOLEAN,
           window_mouse_event(w, x, y, left)
    PROVE  /\ IsWindows(windows') /\ Len(windows') = Len(windows) /\ NoFocus(windows') /\ SameViews
           /\ \A u \in 1 .. Len(windows) :
                 ActiveIs(windows, u) => ActiveIs(windows', u) \/ ActiveIs(windows', w)
<1> DEFINE n == Len(windows)
           all == IF left THEN gui_set_active_window(windows, w) ELSE windows
           k == IF w = 1 THEN FirstAt([j \in 1 .. 3 |-> Boxes[Children(1)[j]]], x, y) ELSE NULL
           child == IF k = NULL THEN "none" ELSE Children(1)[k]
<1>1. /\ IsWindows(windows) /\ n \in Nat /\ NoFocus(windows)
      BY DEF WindowsInv, IsWindows
<1>2. windows' = IF left /\ TakesFocus(child) THEN widget_set_focus(all, w, child) ELSE all
      BY DEF window_mouse_event
<1>3. TakesFocus(child) => w = 1 /\ child \in {"edit", "fn"}
      BY DEF TakesFocus
<1> HIDE DEF child, k
<1>4. /\ IsWindows(all) /\ Len(all) = n
      /\ \A j \in 1 .. n : all[j].focus = windows[j].focus /\ SameView(all[j], windows[j])
      /\ \A u \in 1 .. n : ActiveIs(windows, u) => ActiveIs(all, u) \/ ActiveIs(all, w)
    <2>1. CASE left
        <3>1. all = gui_set_active_window(windows, w)
              BY <2>1
        <3> HIDE DEF all
        <3>2. /\ IsWindows(all) /\ Len(all) = n
              /\ \A j \in 1 .. n : /\ (all[j].active <=> j = w) /\ all[j].focus = windows[j].focus
                                    /\ SameView(all[j], windows[j])
              BY <1>1, <3>1, SetActive
        <3> QED BY <3>2 DEF ActiveIs
    <2>2. CASE ~left
          BY <1>1, <2>2 DEF SameView
    <2> QED BY <2>1, <2>2
<1> HIDE DEF all
<1>5. CASE left /\ TakesFocus(child)
    <2>1. w = 1 /\ child \in {"edit", "fn"} /\ w \in 1 .. Len(all)
          BY <1>3, <1>4, <1>5
    <2>2. windows' = widget_set_focus(all, w, child)
          BY <1>2, <1>5
    <2>3. /\ IsWindows(windows') /\ Len(windows') = n
          /\ \A j \in 1 .. n : /\ windows'[j].active <=> all[j].active
                               /\ j # w => windows'[j].focus = all[j].focus
                               /\ SameView(windows'[j], all[j])
          BY <1>4, <2>1, <2>2, SetFocus
    <2>4. NoFocus(windows')
          BY <1>1, <1>4, <2>1, <2>3 DEF NoFocus
    <2>5. \A u \in 1 .. n : ActiveIs(all, u) => ActiveIs(windows', u)
          BY <1>4, <2>3 DEF ActiveIs
    <2>6. SameViews
          BY <1>4, <2>3 DEF SameViews, SameView
    <2> QED BY <1>4, <2>3, <2>4, <2>5, <2>6
<1>6. CASE ~(left /\ TakesFocus(child))
    <2>1. windows' = all
          BY <1>2, <1>6
    <2>2. NoFocus(windows')
          BY <1>1, <1>4, <2>1 DEF NoFocus
    <2>3. SameViews
          BY <1>4, <2>1 DEF SameViews
    <2> QED BY <1>4, <2>1, <2>2, <2>3
<1> QED BY <1>5, <1>6

\* A mouse packet goes to a window that the pointer is in.
LEMMA MouseStep ==
    ASSUME WindowsInv, NEW dx \in Int, NEW dy \in Int, NEW left \in BOOLEAN, gui_mouse(dx, dy, left)
    PROVE  GuiStep /\ SameViews
<1> DEFINE n == Len(windows)
           x == Clamp(pointer.x + dx, Screen.w)
           y == Clamp(pointer.y - dy, Screen.h)
           boxes == [k \in DOMAIN windows |-> windows[k].box]
           active == gui_get_active_window(windows)
           w == IF active # NULL /\ point_is_inside(windows[active].box, x, y) THEN active
                ELSE FirstAt(boxes, x, y)
<1>1. phase = "gui" /\ pointer' = [x |-> x, y |-> y]
      BY DEF gui_mouse
<1>2. PICK u \in 1 .. n : ActiveIs(windows, u)
      BY <1>1 DEF WindowsInv
<1>3. IsWindows(windows) /\ n \in Nat /\ DOMAIN windows = 1 .. n
      BY DEF WindowsInv, IsWindows
<1>4. active = u /\ active # NULL
      BY <1>2, <1>3, GetActive DEF NULL
<1>5. pointer'.x = x /\ pointer'.y = y
      BY <1>1
<1>6. \/ w = NULL /\ UNCHANGED windows
      \/ w # NULL /\ window_mouse_event(w, x - windows[w].box.x, y - windows[w].box.y, left)
      BY <1>4 DEF gui_mouse
<1> HIDE DEF x, y, active
<1>7. CASE w = NULL /\ UNCHANGED windows
      BY <1>1, <1>7, SameWindows DEF SameViews, SameView
<1>8. CASE w # NULL /\ window_mouse_event(w, x - windows[w].box.x, y - windows[w].box.y, left)
    <2>1. w \in 1 .. n /\ point_is_inside(windows[w].box, x, y)
        <3>1. CASE active # NULL /\ point_is_inside(windows[active].box, x, y)
              BY <1>4, <3>1
        <3>2. CASE ~(active # NULL /\ point_is_inside(windows[active].box, x, y))
            <4>1. w = FirstAt(boxes, x, y) /\ FirstAt(boxes, x, y) # NULL
                  BY <1>8, <3>2
            <4>2. DOMAIN boxes = 1 .. n /\ DOMAIN boxes \subseteq Nat
                  BY <1>3
            <4>3. \A k \in 1 .. n : boxes[k] = windows[k].box
                  BY <1>3
            <4> HIDE DEF boxes, w
            <4>4. w \in DOMAIN boxes /\ point_is_inside(boxes[w], x, y)
                  BY <4>1, <4>2, FirstAtIs
            <4> QED BY <4>2, <4>3, <4>4
        <3> QED BY <3>1, <3>2
    <2> DEFINE wx == x - windows[w].box.x
               wy == y - windows[w].box.y
    <2>2. window_mouse_event(w, wx, wy, left)
          BY <1>8
    <2> HIDE DEF w, wx, wy
    <2>3. /\ IsWindows(windows') /\ Len(windows') = n /\ NoFocus(windows') /\ SameViews
          /\ ActiveIs(windows', u) \/ ActiveIs(windows', w)
          BY <1>1, <1>2, <2>1, <2>2, EventStep
    <2>4. PICK v \in {u, w} : ActiveIs(windows', v)
          BY <2>3
    <2>5. v \in 1 .. Len(windows') /\ SameViews /\ (v = u \/ point_is_inside(windows[v].box, pointer'.x, pointer'.y))
          BY <1>2, <1>5, <2>1, <2>3, <2>4
    <2> QED BY <1>2, <2>3, <2>4, <2>5 DEF GuiStep
<1> QED BY <1>6, <1>7, <1>8

\* Keys: only a file that is chosen opens a window.
LEMMA KeyStep ==
    ASSUME WindowsInv, NEW key, gui_key(key)
    PROVE  GuiStep
<1>1. phase = "gui"
      BY DEF gui_key
<1>2. CASE edit_keydown(key) \/ file_navigator_move(key)
      BY <1>1, <1>2, SameWindows DEF edit_keydown, file_navigator_move
<1>3. CASE file_navigator_choose
    <2> DEFINE n == list_get(fn.files, fn.selected)
    <2>1. CASE \E offset \in {0, UnsetOffset} : choose_up(offset) \/ choose_up_top(offset)
                                                \/ choose_down(n, offset)
          BY <1>1, <2>1, SameWindows DEF choose_up, choose_up_top, choose_down, ChangeDirectory
    <2>2. CASE choose_file(n)
          BY <1>1, <2>2, ViewStep DEF choose_file
    <2> HIDE DEF n
    <2> QED BY <1>3, <2>1, <2>2 DEF file_navigator_choose, n
<1> QED BY <1>2, <1>3 DEF gui_key

\* The explorer's window is the first, active, with the navigator's focus.
LEMMA StartStep ==
    ASSUME WindowsInv, gui_start
    PROVE  /\ IsWindows(windows') /\ NoFocus(windows') /\ Len(windows') = 1
           /\ \E w \in 1 .. Len(windows') : ActiveIs(windows', w)
<1> DEFINE wnd == [window_create(Explorer) EXCEPT !.focus = "fn"]
<1>1. windows' = gui_set_active_window(<<wnd>>, 1) /\ windows = <<>> /\ IsWindows(windows)
      BY DEF gui_start, WindowsInv
<1>2. IsWindow(wnd)
    <2> DEFINE v == window_create(Explorer)
    <2>1. Explorer \in Box
          BY DesktopAssumption DEF Box
    <2>2. IsWindow(v)
          BY <2>1, NewWindow
    <2>3. wnd = [v EXCEPT !.focus = "fn"]
          OBVIOUS
    <2> HIDE DEF v, wnd
    <2> QED BY <2>2, <2>3, SetWindowFocus
<1> HIDE DEF wnd
<1> DEFINE all == <<wnd>>
<1>3. IsWindows(all) /\ Len(all) = 1
    <2>1. all \in Seq(Range1(all)) /\ Len(all) = 1 /\ all[1] = wnd
          BY DEF Range1
    <2> HIDE DEF all
    <2> QED BY <1>2, <2>1 DEF IsWindows
<1>4. windows' = gui_set_active_window(all, 1)
      BY <1>1
<1> HIDE DEF all
<1>5. /\ IsWindows(windows') /\ Len(windows') = 1
      /\ \A k \in 1 .. 1 : windows'[k].active <=> k = 1
      BY <1>3, <1>4, SetActive
<1>6. NoFocus(windows') /\ ActiveIs(windows', 1) /\ 1 \in 1 .. Len(windows')
      BY <1>5 DEF NoFocus, ActiveIs
<1> QED BY <1>5, <1>6

\* The GUI goes on or stops.
LEMMA GuiPhase ==
    ASSUME \/ gui_start
           \/ \E key \in Keys : gui_key(key)
           \/ \E dx, dy \in - MaxMove .. MaxMove, left \in BOOLEAN : gui_mouse(dx, dy, left)
    PROVE  phase \in {"up", "gui"} /\ phase' \in {"gui", "stopped"}
<1>1. CASE gui_start
      BY <1>1 DEF gui_start
<1>2. ASSUME NEW key \in Keys, gui_key(key) PROVE phase = "gui" /\ phase' \in {"gui", "stopped"}
    <2>1. phase = "gui"
          BY <1>2 DEF gui_key
    <2>2. CASE edit_keydown(key) \/ file_navigator_move(key)
          BY <2>1, <2>2 DEF edit_keydown, file_navigator_move, fvars
    <2>3. CASE file_navigator_choose
        <3> DEFINE n == list_get(fn.files, fn.selected)
        <3>1. CASE \E offset \in {0, UnsetOffset} : choose_up(offset) \/ choose_up_top(offset)
                                                    \/ choose_down(n, offset)
              BY <2>1, <3>1 DEF choose_up, choose_up_top, choose_down
        <3>2. CASE choose_file(n)
              BY <2>1, <3>2 DEF choose_file, text_view
        <3> HIDE DEF n
        <3> QED BY <2>3, <3>1, <3>2 DEF file_navigator_choose, n
    <2> QED BY <1>2, <2>1, <2>2, <2>3 DEF gui_key
<1>3. ASSUME NEW dx, NEW dy, NEW left, gui_mouse(dx, dy, left) PROVE phase = "gui" /\ phase' = "gui"
      BY <1>3 DEF gui_mouse, fvars
<1> QED BY <1>1, <1>2, <1>3

LEMMA InitWindows == DInit => WindowsInv
<1> SUFFICES ASSUME DInit PROVE WindowsInv
    OBVIOUS
<1>1. windows = <<>> /\ phase = "start"
      BY DEF DInit, FInit
<1>2. IsWindows(windows)
      BY <1>1 DEF IsWindows, Range1
<1> QED BY <1>1, <1>2 DEF WindowsInv

\* A step from the running GUI is a GuiStep.
LEMMA RunningStep ==
    ASSUME WindowsInv, [DNext]_dvars, phase = "gui"
    PROVE  GuiStep
<1>1. ASSUME NEW key \in Keys, gui_key(key) PROVE GuiStep
      BY <1>1, KeyStep
<1>2. ASSUME NEW dx \in - MaxMove .. MaxMove, NEW dy \in - MaxMove .. MaxMove, NEW left \in BOOLEAN,
             gui_mouse(dx, dy, left)
      PROVE  GuiStep
    <2>1. dx \in Int /\ dy \in Int
          BY DesktopAssumption
    <2> QED BY <1>2, <2>1, MouseStep
<1>3. ~FNext
      BY BootStep
<1>4. ~gui_start
      BY DEF gui_start
<1>5. CASE UNCHANGED dvars
      BY <1>5, SameWindows DEF dvars, gui
<1> QED BY <1>1, <1>2, <1>3, <1>4, <1>5 DEF DNext

LEMMA StepWindows == WindowsInv /\ [DNext]_dvars => WindowsInv'
<1> SUFFICES ASSUME WindowsInv, [DNext]_dvars PROVE WindowsInv'
    OBVIOUS
<1>1. CASE phase = "gui"
    <2>1. GuiStep
          BY <1>1, RunningStep
    <2>2. phase' \in {"gui", "stopped"}
          BY <1>1, BootStep, GuiPhase DEF DNext, dvars, fvars
    <2> QED BY <2>1, <2>2 DEF GuiStep, WindowsInv
<1>2. CASE phase # "gui" /\ gui_start
    <2>1. phase' = "gui"
          BY <1>2 DEF gui_start
    <2> QED BY <1>2, <2>1, StartStep DEF WindowsInv
<1>3. CASE phase # "gui" /\ ~gui_start
    <2>1. (\A key : ~gui_key(key)) /\ \A dx, dy, left : ~gui_mouse(dx, dy, left)
          BY <1>3 DEF gui_key, gui_mouse
    <2>2. (FNext /\ UNCHANGED gui) \/ UNCHANGED dvars
          BY <1>3, <2>1 DEF DNext
    <2>3. UNCHANGED windows
          BY <2>2 DEF dvars, gui
    <2>4. \/ phase' = phase
          \/ /\ phase \in {"start", "serial", "parse", "parsed", "build"}
             /\ phase' # "gui"
          BY <2>2, BootStep DEF dvars, fvars
    <2> QED BY <1>3, <2>3, <2>4 DEF WindowsInv
<1> QED BY <1>1, <1>2, <1>3

\* The pointer stays on the screen.
PointerInv == pointer \in [x : 0 .. Screen.w, y : 0 .. Screen.h]

LEMMA ClampIs == ASSUME NEW v \in Int, NEW top \in Nat PROVE Clamp(v, top) \in 0 .. top
  BY DEF Clamp

LEMMA InitPointer == DInit => PointerInv
  BY DesktopAssumption DEF DInit, PointerInv

LEMMA StepPointer == PointerInv /\ [DNext]_dvars => PointerInv'
<1> SUFFICES ASSUME PointerInv, [DNext]_dvars PROVE PointerInv'
    OBVIOUS
<1>1. Screen.w \in Nat /\ Screen.h \in Nat /\ MaxMove \in Nat
      BY DesktopAssumption
<1>2. CASE gui_start
    <2>1. Screen.w \div 2 \in 0 .. Screen.w /\ Screen.h \div 2 \in 0 .. Screen.h
          BY <1>1
    <2> QED BY <1>2, <2>1 DEF gui_start, PointerInv
<1>3. ASSUME NEW dx \in - MaxMove .. MaxMove, NEW dy \in - MaxMove .. MaxMove, NEW left,
             gui_mouse(dx, dy, left)
      PROVE  PointerInv'
    <2>1. pointer.x + dx \in Int /\ pointer.y - dy \in Int
          BY <1>1 DEF PointerInv
    <2>2. /\ Clamp(pointer.x + dx, Screen.w) \in 0 .. Screen.w
          /\ Clamp(pointer.y - dy, Screen.h) \in 0 .. Screen.h
          BY <1>1, <2>1, ClampIs
    <2> QED BY <1>3, <2>2 DEF gui_mouse, PointerInv
<1>4. ASSUME NEW key \in Keys, gui_key(key) PROVE PointerInv'
    <2>1. UNCHANGED pointer
        <3>1. CASE edit_keydown(key) \/ file_navigator_move(key)
              BY <3>1 DEF edit_keydown, file_navigator_move
        <3>2. CASE file_navigator_choose
              BY <3>2 DEF file_navigator_choose, choose_up, choose_up_top, choose_down, choose_file,
                          ChangeDirectory, file_explorer_on_change_dir
        <3> QED BY <1>4, <3>1, <3>2 DEF gui_key
    <2> QED BY <2>1 DEF PointerInv
<1>5. CASE (FNext /\ UNCHANGED gui) \/ UNCHANGED dvars
      BY <1>5 DEF dvars, gui, PointerInv
<1> QED BY <1>2, <1>3, <1>4, <1>5 DEF DNext

-----------------------------------------------------------------------------
(* The navigator, the edit and the open files.                              *)

IsTask(t) == /\ t = [f \in {"file_count", "files"} |-> t[f]]
             /\ t.file_count \in {Pointer} \cup 0 .. MaxFiles

\* Paths of directories that fit the edit.
Directories == {d \in Seq(Name) : Len(d) \in 1 .. EditLength /\ d[1] = "/"}

\* The navigator has one of its entries selected.
IsNavigator(v, all) == /\ v \in [directory : Directories, files : Seq(NodeOf(all)), selected : Nat]
                       /\ v.selected \in 0 .. Len(v.files) - 1

\* What the edit holds: names, or keys.
Text == Name \cup {Typed}
IsEdit(e) == e.text \in Seq(Text) /\ Len(e.text) <= EditLength

GuiInv == /\ IsTask(task)
          /\ phase = "gui" => IsNavigator(fn, nodes)
          /\ phase # "stopped" => IsEdit(edit)

\* The outcomes of open: no such file, the count was overwritten, it is now, or a
\* descriptor.
Opened(t, file, stray, o) ==
    \/ file = NULL /\ o.fd = NoFd /\ o.task = t /\ o.stores = stray
    \/ /\ file # NULL /\ t.file_count = Pointer /\ o.fd = NoFd
       /\ o.task = t /\ o.stores = stray \cup {"files"}
    \/ /\ file # NULL /\ t.file_count # Pointer /\ t.file_count = MaxFiles /\ o.fd = NoFd
       /\ o.task = [t EXCEPT !.file_count = Pointer] /\ o.stores = stray \cup {"count"}
    \/ /\ file # NULL /\ t.file_count # Pointer /\ t.file_count # MaxFiles /\ o.fd = t.file_count
       /\ o.task = [file_count |-> t.file_count + 1, files |-> Append(t.files, file)]
       /\ o.stores = stray

LEMMA OpenCases == ASSUME NEW t, NEW name PROVE Opened(t, find(name), Stray(name), open(name, t))
<1> DEFINE file == find(name)
           stray == Stray(name)
           Fails(after, stores) == [fd |-> NoFd, task |-> after, stores |-> stray \cup stores]
           over == [t EXCEPT !.file_count = Pointer]
           more == [file_count |-> t.file_count + 1, files |-> Append(t.files, file)]
           o == open(name, t)
<1>1. o = (CASE file = NULL            -> Fails(t, {})
             [] file # NULL /\ t.file_count = Pointer -> Fails(t, {"files"})
             [] file # NULL /\ t.file_count = MaxFiles -> Fails(over, {"count"})
             [] OTHER -> [fd |-> t.file_count, task |-> more, stores |-> stray])
      BY DEF open
<1>2. Pointer # MaxFiles /\ stray \cup {} = stray
      BY FilesAssumption DEF Pointer
<1> HIDE DEF file, stray, over, more, o
<1>3. CASE file = NULL
    <2>1. o = Fails(t, {})
          BY <1>1, <1>3
    <2>2. o.fd = NoFd /\ o.task = t /\ o.stores = stray
          BY <1>2, <2>1
    <2> QED BY <1>3, <2>2 DEF Opened, file, stray, o
<1>4. CASE file # NULL /\ t.file_count = Pointer
    <2>1. o = Fails(t, {"files"})
          BY <1>1, <1>2, <1>4
    <2>2. o.fd = NoFd /\ o.task = t /\ o.stores = stray \cup {"files"}
          BY <2>1
    <2> QED BY <1>4, <2>2 DEF Opened, file, stray, o
<1>5. CASE file # NULL /\ t.file_count # Pointer /\ t.file_count = MaxFiles
    <2>1. o = Fails(over, {"count"})
          BY <1>1, <1>5
    <2>2. o.fd = NoFd /\ o.task = over /\ o.stores = stray \cup {"count"}
          BY <2>1
    <2> QED BY <1>5, <2>2 DEF Opened, file, stray, o, over
<1>6. CASE file # NULL /\ t.file_count # Pointer /\ t.file_count # MaxFiles
    <2>1. o = [fd |-> t.file_count, task |-> more, stores |-> stray]
          BY <1>1, <1>6
    <2>2. o.fd = t.file_count /\ o.task = more /\ o.stores = stray
          BY <2>1
    <2> QED BY <1>6, <2>2 DEF Opened, file, stray, o, more
<1> QED BY <1>3, <1>4, <1>5, <1>6

\* open keeps a task's count in its range, or overwrites it with a pointer.
LEMMA OpenIs == ASSUME NEW t, IsTask(t), NEW name PROVE IsTask(open(name, t).task)
<1> DEFINE file == find(name)
           over == [t EXCEPT !.file_count = Pointer]
           longer == Append(t.files, file)
           more == [file_count |-> t.file_count + 1, files |-> longer]
           o == open(name, t)
<1>1. Opened(t, file, Stray(name), o)
      BY OpenCases
<1>2. IsTask(over)
      BY DEF IsTask
<1>3. ASSUME t.file_count # Pointer, t.file_count # MaxFiles PROVE IsTask(more)
    <2>1. t.file_count + 1 \in 0 .. MaxFiles
          BY <1>3, FilesAssumption DEF IsTask
    <2> HIDE DEF longer
    <2> QED BY <2>1 DEF IsTask
<1> HIDE DEF file, o
<1>4. \/ o.task = t
      \/ o.task = over
      \/ t.file_count # Pointer /\ t.file_count # MaxFiles /\ o.task = more
      BY <1>1 DEF Opened
<1> HIDE DEF over, more
<1> QED BY <1>2, <1>3, <1>4 DEF o

\* file_navigator_set selects "..", which is always there.
LEMMA NavigatorSet ==
    ASSUME FilesInv, NEW d \in Directories, NEW offset \in {0, UnsetOffset}
    PROVE  IsNavigator(file_navigator_set(d, offset), nodes)
<1> DEFINE A == NodeOf(nodes)
           r == readdir(d, offset)
           all == <<NULL>> \o r
<1>1. r \in Seq(A)
    <2> DEFINE n == find(d)
               list == nodes[n].list
               len == Len(list) - offset
    <2>1. n \in NodeOf(nodes)
        <3>1. d \in Seq(Name) /\ IsTree(nodes) /\ Len(nodes) >= 1
              BY DEF Directories, FilesInv, ROOT
        <3> QED BY <3>1, FindIs
    <2>2. CASE n = NULL
        <3>1. r = <<>>
              BY <2>2 DEF readdir
        <3> HIDE DEF r, A
        <3> QED BY <3>1
    <2>3. CASE n # NULL
        <3>1. n \in 1 .. Len(nodes) /\ IsTree(nodes)
              BY <2>1, <2>3 DEF NodeOf, FilesInv
        <3>2. r = [k \in 1 .. len |-> list[k + offset]]
              BY <2>3 DEF readdir, ramfs_readdir
        <3>3. list \in Seq(Nat) /\ \A k \in 1 .. Len(list) : list[k] \in A
              BY <3>1, TreeIs DEF IsTree, Closed, NodeOf
        <3> HIDE DEF list, r, A, n
        <3>4. Len(list) \in Nat /\ offset \in Nat
              BY <3>3 DEF UnsetOffset
        <3>5. ASSUME NEW k \in 1 .. len PROVE list[k + offset] \in A
            <4>1. k + offset \in 1 .. Len(list)
                  BY <3>4
            <4> QED BY <3>3, <4>1
        <3>6. len \in Int
              BY <3>4
        <3> DEFINE m == IF len > 0 THEN len ELSE 0
        <3>7. m \in Nat /\ 1 .. m = 1 .. len
              BY <3>6
        <3> HIDE DEF len, m
        <3>8. r \in [1 .. m -> A]
              BY <3>2, <3>5, <3>7
        <3> QED BY <3>7, <3>8
    <2> QED BY <2>2, <2>3
<1>2. NULL \in A
      BY DEF NodeOf
<1> HIDE DEF r, A
<1>3. all \in Seq(A) /\ Len(all) = 1 + Len(r) /\ Len(r) \in Nat
      BY <1>1, <1>2
<1> HIDE DEF all
<1>4. file_navigator_set(d, offset) = [directory |-> d, files |-> all, selected |-> 0]
      BY DEF file_navigator_set, all, r
<1>5. 0 \in 0 .. Len(all) - 1 /\ 0 \in Nat
      BY <1>3
<1> QED BY <1>3, <1>4, <1>5 DEF IsNavigator, A

\* The types of a directory's path.
LEMMA DirectoryIs ==
    ASSUME NEW d \in Directories
    PROVE  /\ d \in Seq(Name) /\ Len(d) \in Nat /\ Len(d) >= 1 /\ Len(d) <= EditLength
           /\ d[1] = "/" /\ EditLength \in Nat
<1>1. EditLength \in Nat
      BY DesktopAssumption
<1>2. d \in Seq(Name) /\ Len(d) \in 1 .. EditLength /\ d[1] = "/"
      BY DEF Directories
<1> QED BY <1>1, <1>2

\* A path that fits is all the edit shows.
LEMMA SetText == ASSUME NEW d \in Directories PROVE IsEdit(edit_set_text(d))
<1>1. d \in Seq(Name) /\ Len(d) <= EditLength /\ Len(d) \in Nat /\ EditLength \in Nat
      BY DirectoryIs
<1>2. edit_set_text(d) = [text |-> d, ended |-> TRUE]
    <2>1. (IF Len(d) > EditLength THEN SubSeq(d, 1, EditLength + 1) ELSE d) = d
          BY <1>1
    <2> QED BY <2>1 DEF edit_set_text
<1>3. d \in Seq(Text)
    <2>1. \A s \in Seq(Name) : s \in Seq(Text)
          BY DEF Text
    <2> QED BY <1>1, <2>1
<1> QED BY <1>1, <1>2, <1>3 DEF IsEdit

\* ".." has a "/" to cut behind, the first.
LEMMA UpIs ==
    ASSUME NEW d \in Directories, d # <<"/">>
    PROVE  UpDirectory(d) \in Directories
<1> DEFINE n == Len(d)
           cuts == {k \in 1 .. n - 1 : d[k] = "/"}
           c == CHOOSE k \in cuts : \A j \in cuts : k >= j
<1>1. d \in Seq(Name) /\ n \in Nat /\ n >= 1 /\ n <= EditLength /\ d[1] = "/" /\ EditLength \in Nat
      BY DirectoryIs
<1>2. n >= 2
    <2>1. n # 1
        <3> SUFFICES ASSUME n = 1 PROVE FALSE
            OBVIOUS
        <3> DEFINE top == <<"/">>
        <3>1. top \in Seq(Name) /\ Len(top) = 1 /\ top[1] = "/"
              BY DEF Name
        <3>2. \A k \in 1 .. 1 : d[k] = top[k]
              BY <1>1, <3>1
        <3> HIDE DEF top
        <3>3. d = top
              BY <1>1, <3>1, <3>2, SeqEqual
        <3> QED BY <3>3 DEF top
    <2>2. n \in Nat /\ n >= 1
          BY <1>1
    <2> HIDE DEF n
    <2> QED BY <2>1, <2>2
<1>3. cuts \in SUBSET (1 .. n) /\ cuts # {}
    <2>1. 1 \in cuts
          BY <1>1, <1>2
    <2> QED BY <1>1, <2>1
<1>4. c = Highest(cuts)
      BY DEF Highest
<1>5. c \in cuts
    <2>1. n \in Nat
          BY <1>1
    <2> HIDE DEF n, cuts, c
    <2> QED BY <1>3, <1>4, <2>1, HighestIn
<1>6. c \in 1 .. n - 1
      BY <1>5
<1> HIDE DEF c, cuts
<1> DEFINE up == SubSeq(d, 1, c)
<1>7. UpDirectory(d) = up
      BY DEF UpDirectory, c, cuts
<1>8. up \in Seq(Name) /\ Len(up) = c /\ up[1] = d[1]
    <2>1. c \in Int /\ 1 \in Int /\ \A k \in 1 .. c : d[k] \in Name
          BY <1>1, <1>6
    <2>2. up \in Seq(Name) /\ Len(up) = (IF 1 <= c THEN c - 1 + 1 ELSE 0)
          /\ \A k \in 1 .. c - 1 + 1 : up[k] = d[1 + k - 1]
          BY <2>1, SubSeqProperties
    <2>3. 1 \in 1 .. c - 1 + 1
          BY <1>6
    <2> HIDE DEF up
    <2> QED BY <1>1, <1>6, <2>2, <2>3
<1> HIDE DEF up
<1> QED BY <1>1, <1>6, <1>7, <1>8 DEF Directories

\* strcat adds a name, if there is one.
LEMMA StrcatIs ==
    ASSUME NEW d \in Seq(Name), NEW name \in Name
    PROVE  strcat(d, name) = IF name = NoName THEN d ELSE Append(d, name)
<1> DEFINE none == <<>>
           one == <<name>>
<1>1. d \o none = d
      OBVIOUS
<1>2. d \o one = Append(d, name)
    <2> DEFINE a == d \o one
               b == Append(d, name)
    <2>1. a \in Seq(Name) /\ b \in Seq(Name) /\ Len(a) = Len(d) + 1 /\ Len(b) = Len(d) + 1
          /\ Len(d) \in Nat /\ a[Len(d) + 1] = name /\ b[Len(d) + 1] = name
          /\ \A k \in 1 .. Len(d) : a[k] = d[k] /\ b[k] = d[k]
          OBVIOUS
    <2> HIDE DEF a, b
    <2>2. \A k \in 1 .. Len(a) : a[k] = b[k]
          BY <2>1
    <2>3. a = b
          BY <2>1, <2>2, SeqEqual
    <2> QED BY <2>3 DEF a, b
<1>3. strcat(d, name) = IF name = NoName THEN d \o none ELSE d \o one
      BY DEF strcat
<1> HIDE DEF none, one
<1> QED BY <1>1, <1>2, <1>3

\* A directory entered is a path, as long as it fits.
LEMMA DownIs ==
    ASSUME NEW d \in Directories, NEW name \in Name, ~(Len(DownDirectory(d, name)) > EditLength)
    PROVE  DownDirectory(d, name) \in Directories
<1> DEFINE e == IF Last(d) = "/" THEN d ELSE strcat(d, "/")
           down == DownDirectory(d, name)
<1>1. d \in Seq(Name) /\ Len(d) \in Nat /\ Len(d) >= 1 /\ d[1] = "/" /\ EditLength \in Nat
      BY DirectoryIs
<1>2. e = d \/ e = Append(d, "/")
    <2>1. "/" \in Name /\ NoName # "/"
          BY Zenon DEF Name, NoName
    <2> QED BY <1>1, <2>1, StrcatIs
<1>3. e \in Seq(Name) /\ Len(e) \in Nat /\ Len(e) >= 1 /\ e[1] = "/"
    <2>1. "/" \in Name
          BY DEF Name
    <2> HIDE DEF e
    <2> QED BY <1>1, <1>2, <2>1
<1>4. down = strcat(e, name)
      BY DEF DownDirectory
<1> HIDE DEF e, down
<1>5. down = e \/ down = Append(e, name)
      BY <1>3, <1>4, StrcatIs
<1>6. down \in Seq(Name) /\ Len(down) \in Nat /\ Len(down) >= 1 /\ down[1] = "/"
      BY <1>3, <1>5
<1> QED BY <1>1, <1>6 DEF Directories, down

\* The edit is empty, no file is open.
LEMMA InitGui == DInit => GuiInv
<1> SUFFICES ASSUME DInit PROVE GuiInv
    OBVIOUS
<1>1. phase = "start" /\ task = [file_count |-> 0, files |-> <<>>] /\ edit = [text |-> <<>>, ended |-> TRUE]
      BY DEF DInit, FInit, edit_create
<1>2. MaxFiles \in Nat /\ EditLength \in Nat
      BY FilesAssumption, DesktopAssumption
<1>3. IsTask(task)
    <2> DEFINE none == <<>>
    <2>1. task = [file_count |-> 0, files |-> none]
          BY <1>1
    <2> HIDE DEF none
    <2> QED BY <1>2, <2>1 DEF IsTask
<1>4. IsEdit(edit)
      BY <1>1, <1>2 DEF IsEdit
<1> QED BY <1>1, <1>3, <1>4 DEF GuiInv

\* The navigator changes to a directory that fits the edit.
LEMMA ChangeStep ==
    ASSUME FilesInv, GuiInv, NEW d \in Directories, NEW offset \in {0, UnsetOffset},
           NEW stores, ChangeDirectory(d, offset, stores)
    PROVE  IsNavigator(fn', nodes') /\ IsEdit(edit') /\ IsTask(task')
<1>1. fn' = file_navigator_set(d, offset) /\ nodes' = nodes /\ edit' = edit_set_text(d) /\ task' = task
      BY DEF ChangeDirectory, file_explorer_on_change_dir, boot
<1>2. IsNavigator(file_navigator_set(d, offset), nodes)
      BY NavigatorSet
<1>3. IsEdit(edit_set_text(d))
      BY SetText
<1> QED BY <1>1, <1>2, <1>3 DEF GuiInv

\* "/" fits every edit.
LEMMA TopIs == <<"/">> \in Directories
<1> DEFINE top == <<"/">>
<1>1. "/" \in Name /\ EditLength \in Nat \ {0}
      BY DesktopAssumption DEF Name
<1>2. top \in Seq(Name) /\ Len(top) = 1 /\ top[1] = "/"
      BY <1>1
<1> HIDE DEF top
<1>3. Len(top) \in 1 .. EditLength
      BY <1>1, <1>2
<1>4. top \in Directories
      BY <1>2, <1>3 DEF Directories
<1> QED BY <1>4 DEF top

\* Choosing leaves the navigator with a selection, or stops.
LEMMA ChooseStep ==
    ASSUME FilesInv, GuiInv, phase = "gui", file_navigator_choose
    PROVE  GuiInv'
<1> DEFINE n == list_get(fn.files, fn.selected)
           d == fn.directory
<1>1. d \in Directories /\ fn.files \in Seq(NodeOf(nodes)) /\ fn.selected \in 0 .. Len(fn.files) - 1
      BY DEF GuiInv, IsNavigator
<1>2. n \in NodeOf(nodes)
    <2>1. fn.selected + 1 \in 1 .. Len(fn.files)
          BY <1>1
    <2> QED BY <1>1, <2>1 DEF list_get
<1>3. ASSUME NEW offset \in {0, UnsetOffset}, choose_up(offset) PROVE GuiInv'
    <2>1. d # <<"/">> /\ ChangeDirectory(UpDirectory(d), offset, {})
          BY <1>3 DEF choose_up
    <2> DEFINE up == UpDirectory(d)
    <2>2. up \in Directories
          BY <1>1, <2>1, UpIs
    <2> HIDE DEF up
    <2>3. ChangeDirectory(up, offset, {})
          BY <2>1 DEF up
    <2> QED BY <2>2, <2>3, ChangeStep DEF GuiInv
<1>4. ASSUME NEW offset \in {0, UnsetOffset}, choose_up_top(offset) PROVE GuiInv'
    <2> DEFINE top == <<"/">>
    <2>1. ChangeDirectory(top, offset, {"top"})
          BY <1>4 DEF choose_up_top
    <2>2. top \in Directories
          BY TopIs
    <2> HIDE DEF top
    <2> QED BY <2>1, <2>2, ChangeStep DEF GuiInv
<1>5. ASSUME n # NULL, NEW offset \in {0, UnsetOffset}, choose_down(n, offset) PROVE GuiInv'
    <2> DEFINE down == DownDirectory(d, nodes[n].name)
               long == Len(down) > EditLength
               stores == IF long THEN {"edit"} ELSE {}
    <2>1. /\ ChangeDirectory(down, offset, stores)
          /\ phase' = IF long THEN "stopped" ELSE phase
          BY <1>5 DEF choose_down
    <2>2. nodes[n].name \in Name
        <3>1. n \in 1 .. Len(nodes) /\ IsTree(nodes)
              BY <1>2, <1>5 DEF NodeOf, FilesInv
        <3> HIDE DEF n
        <3> QED BY <3>1, TreeIs
    <2> HIDE DEF n, stores
    <2>3. CASE long
        <3>1. phase' = "stopped" /\ task' = task
              BY <2>1, <2>3 DEF ChangeDirectory
        <3> QED BY <3>1 DEF GuiInv
    <2>4. CASE ~long
        <3>1. down \in Directories
              BY <1>1, <2>2, <2>4, DownIs
        <3> HIDE DEF down
        <3> QED BY <2>1, <3>1, ChangeStep DEF GuiInv
    <2> QED BY <2>3, <2>4
<1>6. ASSUME choose_file(n) PROVE GuiInv'
    <2> DEFINE file == FilePath(fn.directory, nodes[n].name)
    <2>1. text_view(file, n) /\ edit' = edit_set_text(d) /\ fn' = fn /\ nodes' = nodes
          BY <1>6 DEF choose_file, file_explorer_on_change_dir, boot
    <2> HIDE DEF file, n
    <2>2. task' = open(file, task).task
          BY <2>1 DEF text_view
    <2>3. IsTask(task')
          BY <2>2, OpenIs DEF GuiInv
    <2>4. IsEdit(edit')
          BY <1>1, <2>1, SetText
    <2>5. IsNavigator(fn', nodes')
          BY <2>1 DEF GuiInv
    <2> QED BY <2>3, <2>4, <2>5 DEF GuiInv
<1> HIDE DEF n
<1> QED BY <1>3, <1>4, <1>5, <1>6 DEF file_navigator_choose, n

\* Typing stops at the end of the edit.
LEMMA TypedStep == ASSUME GuiInv, phase = "gui", NEW key, edit_keydown(key) PROVE GuiInv'
<1>1. UNCHANGED <<phase, task, fn, nodes>>
      BY DEF edit_keydown, fvars, boot
<1>2. IsEdit(edit')
    <2>1. edit.text \in Seq(Text) /\ Len(edit.text) <= EditLength /\ EditLength \in Nat /\ Typed \in Text
          BY DesktopAssumption DEF GuiInv, IsEdit, Text
    <2>2. \/ edit' = edit
          \/ edit.text # <<>> /\ edit' = [text |-> Front(edit.text), ended |-> TRUE]
          \/ Len(edit.text) < EditLength /\ edit' = [text |-> Append(edit.text, Typed), ended |-> FALSE]
          BY <2>1 DEF edit_keydown
    <2>3. CASE edit' = edit
          BY <2>3 DEF GuiInv
    <2>4. CASE edit.text # <<>> /\ edit' = [text |-> Front(edit.text), ended |-> TRUE]
        <3> DEFINE t == edit.text
                   r == Front(t)
        <3>1. Len(t) \in Nat \ {0}
              BY <2>1, <2>4, EmptySeq
        <3>2. 1 \in Int /\ Len(t) - 1 \in Int /\ \A k \in 1 .. Len(t) - 1 : t[k] \in Text
              BY <2>1, <3>1
        <3>3. r \in Seq(Text) /\ Len(r) = IF 1 <= Len(t) - 1 THEN Len(t) - 1 - 1 + 1 ELSE 0
              BY <3>2, SubSeqProperties DEF Front
        <3> HIDE DEF r
        <3>4. Len(r) <= EditLength
              BY <2>1, <3>1, <3>3
        <3> QED BY <2>4, <3>3, <3>4 DEF IsEdit, r
    <2>5. CASE Len(edit.text) < EditLength /\ edit' = [text |-> Append(edit.text, Typed), ended |-> FALSE]
        <3> DEFINE r == Append(edit.text, Typed)
        <3>1. r \in Seq(Text) /\ Len(r) = Len(edit.text) + 1
              BY <2>1
        <3>2. Len(r) <= EditLength
              BY <2>1, <2>5, <3>1
        <3> HIDE DEF r
        <3> QED BY <2>5, <3>1, <3>2 DEF IsEdit, r
    <2> QED BY <2>2, <2>3, <2>4, <2>5
<1> QED BY <1>1, <1>2 DEF GuiInv

\* The arrows stay in the list.
LEMMA MoveStep == ASSUME GuiInv, phase = "gui", NEW key, file_navigator_move(key) PROVE GuiInv'
<1> DEFINE s == fn.selected
           t == IF key = "down" THEN IF s + 1 >= Len(fn.files) THEN s ELSE s + 1
                ELSE IF s = 0 THEN 0 ELSE s - 1
<1>1. UNCHANGED <<phase, task, edit, nodes>> /\ fn' = [fn EXCEPT !.selected = t]
      BY DEF file_navigator_move, fvars, boot
<1>2. /\ fn.directory \in Directories /\ fn.files \in Seq(NodeOf(nodes)) /\ s \in 0 .. Len(fn.files) - 1
      /\ fn = [directory |-> fn.directory, files |-> fn.files, selected |-> s]
      BY DEF GuiInv, IsNavigator
<1>3. t \in 0 .. Len(fn.files) - 1 /\ t \in Nat
    <2>1. Len(fn.files) \in Nat
          BY <1>2
    <2> QED BY <1>2, <2>1
<1> HIDE DEF t
<1>4. fn' = [directory |-> fn.directory, files |-> fn.files, selected |-> t]
      BY <1>1, <1>2
<1>5. IsNavigator(fn', nodes')
      BY <1>1, <1>2, <1>3, <1>4 DEF IsNavigator
<1> QED BY <1>1, <1>5 DEF GuiInv

\* What bmp_image_from_file may store with the descriptor of an open.
Image(o, data) == \/ data = {}
                  \/ data = {"bmp"} /\ o.fd >= 0 /\ read(o.fd, o.task, ImageSize) = ImageSize

LEMMA ImageIs ==
    ASSUME NEW file, NEW t, NEW m \in bmp_image_from_file(file, t)
    PROVE  LET o == open(file, t)
           IN  m.task = o.task /\ \E data : Image(o, data) /\ m.stores = o.stores \cup data
<1> DEFINE o == open(file, t)
           header == o.fd >= 0 /\ read(o.fd, o.task, ImageSize) = ImageSize
<1>1. \E data \in IF header THEN {{}, {"bmp"}} ELSE {{}} :
          m = [task |-> o.task, stores |-> o.stores \cup data]
      BY DEF bmp_image_from_file
<1> HIDE DEF o
<1>2. PICK data \in IF header THEN {{}, {"bmp"}} ELSE {{}} :
          m = [task |-> o.task, stores |-> o.stores \cup data]
      BY <1>1
<1>3. Image(o, data)
      BY <1>2 DEF Image
<1>4. m.task = o.task /\ m.stores = o.stores \cup data
      BY <1>2
<1> QED BY <1>3, <1>4 DEF o

\* The two files the GUI opens when it starts.
LEMMA StartOpens ==
    ASSUME gui_start
    PROVE  LET cursor == open(CursorFile, task)
               icons == open(IconFile, cursor.task)
           IN  /\ task' = icons.task
               /\ \E a, b : /\ Image(cursor, a) /\ Image(icons, b)
                            /\ harm' = harm \cup (cursor.stores \cup a) \cup (icons.stores \cup b)
<1> DEFINE cursor == open(CursorFile, task)
           icons == open(IconFile, cursor.task)
<1>1. PICK c \in bmp_image_from_file(CursorFile, task) :
          \E d \in bmp_image_from_file(IconFile, c.task) :
              task' = d.task /\ harm' = harm \cup c.stores \cup d.stores
      BY DEF gui_start
<1>2. PICK d \in bmp_image_from_file(IconFile, c.task) :
          task' = d.task /\ harm' = harm \cup c.stores \cup d.stores
      BY <1>1
<1>3. c.task = cursor.task /\ \E a : Image(cursor, a) /\ c.stores = cursor.stores \cup a
      BY ImageIs
<1>4. d \in bmp_image_from_file(IconFile, cursor.task)
      BY <1>2, <1>3
<1>5. d.task = icons.task /\ \E b : Image(icons, b) /\ d.stores = icons.stores \cup b
      BY <1>4, ImageIs
<1> HIDE DEF cursor, icons
<1>6. PICK a : Image(cursor, a) /\ c.stores = cursor.stores \cup a
      BY <1>3
<1>7. PICK b : Image(icons, b) /\ d.stores = icons.stores \cup b
      BY <1>5
<1> QED BY <1>2, <1>5, <1>6, <1>7 DEF cursor, icons

\* The GUI starts in "/".
LEMMA StartGui == ASSUME FilesInv, GuiInv, gui_start PROVE GuiInv'
<1> DEFINE top == <<"/">>
           first == open(CursorFile, task).task
<1>1. /\ phase' = "gui" /\ nodes' = nodes
      /\ edit' = edit_set_text(top)
      /\ \E offset \in {0, UnsetOffset} : fn' = file_navigator_set(top, offset)
      BY DEF gui_start, boot
<1>2. task' = open(IconFile, first).task
      BY StartOpens
<1>3. top \in Directories
      BY TopIs
<1> HIDE DEF top
<1>4. IsTask(first)
      BY OpenIs DEF GuiInv
<1> HIDE DEF first
<1>5. IsTask(task')
      BY <1>2, <1>4, OpenIs
<1>6. IsNavigator(fn', nodes')
      BY <1>1, <1>3, NavigatorSet
<1>7. IsEdit(edit')
      BY <1>1, <1>3, SetText
<1> QED BY <1>5, <1>6, <1>7 DEF GuiInv

\* A boot step leaves the GUI's state alone, and a GUI step the files.
LEMMA StepTypes == FilesInv /\ GuiInv /\ [DNext]_dvars => FilesInv' /\ GuiInv'
<1> SUFFICES ASSUME FilesInv, GuiInv, [DNext]_dvars PROVE FilesInv' /\ GuiInv'
    OBVIOUS
<1>1. CASE FNext /\ UNCHANGED gui
    <2>1. phase' # "gui" /\ phase # "stopped"
          BY <1>1, BootStep
    <2>2. UNCHANGED <<edit, task>>
        <3>1. UNCHANGED edit
              BY <1>1 DEF gui
        <3>2. UNCHANGED task
              BY <1>1 DEF FNext, fs_root, serial, tar_parse, tar_parse_end, ramfs_root, ramfs_add,
                          ramfs_register
        <3> QED BY <3>1, <3>2
    <2> QED BY <1>1, <2>1, <2>2, FilesStep DEF GuiInv
<1>2. ASSUME UNCHANGED boot, phase \in {"up", "gui"}, phase' \in {"gui", "stopped"} PROVE FilesInv'
      BY <1>2, FilesRest
<1>3. CASE gui_start
    <2>1. UNCHANGED boot /\ phase = "up" /\ phase' = "gui"
          BY <1>3 DEF gui_start
    <2> QED BY <1>2, <1>3, <2>1, StartGui
<1>4. ASSUME NEW key \in Keys, gui_key(key) PROVE FilesInv' /\ GuiInv'
    <2>1. phase = "gui" /\ phase' \in {"gui", "stopped"}
          BY <1>4, GuiPhase DEF gui_key
    <2>2. CASE edit_keydown(key)
        <3>1. UNCHANGED boot
              BY <2>2 DEF edit_keydown, fvars
        <3> QED BY <1>2, <2>1, <2>2, <3>1, TypedStep
    <2>3. CASE file_navigator_move(key)
        <3>1. UNCHANGED boot
              BY <2>3 DEF file_navigator_move, fvars
        <3> QED BY <1>2, <2>1, <2>3, <3>1, MoveStep
    <2>4. CASE file_navigator_choose
        <3>1. UNCHANGED boot
              BY <2>4 DEF file_navigator_choose, choose_up, choose_up_top, choose_down, choose_file,
                          ChangeDirectory
        <3> QED BY <1>2, <2>1, <2>4, <3>1, ChooseStep
    <2> QED BY <1>4, <2>2, <2>3, <2>4 DEF gui_key
<1>5. ASSUME NEW dx, NEW dy, NEW left, gui_mouse(dx, dy, left) PROVE FilesInv' /\ GuiInv'
    <2>1. UNCHANGED <<phase, boot, task, fn, edit>> /\ phase = "gui"
          BY <1>5 DEF gui_mouse, fvars
    <2>2. UNCHANGED nodes
          BY <2>1 DEF boot
    <2> QED BY <1>2, <2>1, <2>2 DEF GuiInv
<1>6. CASE UNCHANGED dvars
    <2>1. UNCHANGED <<phase, boot, task, fn, edit>>
          BY <1>6 DEF dvars, fvars, gui
    <2>2. UNCHANGED <<module, files, i, node, nodes>>
          BY <2>1 DEF boot
    <2>3. UNCHANGED disk
          BY <2>2 DEF disk
    <2> QED BY <2>1, <2>2, <2>3 DEF GuiInv, FilesInv, Sizes, Mounts, LastMade
<1> QED BY <1>1, <1>3, <1>4, <1>5, <1>6 DEF DNext

PhaseInv == phase \in {"start", "serial", "parse", "parsed", "build", "up", "gui", "stopped"}

LEMMA StepPhase == PhaseInv /\ [DNext]_dvars => PhaseInv'
<1> SUFFICES ASSUME PhaseInv, [DNext]_dvars PROVE PhaseInv'
    OBVIOUS
<1>1. CASE FNext
      BY <1>1, BootStep DEF PhaseInv
<1>2. CASE UNCHANGED dvars
      BY <1>2 DEF PhaseInv, dvars, fvars
<1>3. CASE ~FNext /\ ~UNCHANGED dvars
    <2>1. phase' \in {"gui", "stopped"}
          BY <1>3, GuiPhase DEF DNext
    <2> QED BY <2>1 DEF PhaseInv
<1> QED BY <1>1, <1>2, <1>3

\* Nothing but tar_parse counts.
LEMMA StepParse == FilesInv /\ ParseInv /\ [DNext]_dvars => ParseInv'
<1> SUFFICES ASSUME FilesInv, ParseInv, [DNext]_dvars PROVE ParseInv'
    OBVIOUS
<1>1. CASE tar_parse
      BY <1>1, ParseCounts
<1>2. CASE tar_parse_end
      BY <1>2, ParseEnds
<1>3. CASE fs_root
      BY <1>3 DEF fs_root, ParseInv, Fit, disk
<1>4. CASE serial
    <2>1. disk.end \in Nat
          BY FilesAssumption DEF FilesInv, disk
    <2>2. /\ UNCHANGED <<module, files, address>> /\ files = 0 /\ phase = "serial"
          /\ phase' = IF disk.end = 0 THEN "up" ELSE "parse"
          BY <1>4 DEF serial, ParseInv
    <2>3. disk' = disk
          BY <2>2 DEF disk
    <2>4. address = Start + EndsAt(disk, files) /\ Fit
          BY <2>2 DEF ParseInv
    <2>5. (address = Start + EndsAt(disk, files) /\ Fit)'
          BY <2>2, <2>3, <2>4 DEF Fit
    <2> QED BY <2>1, <2>2, <2>3, <2>5 DEF ParseInv
<1>5. CASE ramfs_root \/ ramfs_register
    <2>1. UNCHANGED <<module, files>> /\ phase \in {"parsed", "build"} /\ phase' \in {"build", "up"}
          BY <1>5 DEF ramfs_root, ramfs_register
    <2>2. disk' = disk
          BY <2>1 DEF disk
    <2> QED BY <2>1, <2>2 DEF ParseInv, Fit
<1>6. CASE ramfs_add
    <2>1. UNCHANGED <<module, files, address>> /\ phase = "build" /\ phase' \in {"build", "stopped"}
          BY <1>6, BootStep DEF ramfs_add
    <2>2. disk' = disk
          BY <2>1 DEF disk
    <2> QED BY <2>1, <2>2 DEF ParseInv, Fit
<1>7. ASSUME UNCHANGED boot, phase' = phase \/ phase' \in {"gui", "stopped"} PROVE ParseInv'
    <2>1. UNCHANGED <<module, files, address>>
          BY <1>7 DEF boot
    <2>2. disk' = disk
          BY <2>1 DEF disk
    <2> QED BY <1>7, <2>1, <2>2 DEF ParseInv, Fit
<1>8. CASE gui_start
      BY <1>7, <1>8 DEF gui_start
<1>9. ASSUME NEW key \in Keys, gui_key(key) PROVE ParseInv'
    <2>1. phase' \in {"gui", "stopped"}
          BY <1>9, GuiPhase
    <2>2. CASE edit_keydown(key) \/ file_navigator_move(key)
          BY <1>7, <2>1, <2>2 DEF edit_keydown, file_navigator_move, fvars
    <2>3. CASE file_navigator_choose
          BY <1>7, <2>1, <2>3 DEF file_navigator_choose, choose_up, choose_up_top, choose_down,
                                     choose_file, ChangeDirectory
    <2> QED BY <1>9, <2>2, <2>3 DEF gui_key
<1>10. ASSUME NEW dx, NEW dy, NEW left, gui_mouse(dx, dy, left) PROVE ParseInv'
      BY <1>7, <1>10 DEF gui_mouse, fvars
<1>11. CASE UNCHANGED dvars
      BY <1>7, <1>11 DEF dvars, fvars
<1> QED BY <1>1, <1>2, <1>3, <1>4, <1>5, <1>6, <1>8, <1>9, <1>10, <1>11 DEF DNext, FNext

-----------------------------------------------------------------------------
(* What a step does to the files, the navigator and the views.              *)

\* Keys in an edit, arrows, mouse packets.
Quiet ==
    /\ UNCHANGED <<phase, boot, task, harm, buff, skipped>> /\ SameViews
    /\ fn'.directory = fn.directory /\ fn'.files = fn.files
    /\ UNCHANGED <<edit, typed>> \/ typed' = typed + 1

\* Choosing in the navigator: "..", or an entry of the directory.
Entry(n) == n # NULL /\ \E k \in 1 .. Len(fn.files) : n = fn.files[k]
Chosen ==
    \/ \E offset \in {0, UnsetOffset} : choose_up(offset) \/ choose_up_top(offset)
    \/ \E n \in NodeOf(nodes), offset \in {0, UnsetOffset} : Entry(n) /\ choose_down(n, offset)
    \/ \E n \in NodeOf(nodes) : Entry(n) /\ choose_file(n)

Does == \/ FNext /\ UNCHANGED gui
        \/ gui_start
        \/ Quiet
        \/ phase = "gui" /\ Chosen

LEMMA StepDoes == WindowsInv /\ GuiInv /\ [DNext]_dvars => Does
<1> SUFFICES ASSUME WindowsInv, GuiInv, [DNext]_dvars PROVE Does
    OBVIOUS
<1>1. CASE (FNext /\ UNCHANGED gui) \/ gui_start
      BY <1>1 DEF Does
<1>2. ASSUME UNCHANGED windows PROVE SameViews
      BY <1>2 DEF SameViews, SameView
<1>3. CASE UNCHANGED dvars
      BY <1>2, <1>3 DEF dvars, fvars, gui, Quiet, Does
<1>4. ASSUME NEW dx \in - MaxMove .. MaxMove, NEW dy \in - MaxMove .. MaxMove, NEW left \in BOOLEAN,
             gui_mouse(dx, dy, left)
      PROVE  Does
    <2>1. dx \in Int /\ dy \in Int
          BY DesktopAssumption
    <2>2. SameViews
          BY <1>4, <2>1, MouseStep
    <2> QED BY <1>4, <2>2 DEF gui_mouse, fvars, Quiet, Does
<1>5. ASSUME NEW key \in Keys, gui_key(key) PROVE Does
    <2>1. phase = "gui"
          BY <1>5 DEF gui_key
    <2>2. CASE edit_keydown(key)
        <3>1. UNCHANGED <<phase, boot, task, harm, buff, skipped, windows, fn>> /\ typed' = typed + 1
              BY <2>2 DEF edit_keydown, fvars
        <3> QED BY <1>2, <3>1 DEF Quiet, Does
    <2>3. CASE file_navigator_move(key)
        <3> DEFINE t == IF key = "down" THEN IF fn.selected + 1 >= Len(fn.files) THEN fn.selected ELSE fn.selected + 1
                        ELSE IF fn.selected = 0 THEN 0 ELSE fn.selected - 1
        <3>1. UNCHANGED <<phase, boot, task, harm, buff, skipped, windows, edit, typed>> /\ fn' = [fn EXCEPT !.selected = t]
              BY <2>3 DEF file_navigator_move, fvars
        <3> HIDE DEF t
        <3>2. fn = [directory |-> fn.directory, files |-> fn.files, selected |-> fn.selected]
              BY <2>1 DEF GuiInv, IsNavigator
        <3>3. fn'.directory = fn.directory /\ fn'.files = fn.files
              BY <3>1, <3>2
        <3> QED BY <1>2, <3>1, <3>3 DEF Quiet, Does
    <2>4. CASE file_navigator_choose
        <3> DEFINE s == fn.selected + 1
                   n == fn.files[s]
        <3>1. s \in 1 .. Len(fn.files) /\ n \in NodeOf(nodes)
            <4>1. fn.selected \in 0 .. Len(fn.files) - 1 /\ fn.files \in Seq(NodeOf(nodes))
                  BY <2>1 DEF GuiInv, IsNavigator
            <4>2. s \in 1 .. Len(fn.files)
                  BY <4>1
            <4> HIDE DEF s
            <4> QED BY <4>1, <4>2
        <3>2. list_get(fn.files, fn.selected) = n
              BY DEF list_get
        <3> HIDE DEF s
        <3>3. n # NULL => Entry(n)
              BY <3>1 DEF Entry
        <3> HIDE DEF n
        <3>4. Chosen
              BY <2>4, <3>1, <3>2, <3>3 DEF file_navigator_choose, Chosen
        <3> QED BY <2>1, <3>4 DEF Does
    <2> QED BY <1>5, <2>2, <2>3, <2>4 DEF gui_key
<1> QED BY <1>1, <1>3, <1>4, <1>5 DEF DNext

\* What the GUI may store where it must not.
Browsing == {"path", "files", "count", "buff", "edit", "top", "bmp"}

LEMMA OpenStores == ASSUME NEW t, NEW name PROVE open(name, t).stores \subseteq Browsing
<1> DEFINE o == open(name, t)
<1>1. Opened(t, find(name), Stray(name), o)
      BY OpenCases
<1>2. o.stores \subseteq Stray(name) \cup {"files", "count"}
      BY <1>1 DEF Opened
<1> QED BY <1>2 DEF Stray, Browsing

LEMMA GuiStores ==
    ASSUME gui_start \/ Chosen
    PROVE  /\ UNCHANGED boot /\ phase' \in {phase, "gui", "stopped"}
           /\ \E s \in SUBSET Browsing : harm' = harm \cup s
<1>1. CASE gui_start
    <2> DEFINE cursor == open(CursorFile, task)
               icons == open(IconFile, cursor.task)
    <2>1. PICK a, b : /\ Image(cursor, a) /\ Image(icons, b)
                      /\ harm' = harm \cup (cursor.stores \cup a) \cup (icons.stores \cup b)
          BY <1>1, StartOpens
    <2>2. cursor.stores \subseteq Browsing /\ icons.stores \subseteq Browsing
          BY OpenStores
    <2>3. a \subseteq Browsing /\ b \subseteq Browsing
          BY <2>1 DEF Image, Browsing
    <2> HIDE DEF cursor, icons
    <2> DEFINE s == (cursor.stores \cup a) \cup (icons.stores \cup b)
    <2>4. s \in SUBSET Browsing /\ harm' = harm \cup s
          BY <2>1, <2>2, <2>3
    <2>5. UNCHANGED boot /\ phase' = "gui"
          BY <1>1 DEF gui_start
    <2> QED BY <2>4, <2>5
<1>2. ASSUME NEW d, NEW offset, NEW stores \in SUBSET Browsing, ChangeDirectory(d, offset, stores)
      PROVE  UNCHANGED boot /\ \E s \in SUBSET Browsing : harm' = harm \cup s
    <2> DEFINE s == Stray(d) \cup stores
    <2>1. s \in SUBSET Browsing
          BY DEF Stray, Browsing
    <2>2. UNCHANGED boot /\ harm' = harm \cup s
          BY <1>2 DEF ChangeDirectory
    <2> QED BY <2>1, <2>2
<1>3. {} \in SUBSET Browsing /\ {"top"} \in SUBSET Browsing /\ {"edit"} \in SUBSET Browsing
      BY DEF Browsing
<1>4. ASSUME NEW offset, choose_up(offset) \/ choose_up_top(offset)
      PROVE  /\ UNCHANGED boot /\ phase' \in {phase, "stopped"}
             /\ \E s \in SUBSET Browsing : harm' = harm \cup s
      BY <1>2, <1>3, <1>4 DEF choose_up, choose_up_top
<1>5. ASSUME NEW n, NEW offset, choose_down(n, offset)
      PROVE  /\ UNCHANGED boot /\ phase' \in {phase, "stopped"}
             /\ \E s \in SUBSET Browsing : harm' = harm \cup s
    <2> DEFINE down == DownDirectory(fn.directory, nodes[n].name)
               long == Len(down) > EditLength
               stores == IF long THEN {"edit"} ELSE {}
    <2>1. ChangeDirectory(down, offset, stores) /\ phase' = IF long THEN "stopped" ELSE phase
          BY <1>5 DEF choose_down
    <2>2. stores \in SUBSET Browsing
          BY <1>3
    <2> HIDE DEF down, long, stores
    <2> QED BY <1>2, <2>1, <2>2
<1>6. ASSUME NEW n, choose_file(n)
      PROVE  /\ UNCHANGED boot /\ phase' \in {phase, "stopped"}
             /\ \E s \in SUBSET Browsing : harm' = harm \cup s
    <2> DEFINE o == open(FilePath(fn.directory, nodes[n].name), task)
               more == IF ReadText(o).len = BufSize THEN {"buff"} ELSE {}
               s == o.stores \cup more
    <2>1. /\ UNCHANGED boot /\ harm' = harm \cup o.stores \cup more
          /\ phase' = IF "files" \in o.stores THEN "stopped" ELSE phase
          BY <1>6 DEF choose_file, text_view
    <2>2. o.stores \subseteq Browsing
          BY OpenStores
    <2>3. more \subseteq Browsing
          BY DEF Browsing
    <2> HIDE DEF o, more
    <2>4. s \in SUBSET Browsing /\ harm' = harm \cup s
          BY <2>1, <2>2, <2>3
    <2> QED BY <2>1, <2>4
<1>7. CASE Chosen
      BY <1>4, <1>5, <1>6, <1>7 DEF Chosen
<1> QED BY <1>1, <1>7

\* No step of the GUI leaves the tree of a plain archive.
LEMMA StepPlain == FilesInv /\ PlainInv /\ WindowsInv /\ GuiInv /\ [DNext]_dvars => PlainInv'
<1> SUFFICES ASSUME FilesInv, PlainInv, Does PROVE PlainInv'
    BY StepDoes
<1>1. CASE FNext /\ UNCHANGED gui
      BY <1>1, PlainStep
<1>2. CASE gui_start
    <2>1. UNCHANGED boot /\ phase = "up" /\ phase' = "gui"
          BY <1>2 DEF gui_start
    <2>2. "disk" \notin harm' \/ "disk" \in harm
          BY <1>2, GuiStores DEF Browsing
    <2> QED BY <2>1, <2>2, PlainRest
<1>3. CASE Quiet
    <2>1. UNCHANGED <<phase, module, files, i, nodes, harm>>
          BY <1>3 DEF Quiet, boot
    <2>2. disk' = disk
          BY <2>1 DEF disk
    <2> QED BY <2>1, <2>2 DEF PlainInv
<1>4. CASE phase = "gui" /\ Chosen
    <2>1. UNCHANGED boot /\ phase \in {"up", "gui"} /\ phase' \in {"gui", "stopped"}
          BY <1>4, GuiStores
    <2>2. "disk" \notin harm' \/ "disk" \in harm
          BY <1>4, GuiStores DEF Browsing
    <2> QED BY <2>1, <2>2, PlainRest
<1> QED BY <1>1, <1>2, <1>3, <1>4 DEF Does

-----------------------------------------------------------------------------
(* Where the navigator is.                                                  *)

\* ".." cuts at the end of e when no "/" but the last follows it.
LEMMA UpCuts ==
    ASSUME NEW e \in Seq(Name), Len(e) >= 1, e[Len(e)] = "/", NEW d \in Seq(Name), Len(d) > Len(e),
           \A k \in 1 .. Len(e) : d[k] = e[k], \A k \in Len(e) + 1 .. Len(d) - 1 : d[k] # "/"
    PROVE  UpDirectory(d) = e
<1> DEFINE n == Len(e)
           cuts == {k \in 1 .. Len(d) - 1 : d[k] = "/"}
           c == CHOOSE k \in cuts : \A j \in cuts : k >= j
           up == SubSeq(d, 1, n)
<1>1. n \in Nat /\ n >= 1 /\ Len(d) \in Nat /\ n \in 0 .. Len(d)
      OBVIOUS
<1>2. n \in cuts
      BY <1>1
<1>3. \A k \in cuts : k \in Nat /\ k <= n
    <2> TAKE k \in cuts
    <2>1. k \in 1 .. Len(d) - 1 /\ d[k] = "/"
          OBVIOUS
    <2>2. ~(k \in n + 1 .. Len(d) - 1)
          BY <2>1
    <2> HIDE DEF n
    <2> QED BY <1>1, <2>1, <2>2
<1>4. UpDirectory(d) = SubSeq(d, 1, c)
      BY DEF UpDirectory
<1> HIDE DEF cuts
<1>5. c = n
    <2>1. \A j \in cuts : n >= j
          BY <1>1, <1>3
    <2>2. c \in cuts /\ \A j \in cuts : c >= j
          BY <1>2, <2>1
    <2> HIDE DEF c
    <2>3. c >= n /\ c <= n /\ c \in Nat
          BY <1>2, <1>3, <2>2
    <2> HIDE DEF n
    <2> QED BY <1>1, <2>3
<1> HIDE DEF c
<1>6. up \in Seq(Name) /\ Len(up) = n
      BY <1>1, PrefixIs
<1>7. \A k \in 1 .. n : up[k] = d[k]
    <2>1. n \in Int /\ 1 \in Int /\ \A k \in 1 .. n : d[k] \in Name
          BY <1>1
    <2>2. \A k \in 1 .. n - 1 + 1 : up[k] = d[1 + k - 1]
          BY <2>1, SubSeqProperties
    <2> TAKE k \in 1 .. n
    <2>3. k \in 1 .. n - 1 + 1 /\ 1 + k - 1 = k
          BY <1>1
    <2> HIDE DEF up, n
    <2> QED BY <2>2, <2>3
<1> HIDE DEF up
<1>8. up = e
    <2>1. \A k \in 1 .. Len(up) : up[k] = e[k]
          BY <1>6, <1>7
    <2> QED BY <1>6, <2>1, SeqEqual
<1> QED BY <1>4, <1>5, <1>8 DEF up

\* From a path ".." goes to the path without its last segment.
LEMMA UpPath ==
    ASSUME NEW d, NEW segs, IsPath(d, segs), segs # <<>>
    PROVE  UpDirectory(d) = Append(Slashed(Front(segs)), "/") /\ IsPath(UpDirectory(d), Front(segs))
<1> DEFINE p == Front(segs)
           c == Last(segs)
           s == Slashed(p)
           e == Append(s, "/")
           f == Append(e, c)
<1>1. p \in Seq(Proper) /\ c \in Proper /\ segs = Append(p, c)
      BY FrontIs DEF IsPath
<1>2. p \in Seq(Name) /\ c \in Name /\ c # "/" /\ "/" \in Name
      BY <1>1, ProperIs DEF Proper, Name
<1>3. s \in Seq(Name)
      BY <1>2, SlashedAppend
<1>4. Slashed(segs) = f
      BY <1>1, PathMore
<1> HIDE DEF p, c, s
<1>5. e \in Seq(Name) /\ Len(e) \in Nat /\ Len(e) >= 1 /\ e[Len(e)] = "/"
      BY <1>2, <1>3
<1> HIDE DEF e
<1>6. /\ f \in Seq(Name) /\ Len(f) = Len(e) + 1 /\ f[Len(e) + 1] = c
      /\ \A k \in 1 .. Len(e) : f[k] = e[k]
      BY <1>2, <1>5
<1> HIDE DEF f
<1>7. UpDirectory(f) = e
    <2>1. Len(f) > Len(e) /\ \A k \in Len(e) + 1 .. Len(f) - 1 : f[k] # "/"
          BY <1>5, <1>6
    <2> QED BY <1>5, <1>6, <2>1, UpCuts
<1>8. UpDirectory(Append(f, "/")) = e
    <2> DEFINE g == Append(f, "/")
    <2>1. g \in Seq(Name) /\ Len(g) = Len(f) + 1 /\ \A k \in 1 .. Len(f) : g[k] = f[k]
          BY <1>2, <1>6
    <2> HIDE DEF g
    <2>2. Len(g) > Len(e) /\ \A k \in 1 .. Len(e) : g[k] = e[k]
          BY <1>5, <1>6, <2>1
    <2>3. \A k \in Len(e) + 1 .. Len(g) - 1 : g[k] # "/"
        <3>1. \A k \in Len(e) + 1 .. Len(g) - 1 : k = Len(e) + 1 /\ k \in 1 .. Len(f)
              BY <1>5, <1>6, <2>1
        <3> QED BY <1>2, <1>6, <2>1, <3>1
    <2>4. UpDirectory(g) = e
          BY <1>5, <2>1, <2>2, <2>3, UpCuts
    <2> QED BY <2>4 DEF g
<1>9. UpDirectory(d) = e
      BY <1>4, <1>7, <1>8 DEF IsPath
<1>10. IsPath(e, p)
      BY <1>1 DEF IsPath, e, s
<1> QED BY <1>9, <1>10 DEF e, s, p

\* A directory entered is the path with its name.
LEMMA DownPath ==
    ASSUME NEW d, NEW segs, IsPath(d, segs), NEW c \in Proper
    PROVE  /\ DownDirectory(d, c) = Slashed(Append(segs, c)) /\ IsPath(DownDirectory(d, c), Append(segs, c))
           /\ Len(Slashed(Append(segs, c))) = 2 * (Len(segs) + 1) /\ Len(segs) \in Nat
<1> DEFINE s == Slashed(segs)
           e == Append(s, "/")
           more == Append(segs, c)
<1>1. segs \in Seq(Proper) /\ segs \in Seq(Name) /\ c \in Name /\ c # NoName /\ "/" \in Name
      BY ProperIs DEF IsPath, Proper, Name
<1>2. s \in Seq(Name)
      BY <1>1, SlashedAppend
<1>3. more \in Seq(Proper) /\ Slashed(more) = Append(e, c) /\ more # <<>> /\ Len(more) = Len(segs) + 1 /\ Len(segs) \in Nat
    <2>1. more \in Seq(Proper) /\ Slashed(more) = Append(e, c)
          BY <1>1, PathMore
    <2>2. more # <<>>
          BY <1>1, FrontAppend
    <2> QED BY <1>1, <2>1, <2>2
<1>4. e \in Seq(Name) /\ Last(e) = "/"
      BY <1>1, <1>2, FrontAppend
<1>5. NoName # "/"
      BY Zenon DEF NoName
<1>6. DownDirectory(d, c) = Append(e, c)
    <2>1. CASE d = e
        <3>1. DownDirectory(d, c) = strcat(d, c)
              BY <1>4, <2>1 DEF DownDirectory
        <3> HIDE DEF e
        <3>2. strcat(d, c) = Append(d, c)
              BY <1>1, <1>4, <2>1, StrcatIs
        <3> QED BY <2>1, <3>1, <3>2
    <2>2. CASE segs # <<>> /\ d = s
        <3>1. Last(s) # "/"
            <4> DEFINE p == Front(segs)
                       x == Last(segs)
                       b == Append(Slashed(p), "/")
            <4>1. p \in Seq(Proper) /\ x \in Proper /\ segs = Append(p, x)
                  BY <1>1, <2>2, FrontIs
            <4>2. p \in Seq(Name) /\ x \in Name /\ x # "/"
                  BY <4>1, ProperIs DEF Proper
            <4>3. b \in Seq(Name)
                <5>1. Slashed(p) \in Seq(Name)
                      BY <4>2, SlashedAppend
                <5> QED BY <1>1, <5>1
            <4>4. s = Append(b, x)
                  BY <4>1, PathMore
            <4> HIDE DEF b, p, x, s
            <4>5. Last(s) = x
                  BY <4>2, <4>3, <4>4, FrontAppend
            <4> QED BY <4>2, <4>5
        <3>2. DownDirectory(d, c) = strcat(strcat(s, "/"), c)
              BY <2>2, <3>1 DEF DownDirectory
        <3>3. strcat(s, "/") = e
              BY <1>1, <1>2, <1>5, StrcatIs
        <3> HIDE DEF e
        <3>4. strcat(e, c) = Append(e, c)
              BY <1>1, <1>4, StrcatIs
        <3> QED BY <3>2, <3>3, <3>4
    <2> QED BY <2>1, <2>2 DEF IsPath
<1>7. Len(Slashed(more)) = 2 * Len(more)
      BY <1>3, SpelledIs DEF SplitsAsSpelled
<1> HIDE DEF more, e, s
<1>8. IsPath(Slashed(more), more)
      BY <1>3 DEF IsPath
<1> QED BY <1>3, <1>6, <1>7, <1>8 DEF more

\* What the navigator lists of a directory.
FoundAt(all, d) == IF d = <<"/">> THEN ROOT ELSE Reached(all, ROOT, path(d))
Listing(all, d, offset) ==
    IF FoundAt(all, d) = NULL THEN <<>>
    ELSE [k \in 1 .. Len(all[FoundAt(all, d)].list) - offset |-> all[FoundAt(all, d)].list[k + offset]]

LEMMA ReaddirIs ==
    ASSUME NEW d, NEW offset
    PROVE  find(d) = FoundAt(nodes, d) /\ readdir(d, offset) = Listing(nodes, d, offset)
<1>1. find(d) = FoundAt(nodes, d)
      BY FindReached DEF FoundAt
<1> QED BY <1>1 DEF readdir, ramfs_readdir, Listing

\* d is the path of a directory of the tree, at least if the archive is plain.
InDirectory(all, plain, d) ==
    \E segs : /\ IsPath(d, segs)
              /\ plain => Reached(all, ROOT, segs) # NULL /\ all[Reached(all, ROOT, segs)].dir

\* The navigator lists the directory it is in, and the edit shows its path.
NavInv ==
    /\ typed \in Nat /\ (phase \notin {"gui", "stopped"} => typed = 0)
    /\ phase = "gui" =>
          /\ fn.files = <<NULL>> \o Listing(nodes, fn.directory, IF skipped THEN UnsetOffset ELSE 0)
          /\ typed = 0 => edit = [text |-> fn.directory, ended |-> TRUE]
          /\ Named => InDirectory(nodes, PlainDisk(disk), fn.directory)

\* The navigator was set.
LEMMA SetNav ==
    ASSUME NEW d \in Directories, NEW offset \in {0, UnsetOffset}, fn' = file_navigator_set(d, offset),
           skipped' = (offset # 0), edit' = edit_set_text(d), typed' = 0, UNCHANGED boot,
           Named => InDirectory(nodes, PlainDisk(disk), d)
    PROVE  NavInv'
<1>1. nodes' = nodes /\ disk' = disk
      BY DEF boot, disk
<1>2. fn'.directory = d /\ fn'.files = <<NULL>> \o Listing(nodes, d, offset)
      BY ReaddirIs DEF file_navigator_set
<1>3. (IF skipped' THEN UnsetOffset ELSE 0) = offset
      BY DEF UnsetOffset
<1>4. edit' = [text |-> d, ended |-> TRUE]
    <2>1. d \in Seq(Name) /\ Len(d) <= EditLength /\ Len(d) \in Nat /\ EditLength \in Nat
          BY DirectoryIs
    <2>2. (IF Len(d) > EditLength THEN SubSeq(d, 1, EditLength + 1) ELSE d) = d
          BY <2>1
    <2> QED BY <2>2 DEF edit_set_text
<1>5. Named' => Named
      BY <1>1 DEF Named
<1>6. fn'.files = <<NULL>> \o Listing(nodes', fn'.directory, IF skipped' THEN UnsetOffset ELSE 0)
      BY <1>1, <1>2, <1>3
<1>7. Named' => InDirectory(nodes', PlainDisk(disk'), fn'.directory)
      BY <1>1, <1>2, <1>5
<1> QED BY <1>2, <1>4, <1>6, <1>7 DEF NavInv

\* "/" is there.
LEMMA TopPath == FilesInv /\ phase \in {"up", "gui"} => InDirectory(nodes, PlainDisk(disk), <<"/">>)
<1> SUFFICES ASSUME FilesInv, phase \in {"up", "gui"} PROVE InDirectory(nodes, PlainDisk(disk), <<"/">>)
    OBVIOUS
<1> DEFINE none == <<>>
           top == <<"/">>
<1>1. none \in Seq(Proper) /\ top = Append(Slashed(none), "/")
      BY SlashedEmpty
<1>2. IsTree(nodes) /\ ROOT \in NodeOf(nodes) /\ nodes[ROOT].dir
      BY DEF FilesInv, NodeOf, ROOT, Mounts, Devices, IsTree
<1>3. Reached(nodes, ROOT, none) = ROOT
      BY <1>2, ReachEmpty
<1> HIDE DEF none, top
<1>4. IsPath(top, none)
      BY <1>1 DEF IsPath
<1>5. ROOT # NULL
      BY DEF ROOT, NULL
<1> QED BY <1>2, <1>3, <1>4, <1>5 DEF InDirectory, top

\* ".." leads to a directory.
LEMMA UpThere ==
    ASSUME FilesInv, NEW d, d # <<"/">>, InDirectory(nodes, PlainDisk(disk), d)
    PROVE  InDirectory(nodes, PlainDisk(disk), UpDirectory(d))
<1>1. PICK segs : /\ IsPath(d, segs)
                  /\ PlainDisk(disk) => Reached(nodes, ROOT, segs) # NULL /\ nodes[Reached(nodes, ROOT, segs)].dir
      BY DEF InDirectory
<1>2. IsTree(nodes) /\ Len(nodes) >= 1
      BY DEF FilesInv, ROOT
<1>3. segs \in Seq(Proper) /\ segs # <<>>
      BY <1>1, <1>2, FindPath
<1> DEFINE p == Front(segs)
           c == Last(segs)
           m == Reached(nodes, ROOT, p)
<1>4. IsPath(UpDirectory(d), p)
      BY <1>1, <1>3, UpPath
<1>5. p \in Seq(Name) /\ c \in Name /\ segs = Append(p, c)
    <2>1. p \in Seq(Proper) /\ c \in Proper /\ segs = Append(p, c)
          BY <1>3, FrontIs
    <2> QED BY <2>1, ProperIs
<1> HIDE DEF p, c
<1>6. ASSUME PlainDisk(disk) PROVE m # NULL /\ nodes[m].dir
    <2>1. ROOT \in NodeOf(nodes)
          BY <1>2, TreeIs DEF NodeOf, ROOT
    <2>2. Reached(nodes, ROOT, segs) = Look(nodes, m, c) /\ m \in NodeOf(nodes)
          BY <1>2, <1>5, <2>1, ReachAppend
    <2> HIDE DEF m
    <2>3. Look(nodes, m, c) # NULL
          BY <1>1, <1>6, <2>2
    <2>4. m \in 1 .. Len(nodes) /\ nodes[m].dir
          BY <1>2, <2>2, <2>3, LookIs
    <2>5. m # NULL
          BY <2>4 DEF NULL
    <2> QED BY <2>4, <2>5
<1> QED BY <1>4, <1>6 DEF InDirectory

\* Where the entries come from: the node that the directory's path leads to.
LEMMA EntryIn ==
    ASSUME FilesInv, phase = "gui", GuiInv, NavInv, NEW n, Entry(n)
    PROVE  LET D == FoundAt(nodes, fn.directory)
           IN  D \in 1 .. Len(nodes) /\ \E k \in 1 .. Len(nodes[D].list) : n = nodes[D].list[k]
<1> DEFINE D == FoundAt(nodes, fn.directory)
           o == IF skipped THEN UnsetOffset ELSE 0
           r == Listing(nodes, fn.directory, o)
           one == <<NULL>>
<1>1. PICK x \in 1 .. Len(fn.files) : n = fn.files[x] /\ n # NULL
      BY DEF Entry
<1>2. fn.files = one \o r /\ o \in Nat
      BY DEF NavInv, UnsetOffset
<1>3. IsTree(nodes) /\ Len(nodes) >= 1 /\ fn.directory \in Seq(Name)
      BY DEF FilesInv, ROOT, GuiInv, IsNavigator, Directories
<1>4. D \in NodeOf(nodes)
      BY <1>3, FindIs, ReaddirIs
<1>5. one \in Seq(Nat) /\ one[1] = NULL
      BY DEF NULL
<1>11. Len(one) = 1
      OBVIOUS
<1> HIDE DEF D, o, one
<1>6. CASE D = NULL
    <2>1. r = <<>>
          BY <1>6 DEF Listing, D
    <2>2. one \o <<>> = one
          BY <1>5
    <2>3. fn.files = one
          BY <1>2, <2>1, <2>2
    <2>5. Len(fn.files) = 1
          BY <1>11, <2>3
    <2>4. x = 1
          BY <1>1, <2>5
    <2> QED BY <1>1, <1>5, <2>3, <2>4
<1>7. CASE D # NULL
    <2> DEFINE list == nodes[D].list
               len == Len(list) - o
               m == IF len > 0 THEN len ELSE 0
    <2>1. D \in 1 .. Len(nodes)
          BY <1>4, <1>7 DEF NodeOf
    <2>2. list \in Seq(Nat)
          BY <1>3, <2>1, TreeIs
    <2>3. r = [k \in 1 .. len |-> list[k + o]]
          BY <1>7 DEF Listing, D
    <2> HIDE DEF list, r
    <2>4. Len(list) \in Nat /\ len \in Int
          BY <1>2, <2>2
    <2>5. m \in Nat /\ 1 .. m = 1 .. len
          BY <2>4
    <2>6. \A k \in 1 .. len : k + o \in 1 .. Len(list) /\ list[k + o] \in Nat
          BY <1>2, <2>2, <2>4
    <2> HIDE DEF len, m
    <2>7. r \in [1 .. m -> Nat] /\ \A k \in 1 .. m : r[k] = list[k + o]
          BY <2>3, <2>5, <2>6
    <2>8. r \in Seq(Nat) /\ Len(r) = m
          BY <2>5, <2>7
    <2>9. Len(fn.files) = Len(one) + m /\ \A k \in 1 .. Len(one) + Len(r) : fn.files[k] = IF k <= Len(one) THEN one[k] ELSE r[k - Len(one)]
          BY <1>2, <1>5, <2>8, ConcatProperties, ZenonT(30), SMTT(30)
    <2>10. x # 1
        <3> SUFFICES ASSUME x = 1 PROVE FALSE
            OBVIOUS
        <3>1. x \in 1 .. Len(one) + Len(r) /\ x <= Len(one)
              BY <1>1, <1>11, <2>8, <2>9
        <3> QED BY <1>1, <1>5, <2>9, <3>1
    <2>11. x \in 1 .. Len(one) + Len(r) /\ ~(x <= Len(one)) /\ x - 1 \in 1 .. m
          BY <1>1, <1>11, <2>5, <2>8, <2>9, <2>10
    <2>12. n = r[x - 1]
          BY <1>1, <1>11, <2>9, <2>11
    <2>13. x - 1 + o \in 1 .. Len(list)
          BY <2>5, <2>6, <2>11
    <2>14. n = list[x - 1 + o]
          BY <2>7, <2>11, <2>12
    <2> QED BY <2>1, <2>13, <2>14 DEF list, D
<1> QED BY <1>6, <1>7

\* An entry of the directory whose segments are segs.
EntryAt(n, segs) ==
    LET D == Reached(nodes, ROOT, segs)
    IN  /\ IsPath(fn.directory, segs) /\ n \in 1 .. Len(nodes) /\ nodes[n].name \in Proper
        /\ PlainDisk(disk) => D # NULL /\ nodes[D].dir
        /\ D \in 1 .. Len(nodes) /\ \E k \in 1 .. Len(nodes[D].list) : n = nodes[D].list[k]

LEMMA EntryPath ==
    ASSUME FilesInv, phase = "gui", GuiInv, NavInv, Named, NEW n, Entry(n)
    PROVE  \E segs : EntryAt(n, segs)
<1>1. PICK segs : /\ IsPath(fn.directory, segs)
                  /\ PlainDisk(disk) => Reached(nodes, ROOT, segs) # NULL /\ nodes[Reached(nodes, ROOT, segs)].dir
      BY DEF NavInv, InDirectory
<1> DEFINE D == FoundAt(nodes, fn.directory)
<1>2. IsTree(nodes) /\ Len(nodes) >= 1
      BY DEF FilesInv, ROOT
<1>3. D = Reached(nodes, ROOT, segs)
      BY <1>1, <1>2, FindPath, ReaddirIs
<1>4. D \in 1 .. Len(nodes) /\ \E k \in 1 .. Len(nodes[D].list) : n = nodes[D].list[k]
      BY EntryIn
<1> HIDE DEF D
<1>5. n \in 1 .. Len(nodes) /\ nodes[n].name \in Proper
      BY <1>4, EntryFound
<1> QED BY <1>1, <1>3, <1>4, <1>5 DEF EntryAt

\* An entry's name leads on from the directory's segments.
LEMMA EntryLeads ==
    ASSUME FilesInv, phase = "gui", NEW n, NEW segs, EntryAt(n, segs)
    PROVE  LET D == Reached(nodes, ROOT, segs)
               c == nodes[n].name
           IN  /\ segs \in Seq(Proper) /\ Append(segs, c) \in Seq(Proper)
               /\ Reached(nodes, ROOT, Append(segs, c)) = Look(nodes, D, c)
               /\ nodes[D].dir => Look(nodes, D, c) = FindName(nodes, nodes[D].list, c)
<1> DEFINE D == Reached(nodes, ROOT, segs)
           c == nodes[n].name
<1>1. segs \in Seq(Proper) /\ c \in Proper /\ D \in 1 .. Len(nodes)
      BY DEF EntryAt, IsPath
<1>2. segs \in Seq(Name) /\ c \in Name
      BY <1>1, ProperIs
<1>3. IsTree(nodes) /\ ROOT \in NodeOf(nodes)
      BY TreeIs DEF FilesInv, NodeOf, ROOT
<1> HIDE DEF c
<1>4. Reached(nodes, ROOT, Append(segs, c)) = Look(nodes, D, c)
      BY <1>2, <1>3, ReachAppend
<1>5. nodes[D].dir => Look(nodes, D, c) = FindName(nodes, nodes[D].list, c)
    <2>1. D # NULL
          BY <1>1 DEF NULL
    <2> HIDE DEF D
    <2> QED BY <2>1 DEF Look
<1>6. Append(segs, c) \in Seq(Proper)
      BY <1>1
<1> QED BY <1>1, <1>4, <1>5, <1>6 DEF c

\* A directory that is listed can be entered.
LEMMA DownThere ==
    ASSUME FilesInv, PlainInv, phase = "gui", NEW n, NEW segs, EntryAt(n, segs), nodes[n].dir
    PROVE  LET more == Append(segs, nodes[n].name)
               down == DownDirectory(fn.directory, nodes[n].name)
           IN  /\ IsPath(down, more) /\ Len(down) = 2 * Len(more) /\ Len(more) \in Nat /\ more \in Seq(Proper)
               /\ PlainDisk(disk) => Reached(nodes, ROOT, more) # NULL /\ nodes[Reached(nodes, ROOT, more)].dir
<1> DEFINE c == nodes[n].name
           more == Append(segs, c)
           down == DownDirectory(fn.directory, c)
           D == Reached(nodes, ROOT, segs)
           f == Look(nodes, D, c)
<1>1. IsPath(fn.directory, segs) /\ c \in Proper /\ segs \in Seq(Proper)
      BY EntryLeads DEF EntryAt
<1>2. IsPath(down, more) /\ Len(down) = 2 * (Len(segs) + 1) /\ Len(segs) \in Nat
      BY <1>1, DownPath
<1>3. more \in Seq(Proper) /\ Len(more) = Len(segs) + 1
      BY <1>1
<1>4. Reached(nodes, ROOT, more) = f /\ (nodes[D].dir => f = FindName(nodes, nodes[D].list, c))
      BY EntryLeads
<1>5. ASSUME PlainDisk(disk) PROVE f # NULL /\ nodes[f].dir
    <2>1. PlainBoot
          BY <1>5, PlainBootIs
    <2>2. nodes[D].dir /\ D \in 1 .. Len(nodes)
          BY <1>5 DEF EntryAt
    <2>3. PICK k \in 1 .. Len(nodes[D].list) : n = nodes[D].list[k]
          BY DEF EntryAt
    <2>4. f = FindName(nodes, nodes[D].list, nodes[n].name)
          BY <1>4, <2>2
    <2> HIDE DEF D, f
    <2>5. f \in 1 .. Len(nodes) /\ nodes[f].dir
          BY <2>1, <2>2, <2>3, <2>4, SameKind
    <2> QED BY <2>5 DEF NULL
<1> HIDE DEF f, down, more
<1>6. Len(down) = 2 * Len(more) /\ Len(more) \in Nat
      BY <1>2, <1>3
<1> QED BY <1>2, <1>3, <1>4, <1>5, <1>6 DEF down, more, c

\* Its steps.
LEMMA StepNav ==
    FilesInv /\ PlainInv /\ WindowsInv /\ GuiInv /\ NavInv /\ [DNext]_dvars => NavInv'
<1> SUFFICES ASSUME FilesInv, PlainInv, WindowsInv, GuiInv, NavInv, [DNext]_dvars PROVE NavInv'
    OBVIOUS
<1> DEFINE d == fn.directory
<1>0. Does
      BY StepDoes
<1>1. CASE FNext /\ UNCHANGED gui
    <2>1. phase' # "gui" /\ phase # "stopped" /\ typed' = typed /\ phase # "gui"
          BY <1>1, BootStep DEF gui
    <2> QED BY <2>1 DEF NavInv
<1>2. CASE gui_start
    <2> DEFINE top == <<"/">>
    <2>1. /\ phase = "up" /\ UNCHANGED boot /\ edit' = edit_set_text(top) /\ typed' = typed
          /\ \E offset \in {0, UnsetOffset} : fn' = file_navigator_set(top, offset) /\ skipped' = (offset # 0)
          BY <1>2 DEF gui_start
    <2>2. top \in Directories /\ InDirectory(nodes, PlainDisk(disk), top)
          BY <2>1, TopIs, TopPath
    <2>3. typed' = 0
          BY <2>1 DEF NavInv
    <2> HIDE DEF top
    <2> QED BY <2>1, <2>2, <2>3, SetNav
<1>3. CASE Quiet
    <2>1. /\ phase' = phase /\ nodes' = nodes /\ disk' = disk /\ skipped' = skipped
          /\ fn'.directory = d /\ fn'.files = fn.files
          /\ UNCHANGED <<edit, typed>> \/ typed' = typed + 1
          BY <1>3 DEF Quiet, boot, disk
    <2>2. typed' \in Nat /\ (typed' = 0 => typed = 0 /\ edit' = edit)
          BY <2>1 DEF NavInv
    <2>3. Named' => Named
          BY <2>1 DEF Named
    <2>4. phase \notin {"gui", "stopped"} => typed' = 0
        <3>1. CASE UNCHANGED dvars
              BY <3>1 DEF NavInv, dvars, gui
        <3>2. CASE DNext
              BY <1>1, <1>2, <3>2, GuiPhase, BootStep DEF DNext, NavInv, gui, gui_start, gui_key, gui_mouse
        <3> QED BY <3>1, <3>2
    <2> QED BY <2>1, <2>2, <2>3, <2>4 DEF NavInv
<1>4. CASE phase = "gui" /\ Chosen
    <2>1. d \in Directories /\ phase' \in {"gui", "stopped"}
          BY <1>4, GuiPhase, BootStep DEF GuiInv, IsNavigator, DNext, dvars, fvars
    <2>2. ASSUME NEW offset \in {0, UnsetOffset}, choose_up(offset) PROVE NavInv'
        <3> DEFINE up == UpDirectory(d)
        <3>1. d # <<"/">> /\ ChangeDirectory(up, offset, {})
              BY <2>2 DEF choose_up
        <3>2. up \in Directories
              BY <2>1, <3>1, UpIs
        <3>3. Named => InDirectory(nodes, PlainDisk(disk), up)
              BY <1>4, <3>1, UpThere DEF NavInv
        <3> HIDE DEF up
        <3> QED BY <3>1, <3>2, <3>3, SetNav DEF ChangeDirectory, file_explorer_on_change_dir
    <2>3. ASSUME NEW offset \in {0, UnsetOffset}, choose_up_top(offset) PROVE NavInv'
        <3> DEFINE top == <<"/">>
        <3>1. ChangeDirectory(top, offset, {"top"})
              BY <2>3 DEF choose_up_top
        <3>2. top \in Directories /\ InDirectory(nodes, PlainDisk(disk), top)
              BY <1>4, TopIs, TopPath
        <3> HIDE DEF top
        <3> QED BY <3>1, <3>2, SetNav DEF ChangeDirectory, file_explorer_on_change_dir
    <2>4. ASSUME NEW n \in NodeOf(nodes), NEW offset \in {0, UnsetOffset}, Entry(n), choose_down(n, offset) PROVE NavInv'
        <3> DEFINE down == DownDirectory(d, nodes[n].name)
                   long == Len(down) > EditLength
                   stores == IF long THEN {"edit"} ELSE {}
        <3>1. /\ ChangeDirectory(down, offset, stores) /\ nodes[n].dir
              /\ phase' = IF long THEN "stopped" ELSE phase
              BY <2>4 DEF choose_down
        <3>2. n \in 1 .. Len(nodes) /\ IsTree(nodes)
              BY <2>4 DEF NodeOf, FilesInv, Entry
        <3>3. nodes[n].name \in Name
              BY <3>2, TreeIs
        <3> HIDE DEF stores
        <3>4. CASE long
            <4>1. phase' = "stopped" /\ typed' = 0
                  BY <3>1, <3>4 DEF ChangeDirectory, file_explorer_on_change_dir
            <4> QED BY <4>1 DEF NavInv
        <3>5. CASE ~long
            <4>1. down \in Directories
                  BY <2>1, <3>3, <3>5, DownIs
            <4>2. ASSUME Named PROVE InDirectory(nodes, PlainDisk(disk), down)
                <5>1. PICK segs : EntryAt(n, segs)
                      BY <1>4, <2>4, <4>2, EntryPath
                <5> QED BY <1>4, <3>1, <5>1, DownThere DEF InDirectory
            <4> HIDE DEF down
            <4> QED BY <3>1, <4>1, <4>2, SetNav DEF ChangeDirectory, file_explorer_on_change_dir
        <3> QED BY <3>4, <3>5
    <2>5. ASSUME NEW n \in NodeOf(nodes), choose_file(n) PROVE NavInv'
        <3>1. /\ nodes' = nodes /\ disk' = disk /\ skipped' = skipped /\ fn' = fn /\ typed' = 0
              /\ edit' = edit_set_text(d)
              BY <2>5 DEF choose_file, boot, disk, file_explorer_on_change_dir
        <3>2. edit' = [text |-> d, ended |-> TRUE]
            <4>1. d \in Seq(Name) /\ Len(d) <= EditLength /\ Len(d) \in Nat /\ EditLength \in Nat
                  BY <2>1, DirectoryIs
            <4>2. (IF Len(d) > EditLength THEN SubSeq(d, 1, EditLength + 1) ELSE d) = d
                  BY <4>1
            <4> QED BY <3>1, <4>2 DEF edit_set_text
        <3>3. Named' => Named
              BY <3>1 DEF Named
        <3> QED BY <1>4, <2>1, <3>1, <3>2, <3>3 DEF NavInv
    <2> QED BY <1>4, <2>2, <2>3, <2>4, <2>5 DEF Chosen
<1> QED BY <1>0, <1>1, <1>2, <1>3, <1>4 DEF Does

LEMMA InitNav == DInit => NavInv
  BY DEF DInit, FInit, NavInv

-----------------------------------------------------------------------------
(* Descriptors.                                                             *)

\* A task's files are as many as it counts.
Counts(t) == t.file_count # Pointer => (\E S : t.files \in Seq(S)) /\ Len(t.files) = t.file_count

\* The GUI opens two files and then one for each view.
TaskInv ==
    /\ Counts(task)
    /\ phase \notin {"gui", "stopped"} => task.file_count = 0
    /\ phase = "gui" => IF task.file_count = Pointer THEN Len(windows) >= MaxFiles
                        ELSE task.file_count <= Len(windows) + 1

LEMMA OpenCounts ==
    ASSUME NEW t, IsTask(t), Counts(t), NEW name
    PROVE  LET after == open(name, t).task
           IN  /\ IsTask(after) /\ Counts(after)
               /\ \/ after.file_count = t.file_count
                  \/ t.file_count = MaxFiles /\ after.file_count = Pointer
                  \/ /\ t.file_count # Pointer /\ t.file_count # MaxFiles
                     /\ after.file_count = t.file_count + 1
<1> DEFINE file == find(name)
           o == open(name, t)
           after == o.task
           over == [t EXCEPT !.file_count = Pointer]
           longer == Append(t.files, file)
           more == [file_count |-> t.file_count + 1, files |-> longer]
<1>1. Opened(t, file, Stray(name), o)
      BY OpenCases
<1>2. IsTask(after)
      BY OpenIs
<1>3. over.file_count = Pointer
      BY DEF IsTask
<1>4. ASSUME t.file_count # Pointer PROVE (\E S : longer \in Seq(S)) /\ Len(longer) = t.file_count + 1
    <2>1. PICK A : t.files \in Seq(A) /\ Len(t.files) = t.file_count
          BY <1>4 DEF Counts
    <2> DEFINE S == A \cup {file}
    <2>2. t.files \in Seq(S) /\ file \in S
          BY <2>1
    <2> HIDE DEF file, S
    <2>3. longer \in Seq(S) /\ Len(longer) = Len(t.files) + 1
          BY <2>2
    <2> QED BY <2>1, <2>3
<1> HIDE DEF file, o, longer
<1>5. more.file_count = t.file_count + 1 /\ more.files = longer
      OBVIOUS
<1>6. \/ after = t
      \/ t.file_count = MaxFiles /\ after = over
      \/ t.file_count # Pointer /\ t.file_count # MaxFiles /\ after = more
      BY <1>1 DEF Opened, longer
<1> HIDE DEF over, more, after
<1>7. CASE after = t
      BY <1>2, <1>7 DEF o, after
<1>8. CASE t.file_count = MaxFiles /\ after = over
    <2>1. Counts(after)
          BY <1>3, <1>8 DEF Counts
    <2> QED BY <1>2, <1>3, <1>8, <2>1 DEF o, after
<1>9. CASE t.file_count # Pointer /\ t.file_count # MaxFiles /\ after = more
    <2>1. Counts(after)
          BY <1>4, <1>5, <1>9 DEF Counts
    <2> QED BY <1>2, <1>5, <1>9, <2>1 DEF o, after
<1> QED BY <1>6, <1>7, <1>8, <1>9

\* The path of an entry.
LEMMA FilePathIs ==
    ASSUME NEW d \in Directories, NEW name \in Name
    PROVE  /\ FilePath(d, name) \in Seq(Name)
           /\ name # NoName => FilePath(d, name) = Append(Append(d, "/"), name)
<1> DEFINE e == Append(d, "/")
<1>1. d \in Seq(Name) /\ "/" \in Name
      BY DirectoryIs DEF Name
<1>2. NoName # "/"
      BY Zenon DEF NoName
<1>3. strcat(d, "/") = e
      BY <1>1, <1>2, StrcatIs
<1>4. e \in Seq(Name)
      BY <1>1
<1> HIDE DEF e
<1>5. FilePath(d, name) = strcat(e, name)
      BY <1>3 DEF FilePath
<1>6. strcat(e, name) = IF name = NoName THEN e ELSE Append(e, name)
      BY <1>4, StrcatIs
<1>7. Append(e, name) \in Seq(Name)
      BY <1>4
<1> QED BY <1>4, <1>5, <1>6, <1>7 DEF e

LEMMA InitTask == DInit => TaskInv
<1> SUFFICES ASSUME DInit PROVE TaskInv
    OBVIOUS
<1>1. phase = "start" /\ task = [file_count |-> 0, files |-> <<>>]
      BY DEF DInit, FInit
<1> DEFINE none == <<>>
<1>2. (\E S : none \in Seq(S)) /\ Len(none) = 0
    <2>1. none \in Seq(Nat) /\ Len(none) = 0
          OBVIOUS
    <2> QED BY <2>1
<1> HIDE DEF none
<1>3. task.file_count = 0 /\ task.files = none
      BY <1>1 DEF none
<1> QED BY <1>1, <1>2, <1>3 DEF TaskInv, Counts

LEMMA StepTask == FilesInv /\ WindowsInv /\ GuiInv /\ TaskInv /\ [DNext]_dvars => TaskInv'
<1> SUFFICES ASSUME FilesInv, WindowsInv, GuiInv, TaskInv, [DNext]_dvars PROVE TaskInv'
    OBVIOUS
<1>0. Does /\ MaxFiles \in Nat \ {0} /\ Len(windows) \in Nat /\ IsTask(task)
      BY StepDoes, FilesAssumption DEF WindowsInv, IsWindows, GuiInv
<1>1. CASE FNext /\ UNCHANGED gui
    <2>1. phase' # "gui" /\ phase # "stopped" /\ phase # "gui"
          BY <1>1, BootStep
    <2>2. task' = task
          BY <1>1 DEF FNext, fs_root, serial, tar_parse, tar_parse_end, ramfs_root, ramfs_add, ramfs_register
    <2> QED BY <2>1, <2>2 DEF TaskInv, Counts
<1>2. CASE gui_start
    <2> DEFINE first == open(CursorFile, task).task
               second == open(IconFile, first).task
    <2>1. phase = "up" /\ phase' = "gui" /\ task' = second /\ task.file_count = 0
        <3>1. task' = second
              BY <1>2, StartOpens
        <3> QED BY <1>2, <3>1 DEF gui_start, TaskInv
    <2>2. Len(windows') = 1
          BY <1>2, StartStep
    <2>4. IsTask(first) /\ Counts(first) /\ first.file_count \in {0, 1}
        <3>1. Counts(task)
              BY DEF TaskInv
        <3>2. /\ IsTask(first) /\ Counts(first)
              /\ \/ first.file_count = 0
                 \/ 0 = MaxFiles /\ first.file_count = Pointer
                 \/ first.file_count = 0 + 1
              BY <1>0, <2>1, <3>1, OpenCounts
        <3> QED BY <1>0, <3>2
    <2> HIDE DEF first
    <2>5. /\ Counts(second)
          /\ \/ second.file_count = first.file_count
             \/ first.file_count = MaxFiles /\ second.file_count = Pointer
             \/ second.file_count = first.file_count + 1
          BY <2>4, OpenCounts
    <2> HIDE DEF second
    <2>6. IF second.file_count = Pointer THEN 1 >= MaxFiles ELSE second.file_count <= 1 + 1
          BY <1>0, <2>4, <2>5 DEF Pointer
    <2> QED BY <2>1, <2>2, <2>5, <2>6 DEF TaskInv
<1>3. CASE Quiet
      BY <1>3 DEF Quiet, TaskInv, SameViews, Counts
<1>4. CASE phase = "gui" /\ Chosen
    <2>1. phase' \in {"gui", "stopped"}
          BY <1>4, GuiPhase, BootStep DEF DNext, dvars, fvars
    <2>2. ASSUME task' = task, windows' = windows PROVE TaskInv'
          BY <1>4, <2>1, <2>2 DEF TaskInv, Counts
    <2>3. ASSUME NEW offset, choose_up(offset) \/ choose_up_top(offset) \/ \E n : choose_down(n, offset) PROVE TaskInv'
        <3>1. task' = task /\ windows' = windows
              BY <2>3 DEF choose_up, choose_up_top, choose_down, ChangeDirectory
        <3> QED BY <2>2, <3>1
    <2>4. ASSUME NEW n \in NodeOf(nodes), Entry(n), choose_file(n) PROVE TaskInv'
        <3> DEFINE file == FilePath(fn.directory, nodes[n].name)
                   after == open(file, task).task
        <3>1. text_view(file, n)
              BY <2>4 DEF choose_file
        <3>2. task' = after
              BY <3>1 DEF text_view
        <3>3. Len(windows') = Len(windows) + 1
              BY <1>4, <3>1, ViewStep DEF ViewAdded
        <3> HIDE DEF file
        <3>5. /\ Counts(after)
              /\ \/ after.file_count = task.file_count
                 \/ task.file_count = MaxFiles /\ after.file_count = Pointer
                 \/ /\ task.file_count # Pointer /\ task.file_count # MaxFiles
                    /\ after.file_count = task.file_count + 1
              BY <1>0, OpenCounts DEF TaskInv
        <3> HIDE DEF after
        <3>6. IF task.file_count = Pointer THEN Len(windows) >= MaxFiles ELSE task.file_count <= Len(windows) + 1
              BY <1>4 DEF TaskInv
        <3>7. task.file_count = Pointer \/ task.file_count \in Nat
              BY <1>0 DEF IsTask
        <3>8. IF after.file_count = Pointer THEN Len(windows) + 1 >= MaxFiles
              ELSE after.file_count <= Len(windows) + 1 + 1
              BY <1>0, <3>5, <3>6, <3>7 DEF Pointer
        <3> QED BY <2>1, <3>2, <3>3, <3>5, <3>8 DEF TaskInv
    <2> QED BY <1>4, <2>3, <2>4 DEF Chosen
<1> QED BY <1>0, <1>1, <1>2, <1>3, <1>4 DEF Does

-----------------------------------------------------------------------------
(* What the views show.                                                     *)

SizeOf(all, d, n) == tar_getsize(d.entries[all[n].inode].size)

\* What a read of at most size gives of a file.
IsRead(all, d, file, size, len) ==
    \/ all[file].read = "ram" /\ len \in 0 .. size /\ len <= SizeOf(all, d, file)
    \/ all[file].read = "device" /\ len = size
    \/ all[file].read \notin {"ram", "device"} /\ len = 0

\* The text that a view of a file gets: nothing, or what its read gives of it.
IsText(all, d, file, text) ==
    \/ text.file = NULL /\ text.len = 0
    \/ file # NULL /\ text.file = file /\ IsRead(all, d, file, BufSize, text.len)

\* A descriptor that was just opened is of the file that was found.
LEMMA DescriptorIs ==
    ASSUME FilesInv, NEW t, IsTask(t), Counts(t), NEW name, find(name) \in NodeOf(nodes),
           open(name, t).fd # NoFd, NEW size \in Nat
    PROVE  LET o == open(name, t)
           IN  /\ find(name) # NULL /\ ~(o.fd < 0) /\ o.task.files[o.fd + 1] = find(name)
               /\ IsRead(nodes, disk, find(name), size, read(o.fd, o.task, size))
<1> DEFINE file == find(name)
           o == open(name, t)
           fd == t.file_count
           longer == Append(t.files, file)
           more == [file_count |-> fd + 1, files |-> longer]
           len == read(o.fd, o.task, size)
<1>1. Opened(t, file, Stray(name), o)
      BY OpenCases
<1> HIDE DEF o, more
<1>2. /\ file # NULL /\ fd # Pointer /\ fd # MaxFiles /\ o.fd = fd
      /\ o.task = more
      BY <1>1 DEF Opened, o, more
<1>3. fd \in Nat
      BY <1>2 DEF IsTask
<1>4. PICK A : t.files \in Seq(A) /\ Len(t.files) = fd
      BY <1>2 DEF Counts
<1>5. longer[fd + 1] = file
    <2> DEFINE S == A \cup {file}
    <2>1. t.files \in Seq(S) /\ file \in S
          BY <1>4
    <2> HIDE DEF file, S
    <2>2. longer[Len(t.files) + 1] = file
          BY <2>1
    <2> QED BY <1>4, <2>2
<1> HIDE DEF file, longer
<1>6. o.task.files[o.fd + 1] = file /\ o.task.file_count = fd + 1 /\ o.fd = fd
      BY <1>2, <1>5 DEF more
<1> HIDE DEF fd
<1>7. ~(o.fd < 0) /\ ~(o.fd >= o.task.file_count)
      BY <1>3, <1>6
<1>8. len = CASE nodes[file].read = "ram"    -> ramfs_read(file, size)
              [] nodes[file].read = "device" -> dev_one_read(size)
              [] OTHER                       -> 0
      BY <1>6, <1>7 DEF read
<1> HIDE DEF len
<1>9. CASE nodes[file].read = "ram"
    <2> DEFINE s == SizeOf(nodes, disk, file)
               in == disk.entries[nodes[file].inode].size
    <2>1. file \in 1 .. Len(nodes)
          BY <1>2 DEF NodeOf, file
    <2>2. nodes[file].inode \in 1 .. Len(disk.entries) /\ module \in DOMAIN Disks
          BY <1>9, <2>1 DEF FilesInv, NodeInv
    <2>3. in \in Seq(0 .. 7)
          BY <2>2, Constants DEF disk
    <2> HIDE DEF in
    <2>4. Octal(in) \in Nat /\ Word \in Nat \ {0}
          BY <2>3, OctalIs, FilesAssumption
    <2>5. s = Octal(in) % Word
          BY DEF SizeOf, tar_getsize, in
    <2> HIDE DEF s
    <2>6. s \in Nat
          BY <2>4, <2>5
    <2>7. len = IF size > s THEN s ELSE size
          BY <1>8, <1>9 DEF ramfs_read, FileSize, SizeOf, s
    <2>8. len \in 0 .. size /\ len <= s
          BY <2>6, <2>7
    <2> QED BY <1>2, <1>6, <1>7, <1>9, <2>8 DEF IsRead, s, o, file, len
<1>10. CASE nodes[file].read = "device"
       BY <1>2, <1>6, <1>7, <1>8, <1>10 DEF dev_one_read, IsRead, o, file, len
<1>11. CASE nodes[file].read \notin {"ram", "device"}
       BY <1>2, <1>6, <1>7, <1>8, <1>11 DEF IsRead, o, file, len
<1> QED BY <1>9, <1>10, <1>11

LEMMA TextIs ==
    ASSUME FilesInv, NEW t, IsTask(t), Counts(t), NEW name, find(name) \in NodeOf(nodes)
    PROVE  IsText(nodes, disk, find(name), ReadText(open(name, t)))
<1> DEFINE file == find(name)
           o == open(name, t)
           none == [file |-> NULL, len |-> 0]
           len == read(o.fd, o.task, BufSize)
           some == [file |-> o.task.files[o.fd + 1], len |-> len]
<1>1. ReadText(o) = IF o.fd < 0 THEN none ELSE some
      BY DEF ReadText
<1>2. BufSize \in Nat
      BY DesktopAssumption
<1>3. o.fd # NoFd => /\ file # NULL /\ ~(o.fd < 0) /\ o.task.files[o.fd + 1] = file
                     /\ IsRead(nodes, disk, file, BufSize, len)
      BY <1>2, DescriptorIs
<1> HIDE DEF o, file, len
<1>4. CASE o.fd = NoFd
    <2>1. ReadText(o) = none
          BY <1>1, <1>4 DEF NoFd
    <2>2. none.file = NULL /\ none.len = 0
          OBVIOUS
    <2> HIDE DEF none
    <2> QED BY <2>1, <2>2 DEF IsText, o
<1>5. CASE o.fd # NoFd
    <2>1. ReadText(o) = some
          BY <1>1, <1>3, <1>5
    <2>2. some.file = file /\ some.len = len
          BY <1>3, <1>5
    <2> HIDE DEF some
    <2> QED BY <1>3, <1>5, <2>1, <2>2 DEF IsText, o, file
<1> QED BY <1>4, <1>5

\* The path that text_view is given leads to the first entry of that name in the
\* directory, or nowhere.
LEMMA FileAt ==
    ASSUME FilesInv, phase = "gui", Named, GuiInv, NEW n, NEW segs, EntryAt(n, segs), NEW f,
           f = find(FilePath(fn.directory, nodes[n].name)), f # NULL
    PROVE  LET list == nodes[find(fn.directory)].list
           IN  n \in Range(list) /\ f = FindName(nodes, list, nodes[n].name)
<1> DEFINE c == nodes[n].name
           d == fn.directory
           D == Reached(nodes, ROOT, segs)
           s == Slashed(segs)
           e == Append(s, "/")
<1>1. /\ IsPath(d, segs) /\ segs \in Seq(Proper) /\ c \in Proper /\ d \in Directories
      /\ D \in 1 .. Len(nodes) /\ Append(segs, c) \in Seq(Proper)
      /\ Reached(nodes, ROOT, Append(segs, c)) = Look(nodes, D, c)
      BY EntryLeads DEF EntryAt, GuiInv, IsNavigator
<1>2. c \in Name /\ c # NoName /\ c # "/" /\ segs \in Seq(Name)
      BY <1>1, ProperIs DEF Proper
<1>3. FilePath(d, c) = Append(Append(d, "/"), c)
      BY <1>1, <1>2, FilePathIs
<1>4. IsTree(nodes) /\ Len(nodes) >= 1 /\ ROOT \in NodeOf(nodes)
      BY TreeIs DEF FilesInv, ROOT, NodeOf
<1>5. CASE d = e
    <2> DEFINE r == Append(segs, NoName)
    <2>1. path(Append(Append(e, "/"), c)) = Append(r, c)
          BY <1>1, PathDouble
    <2>2. r \in Seq(Name) /\ NoName \in Name
          BY <1>2 DEF Name
    <2>3. Reached(nodes, ROOT, r) = Look(nodes, D, NoName)
          BY <1>2, <1>4, <2>2, ReachAppend
    <2>4. Look(nodes, D, NoName) = NULL
          BY <1>1, LookNoName DEF NodeOf
    <2> HIDE DEF r, D
    <2>5. Reached(nodes, ROOT, Append(r, c)) = Look(nodes, NULL, c)
          BY <1>2, <1>4, <2>2, <2>3, <2>4, ReachAppend
    <2>6. Look(nodes, NULL, c) = NULL
          BY DEF Look
    <2> DEFINE g == Append(Append(d, "/"), c)
               top == <<"/">>
    <2>7. g # top
        <3> DEFINE h == Append(d, "/")
        <3>1. h \in Seq(Name)
            <4>1. d \in Seq(Name) /\ "/" \in Name
                  BY <1>1, DirectoryIs DEF Name
            <4> QED BY <4>1
        <3> HIDE DEF h, c
        <3>2. Last(Append(h, c)) = c
              BY <1>2, <3>1, FrontAppend
        <3>3. Len(top) = 1 /\ top[1] = "/"
              OBVIOUS
        <3> HIDE DEF top
        <3>4. Last(top) = "/"
              BY <3>3 DEF Last
        <3> QED BY <1>2, <3>2, <3>4 DEF h
    <2>8. find(g) = Reached(nodes, ROOT, path(g))
          BY <2>7, FindReached
    <2>9. path(g) = Append(r, c)
          BY <1>5, <2>1
    <2>10. find(g) = NULL
          BY <2>5, <2>6, <2>8, <2>9
    <2> QED BY <1>3, <2>10
<1>6. CASE segs # <<>> /\ d = s
    <2> DEFINE more == Append(segs, c)
    <2>1. Slashed(more) = Append(Append(d, "/"), c)
          BY <1>1, <1>6, PathMore
    <2>2. more # <<>> /\ more \in Seq(Proper)
          BY <1>1, FrontAppend
    <2> HIDE DEF more
    <2>3. IsPath(Slashed(more), more)
          BY <2>2 DEF IsPath
    <2>4. find(Slashed(more)) = Reached(nodes, ROOT, more)
          BY <1>4, <2>3, FindPath
    <2>5. f = Look(nodes, D, c)
          BY <1>1, <1>3, <2>1, <2>4 DEF more
    <2>6. find(d) = D
          BY <1>1, <1>4, FindPath
    <2>7. n \in Range(nodes[D].list)
        <3>1. PICK k \in 1 .. Len(nodes[D].list) : n = nodes[D].list[k]
              BY DEF EntryAt
        <3>2. nodes[D].list \in Seq(Nat)
              BY <1>1, <1>4, TreeIs
        <3> QED BY <3>1, <3>2 DEF Range
    <2> HIDE DEF D
    <2>8. f = FindName(nodes, nodes[D].list, c)
          BY <1>1, <1>4, <2>5, LookIs DEF NodeOf
    <2> QED BY <2>6, <2>7, <2>8
<1> QED BY <1>1, <1>5, <1>6 DEF IsPath

\* A view shows no other file than the chosen one, or the first of its name in
\* the directory it is from.
Shown(all, d, v) ==
    v.text.len > 0 => /\ v.chosen \in Range(all[v.from].list)
                      /\ v.text.file = FindName(all, all[v.from].list, all[v.chosen].name)
                      /\ all[v.text.file].read = "ram" => v.text.len <= SizeOf(all, d, v.text.file)

ViewsInv == Named => \A k \in 2 .. Len(windows) : Shown(nodes, disk, windows[k])

\* The view that is opened.
LEMMA NewShown ==
    ASSUME FilesInv, phase = "gui", GuiInv, NavInv, TaskInv, Named, NEW n, Entry(n), NEW v,
           v.text = ReadText(open(FilePath(fn.directory, nodes[n].name), task)),
           v.from = find(fn.directory), v.chosen = n
    PROVE  Shown(nodes, disk, v)
<1> DEFINE name == FilePath(fn.directory, nodes[n].name)
           f == find(name)
<1>1. PICK segs : EntryAt(n, segs)
      BY EntryPath
<1>2. IsTree(nodes) /\ Len(nodes) >= 1 /\ Len(nodes) \in Nat
      BY TreeIs DEF FilesInv, ROOT
<1>3. name \in Seq(Name)
    <2>1. nodes[n].name \in Name /\ fn.directory \in Directories
          BY <1>1, ProperIs DEF EntryAt, GuiInv, IsNavigator
    <2> QED BY <2>1, FilePathIs
<1>4. f \in NodeOf(nodes)
      BY <1>2, <1>3, FindIs
<1> DEFINE list == nodes[v.from].list
<1>5. f # NULL => n \in Range(list) /\ f = FindName(nodes, list, nodes[n].name)
      BY <1>1, FileAt
<1>6. v.text = ReadText(open(name, task)) /\ IsTask(task) /\ Counts(task)
      BY DEF GuiInv, TaskInv
<1> HIDE DEF name
<1>7. IsText(nodes, disk, f, v.text)
      BY <1>4, <1>6, TextIs
<1> HIDE DEF f
<1> SUFFICES ASSUME v.text.len > 0
             PROVE  /\ n \in Range(list) /\ v.text.file = FindName(nodes, list, nodes[n].name)
                    /\ nodes[v.text.file].read = "ram" => v.text.len <= SizeOf(nodes, disk, v.text.file)
    BY DEF Shown
<1>8. ~(v.text.len = 0)
      OBVIOUS
<1>9. /\ f # NULL /\ v.text.file = f
      /\ nodes[f].read = "ram" => v.text.len <= SizeOf(nodes, disk, f)
      BY <1>7, <1>8 DEF IsText, IsRead
<1> QED BY <1>5, <1>9

LEMMA InitViews == DInit => ViewsInv
<1> SUFFICES ASSUME DInit PROVE ViewsInv
    OBVIOUS
<1>1. windows = <<>>
      BY DEF DInit
<1>2. Len(<<>>) = 0
      OBVIOUS
<1>3. Len(windows) = 0
      BY <1>1, <1>2
<1> QED BY <1>3 DEF ViewsInv

LEMMA StepViews ==
    FilesInv /\ WindowsInv /\ GuiInv /\ NavInv /\ TaskInv /\ ViewsInv /\ [DNext]_dvars => ViewsInv'
<1> SUFFICES ASSUME FilesInv, WindowsInv, GuiInv, NavInv, TaskInv, ViewsInv, [DNext]_dvars PROVE ViewsInv'
    OBVIOUS
<1>0. Does /\ Len(windows) \in Nat
      BY StepDoes DEF WindowsInv, IsWindows
<1>1. CASE FNext /\ UNCHANGED gui
    <2>1. windows' = windows /\ windows = <<>>
          BY <1>1, BootStep DEF gui, WindowsInv
    <2>2. Len(<<>>) = 0
          OBVIOUS
    <2>3. Len(windows') = 0
          BY <2>1, <2>2
    <2> QED BY <2>3 DEF ViewsInv
<1>2. CASE gui_start
    <2>1. Len(windows') = 1
          BY <1>2, StartStep
    <2> QED BY <2>1 DEF ViewsInv
<1>3. ASSUME UNCHANGED boot, SameViews PROVE ViewsInv'
    <2>1. nodes' = nodes /\ disk' = disk /\ Len(windows') = Len(windows)
          BY <1>3 DEF boot, disk, SameViews
    <2>2. Named' => Named
          BY <2>1 DEF Named
    <2>3. ASSUME NEW k \in 2 .. Len(windows), Shown(nodes, disk, windows[k]) PROVE Shown(nodes', disk', windows'[k])
        <3>1. /\ windows'[k].text = windows[k].text /\ windows'[k].from = windows[k].from
              /\ windows'[k].chosen = windows[k].chosen
              BY <1>0, <1>3 DEF SameViews, SameView
        <3> QED BY <2>1, <2>3, <3>1 DEF Shown
    <2> QED BY <2>1, <2>2, <2>3 DEF ViewsInv
<1>4. CASE Quiet
      BY <1>3, <1>4 DEF Quiet
<1>5. CASE phase = "gui" /\ Chosen
    <2>1. ASSUME NEW offset, choose_up(offset) \/ choose_up_top(offset) \/ \E n : choose_down(n, offset) PROVE ViewsInv'
        <3>1. UNCHANGED boot /\ windows' = windows
              BY <2>1 DEF choose_up, choose_up_top, choose_down, ChangeDirectory
        <3> QED BY <1>3, <3>1 DEF SameViews, SameView
    <2>2. ASSUME NEW n \in NodeOf(nodes), Entry(n), choose_file(n) PROVE ViewsInv'
        <3> DEFINE text == ReadText(open(FilePath(fn.directory, nodes[n].name), task))
                   from == find(fn.directory)
                   last == Len(windows) + 1
        <3>1. ViewAdded(text, from, n) /\ UNCHANGED boot
              BY <1>5, <2>2, ViewStep DEF choose_file
        <3>2. nodes' = nodes /\ disk' = disk
              BY <3>1 DEF boot, disk
        <3>3. Named' => Named
              BY <3>2 DEF Named
        <3>4. /\ windows'[last].text = text /\ windows'[last].from = from /\ windows'[last].chosen = n
              /\ Len(windows') = last
              BY <3>1 DEF ViewAdded
        <3>5. Named => Shown(nodes, disk, windows'[last])
              BY <1>5, <2>2, <3>4, NewShown
        <3>6. ASSUME NEW k \in 2 .. Len(windows), Shown(nodes, disk, windows[k]) PROVE Shown(nodes, disk, windows'[k])
            <4>1. /\ windows'[k].text = windows[k].text /\ windows'[k].from = windows[k].from
                  /\ windows'[k].chosen = windows[k].chosen
                  BY <1>0, <3>1 DEF ViewAdded, SameView
            <4> QED BY <3>6, <4>1 DEF Shown
        <3>7. \A k \in 2 .. last : k = last \/ k \in 2 .. Len(windows)
              BY <1>0
        <3> HIDE DEF last, text, from
        <3> QED BY <3>2, <3>3, <3>4, <3>5, <3>6, <3>7 DEF ViewsInv
    <2> QED BY <1>5, <2>1, <2>2 DEF Chosen
<1> QED BY <1>0, <1>1, <1>2, <1>4, <1>5 DEF Does

-----------------------------------------------------------------------------
(* What goes wrong, and from what.                                          *)

LongDir(d) == \E k \in DOMAIN d.entries : d.entries[k].type = "dir" /\ 2 * (1 + Len(Names(d.entries[k].name))) > EditLength

\* A file gives as much as is read from it, if that is not more than size.
Fills(all, d, file, size) ==
    /\ file # NULL
    /\ \/ all[file].read = "device"
       \/ all[file].read = "ram" /\ SizeOf(all, d, file) >= size

\* The data of the last file ends with the module.
NoZerosIn(d) == EndsAt(d, Len(d.entries)) = d.end

\* What was stored outside an object has a cause: in the archive d, the nodes all
\* made of it, or the windows.
Caused(stores, all, d, wnds) ==
    /\ "headers" \in stores => \/ Len(d.entries) > MaxHeaders
                               \/ Len(d.entries) = MaxHeaders /\ NoZerosIn(d)
    /\ "wrap" \in stores => Wraps(d) \/ NoZerosIn(d)
    /\ "buff" \in stores => \E k \in 2 .. Len(wnds) : Fills(all, d, wnds[k].text.file, BufSize)
    /\ "edit" \in stores => LongDir(d) \/ ~PlainDisk(d)
    /\ "count" \in stores => Len(wnds) >= MaxFiles
    /\ "files" \in stores => Len(wnds) - 1 >= MaxFiles
    /\ "bmp" \in stores => \E name \in {CursorFile, IconFile} : Fills(all, d, FoundAt(all, name), ImageSize)

HarmInv ==
    /\ phase = "stopped" => harm \ {"path"} # {}
    /\ phase \notin {"gui", "stopped"} => harm \subseteq {"path"}
    /\ Caused(harm, nodes, disk, windows)

\* A path too long for the edit is the path of a header.
LEMMA LongStep ==
    ASSUME FilesInv, PlainInv, GuiInv, NavInv, phase = "gui", PlainDisk(disk), NEW n, Entry(n), nodes[n].dir,
           Len(DownDirectory(fn.directory, nodes[n].name)) > EditLength
    PROVE  LongDir(disk)
<1>1. PlainBoot
      BY PlainBootIs
<1>2. PICK segs : EntryAt(n, segs)
      BY <1>1, PlainNamed, EntryPath
<1> DEFINE more == Append(segs, nodes[n].name)
           down == DownDirectory(fn.directory, nodes[n].name)
           m == Reached(nodes, ROOT, more)
<1>3. Len(down) = 2 * Len(more) /\ Len(more) \in Nat /\ more \in Seq(Proper) /\ m # NULL /\ nodes[m].dir
      BY <1>2, DownThere
<1>4. Len(down) > EditLength /\ EditLength \in Nat /\ EditLength >= 2
      BY DesktopAssumption
<1> HIDE DEF more, down
<1>5. PICK k \in 1 .. Len(disk.entries) : disk.entries[k].type = "dir" /\ Len(SegmentsOf(disk, k)) + 1 = Len(more)
    <2>1. ~(Len(more) <= 1)
          BY <1>3, <1>4
    <2> QED BY <1>1, <1>3, <2>1, DirLong
<1>6. 2 * (1 + Len(SegmentsOf(disk, k))) > EditLength
    <2>1. SegmentsOf(disk, k) \in Seq(Proper)
          BY <1>5 DEF PlainDisk
    <2>2. Len(SegmentsOf(disk, k)) \in Nat
          BY <2>1
    <2> QED BY <1>3, <1>4, <1>5, <2>2
<1>7. DOMAIN disk.entries = 1 .. Len(disk.entries)
    <2>1. disk.entries \in Seq(Range(disk.entries))
          BY FilesAssumption DEF FilesInv, disk
    <2> QED BY <2>1
<1> QED BY <1>5, <1>6, <1>7 DEF LongDir, SegmentsOf

\* A read that gives all it was asked for is of a device or of a file as long.
LEMMA FullRead ==
    ASSUME NEW file, file # NULL, NEW size \in Nat \ {0}, IsRead(nodes, disk, file, size, size)
    PROVE  Fills(nodes, disk, file, size)
<1>1. ASSUME size <= SizeOf(nodes, disk, file) PROVE SizeOf(nodes, disk, file) >= size
      BY <1>1
<1> QED BY <1>1 DEF IsRead, Fills

\* The file of a text that fills buff fills it.
LEMMA FullText ==
    ASSUME NEW file, NEW text, IsText(nodes, disk, file, text), text.len = BufSize
    PROVE  text.file = file /\ Fills(nodes, disk, file, BufSize)
<1>1. BufSize \in Nat \ {0}
      BY DesktopAssumption
<1>2. text.len # 0
      BY <1>1
<1>3. file # NULL /\ text.file = file /\ IsRead(nodes, disk, file, BufSize, BufSize)
      BY <1>2 DEF IsText
<1> QED BY <1>1, <1>3, FullRead

LEMMA InitHarm == DInit => HarmInv
  BY DEF DInit, FInit, HarmInv, Caused

\* Boot stores where it must not when it stops, and otherwise only what path()
\* does.
LEMMA BootHarm ==
    ASSUME FilesInv, ParseInv, HarmInv, FNext, windows' = windows
    PROVE  HarmInv'
<1>1. /\ phase \in {"start", "serial", "parse", "parsed", "build"}
      /\ phase' \in {"serial", "parse", "parsed", "build", "up", "stopped"}
      BY BootStep
<1>2. harm \subseteq {"path"}
      BY <1>1 DEF HarmInv
<1>3. module' = module /\ disk' = disk
    <2>1. module' = module
          BY DEF FNext, fs_root, serial, tar_parse, tar_parse_end, ramfs_root, ramfs_add,
                 ramfs_register, boot
    <2> QED BY <2>1 DEF disk
<1>4. files \in Nat /\ MaxHeaders \in Nat /\ Len(disk.entries) \in Nat
      BY FilesAssumption, Constants DEF FilesInv, disk
<1> DEFINE n == Len(disk.entries)
           ends == NoZerosIn(disk)
           many == n > MaxHeaders \/ (n = MaxHeaders /\ ends)
<1>5. \/ phase' # "stopped" /\ (harm' = harm \/ harm' = harm \cup {"path"})
      \/ phase' = "stopped" /\ harm' = harm \cup {"path", "disk"}
      \/ phase' = "stopped" /\ harm' = harm \cup {"headers"} /\ many
      \/ phase' = "stopped" /\ harm' = harm \cup {"wrap"} /\ (Wraps(disk) \/ ends)
    <2>1. CASE fs_root \/ serial \/ ramfs_root \/ ramfs_register
          BY <2>1 DEF fs_root, serial, ramfs_root, ramfs_register
    <2>2. CASE tar_parse
        <3>1. \/ files >= MaxHeaders /\ files < n /\ phase' = "stopped" /\ harm' = harm \cup {"headers"}
              \/ phase' \in {"parse", "parsed"} /\ harm' = harm
              \/ Wraps(disk) /\ phase' = "stopped" /\ harm' = harm \cup {"wrap"}
              BY <2>2, ParseTurn
        <3>2. files >= MaxHeaders /\ files < n => n > MaxHeaders
              BY <1>4
        <3> QED BY <3>1, <3>2
    <2>3. CASE tar_parse_end
        <3> DEFINE c == IF files >= MaxHeaders THEN "headers" ELSE "wrap"
        <3>1. \/ phase' = "parsed" /\ harm' = harm
              \/ files = n /\ Tight /\ phase' = "stopped" /\ harm' = harm \cup {c}
              BY <2>3, ParseEnds
        <3>2. Tight => ends
              BY DEF Tight, NoZerosIn
        <3>3. CASE files >= MaxHeaders
            <4>1. files = n => n > MaxHeaders \/ n = MaxHeaders
                  BY <1>4, <3>3
            <4> QED BY <3>1, <3>2, <3>3, <4>1
        <3>4. CASE ~(files >= MaxHeaders)
              BY <3>1, <3>2, <3>4
        <3> QED BY <3>3, <3>4
    <2>4. CASE ramfs_add
        <3>1. \/ phase' = phase /\ harm' = harm \cup {"path"}
              \/ phase' = "stopped" /\ harm' = harm \cup {"path", "disk"}
              BY <2>4 DEF ramfs_add
        <3> QED BY <1>1, <3>1
    <2> QED BY <2>1, <2>2, <2>3, <2>4 DEF FNext
<1> HIDE DEF many, ends
<1>6. /\ phase' = "stopped" => harm' \ {"path"} # {}
      /\ phase' \notin {"gui", "stopped"} => harm' \subseteq {"path"}
      /\ "headers" \in harm' => many
      /\ "wrap" \in harm' => Wraps(disk) \/ ends
      /\ harm' \subseteq {"path", "disk", "headers", "wrap"}
    <2>1. CASE phase' # "stopped" /\ (harm' = harm \/ harm' = harm \cup {"path"})
        <3>1. harm' \subseteq {"path"}
              BY <1>2, <2>1
        <3>2. "headers" \notin harm' /\ "wrap" \notin harm'
              BY <3>1
        <3> QED BY <2>1, <3>1, <3>2
    <2>2. CASE phase' = "stopped" /\ harm' = harm \cup {"path", "disk"}
        <3>1. "disk" \in harm' /\ "headers" \notin harm' /\ "wrap" \notin harm' /\ harm' \subseteq {"path", "disk"}
              BY <1>2, <2>2
        <3> QED BY <2>2, <3>1
    <2>3. CASE phase' = "stopped" /\ harm' = harm \cup {"headers"} /\ many
        <3>1. "headers" \in harm' /\ "wrap" \notin harm' /\ harm' \subseteq {"path", "headers"}
              BY <1>2, <2>3
        <3> QED BY <2>3, <3>1
    <2>4. CASE phase' = "stopped" /\ harm' = harm \cup {"wrap"} /\ (Wraps(disk) \/ ends)
        <3>1. "wrap" \in harm' /\ "headers" \notin harm' /\ harm' \subseteq {"path", "wrap"}
              BY <1>2, <2>4
        <3> QED BY <2>4, <3>1
    <2> QED BY <1>5, <2>1, <2>2, <2>3, <2>4
<1>7. Caused(harm', nodes', disk', windows')
    <2>1. /\ "buff" \notin harm' /\ "edit" \notin harm' /\ "count" \notin harm' /\ "files" \notin harm'
          /\ "bmp" \notin harm'
          BY <1>6
    <2> QED BY <1>3, <1>6, <2>1 DEF Caused, many, ends
<1> QED BY <1>6, <1>7 DEF HarmInv

\* What an open stores has its cause in the count.
LEMMA OpenHarm ==
    ASSUME NEW t, NEW name
    PROVE  LET o == open(name, t)
           IN  /\ o.stores \subseteq {"path", "files", "count"}
               /\ "count" \in o.stores => t.file_count = MaxFiles /\ o.task = [t EXCEPT !.file_count = Pointer]
               /\ "files" \in o.stores => t.file_count = Pointer
<1> DEFINE o == open(name, t)
<1>1. Opened(t, find(name), Stray(name), o) /\ Stray(name) \subseteq {"path"}
      BY OpenCases DEF Stray
<1> HIDE DEF o
<1>2. "count" \notin Stray(name) /\ "files" \notin Stray(name)
      BY <1>1
<1> QED BY <1>1, <1>2 DEF Opened, o

\* The paths of the files the GUI opens.
LEMMA ImagePaths == CursorFile \in Seq(Name) /\ IconFile \in Seq(Name)
<1>1. "/" \in Name /\ "ram" \in Name /\ "ui" \in Name /\ "cursor" \in Name /\ "icons" \in Name
      BY DEF Name
<1> QED BY <1>1 DEF CursorFile, IconFile

\* bmp->data goes behind a block only of a file with a header.
LEMMA ImageHarm ==
    ASSUME FilesInv, NEW t, IsTask(t), Counts(t), NEW name \in {CursorFile, IconFile}, NEW data,
           Image(open(name, t), data)
    PROVE  /\ data \subseteq {"bmp"}
           /\ "bmp" \in data => Fills(nodes, disk, FoundAt(nodes, name), ImageSize)
<1> DEFINE o == open(name, t)
<1>1. data = {} \/ (data = {"bmp"} /\ o.fd >= 0 /\ read(o.fd, o.task, ImageSize) = ImageSize)
      BY DEF Image
<1>2. ASSUME o.fd >= 0, read(o.fd, o.task, ImageSize) = ImageSize
      PROVE  Fills(nodes, disk, FoundAt(nodes, name), ImageSize)
    <2>1. find(name) \in NodeOf(nodes)
        <3>1. name \in Seq(Name) /\ IsTree(nodes) /\ Len(nodes) >= 1
              BY ImagePaths DEF FilesInv, ROOT
        <3> QED BY <3>1, FindIs
    <2>2. o.fd # NoFd
          BY <1>2 DEF NoFd
    <2>3. ImageSize \in Nat /\ ImageSize \in Nat \ {0}
          BY DesktopAssumption
    <2>4. find(name) # NULL /\ IsRead(nodes, disk, find(name), ImageSize, ImageSize)
          BY <1>2, <2>1, <2>2, <2>3, DescriptorIs
    <2>5. Fills(nodes, disk, find(name), ImageSize)
          BY <2>3, <2>4, FullRead
    <2> QED BY <2>5, ReaddirIs
<1> HIDE DEF o
<1> QED BY <1>1, <1>2

\* The GUI's start opens two files at most, with a count that was 0.
LEMMA StartHarm ==
    ASSUME FilesInv, WindowsInv, GuiInv, TaskInv, HarmInv, gui_start
    PROVE  HarmInv'
<1> DEFINE cursor == open(CursorFile, task)
           first == cursor.task
           icons == open(IconFile, first)
<1>1. /\ phase = "up" /\ phase' = "gui" /\ UNCHANGED boot /\ harm \subseteq {"path"}
      /\ task.file_count = 0 /\ IsTask(task) /\ Counts(task)
      BY DEF gui_start, HarmInv, TaskInv, GuiInv
<1>2. nodes' = nodes /\ disk' = disk
      BY <1>1 DEF boot, disk
<1>3. PICK a, b : /\ Image(cursor, a) /\ Image(icons, b)
                  /\ harm' = harm \cup (cursor.stores \cup a) \cup (icons.stores \cup b)
      BY StartOpens
<1>4. MaxFiles \in Nat \ {0}
      BY FilesAssumption
<1>5. IsTask(first) /\ Counts(first) /\ first.file_count \in {0, 1}
    <2>1. /\ IsTask(first) /\ Counts(first)
          /\ \/ first.file_count = 0
             \/ 0 = MaxFiles /\ first.file_count = Pointer
             \/ first.file_count = 0 + 1
          BY <1>1, OpenCounts
    <2> QED BY <1>4, <2>1
<1>6. cursor.stores \subseteq {"path"}
    <2>1. /\ cursor.stores \subseteq {"path", "files", "count"}
          /\ "count" \in cursor.stores => task.file_count = MaxFiles
          /\ "files" \in cursor.stores => task.file_count = Pointer
          BY OpenHarm
    <2> QED BY <1>1, <1>4, <2>1 DEF Pointer
<1>7. /\ a \subseteq {"bmp"}
      /\ "bmp" \in a => Fills(nodes, disk, FoundAt(nodes, CursorFile), ImageSize)
      BY <1>1, <1>3, ImageHarm
<1> HIDE DEF cursor, first
<1>8. icons.stores \subseteq {"path", "count"} /\ ("count" \in icons.stores => 1 >= MaxFiles)
    <2>1. /\ icons.stores \subseteq {"path", "files", "count"}
          /\ "count" \in icons.stores => first.file_count = MaxFiles
          /\ "files" \in icons.stores => first.file_count = Pointer
          BY OpenHarm
    <2> QED BY <1>4, <1>5, <2>1 DEF Pointer
<1>9. /\ b \subseteq {"bmp"}
      /\ "bmp" \in b => Fills(nodes, disk, FoundAt(nodes, IconFile), ImageSize)
      BY <1>3, <1>5, ImageHarm
<1> HIDE DEF icons
<1>10. Len(windows') = 1
       BY StartStep
<1>11. /\ harm' \subseteq {"path", "count", "bmp"}
       /\ "count" \in harm' => "count" \in icons.stores
       /\ "bmp" \in harm' => "bmp" \in a \/ "bmp" \in b
       BY <1>1, <1>3, <1>6, <1>7, <1>8, <1>9
<1>12. "bmp" \in harm' => \E name \in {CursorFile, IconFile} : Fills(nodes, disk, FoundAt(nodes, name), ImageSize)
       BY <1>7, <1>9, <1>11
<1>13. /\ "headers" \notin harm' /\ "wrap" \notin harm' /\ "buff" \notin harm' /\ "edit" \notin harm'
       /\ "files" \notin harm' /\ ("count" \in harm' => 1 >= MaxFiles)
       BY <1>8, <1>11
<1>14. Caused(harm', nodes', disk', windows')
       BY <1>2, <1>10, <1>12, <1>13 DEF Caused
<1> QED BY <1>1, <1>14 DEF HarmInv

\* No cause goes away while the GUI runs.
LEMMA CausesStay ==
    ASSUME WindowsInv, HarmInv, UNCHANGED boot, Len(windows') >= Len(windows), Len(windows') \in Nat,
           \A k \in 1 .. Len(windows) : SameView(windows'[k], windows[k])
    PROVE  Caused(harm, nodes', disk', windows')
<1>1. nodes' = nodes /\ disk' = disk
      BY DEF boot, disk
<1>2. Len(windows) \in Nat /\ MaxFiles \in Nat
      BY FilesAssumption DEF WindowsInv, IsWindows
<1>3. Caused(harm, nodes, disk, windows)
      BY DEF HarmInv
<1>4. ASSUME NEW k \in 2 .. Len(windows), Fills(nodes, disk, windows[k].text.file, BufSize)
      PROVE  k \in 2 .. Len(windows') /\ Fills(nodes, disk, windows'[k].text.file, BufSize)
    <2>1. k \in 1 .. Len(windows) /\ k \in 2 .. Len(windows')
          BY <1>2
    <2>2. windows'[k].text = windows[k].text
          BY <2>1 DEF SameView
    <2> QED BY <1>4, <2>1, <2>2
<1>5. "buff" \in harm => \E k \in 2 .. Len(windows') : Fills(nodes, disk, windows'[k].text.file, BufSize)
      BY <1>3, <1>4 DEF Caused
<1>6. /\ "count" \in harm => Len(windows') >= MaxFiles
      /\ "files" \in harm => Len(windows') - 1 >= MaxFiles
      BY <1>2, <1>3 DEF Caused
<1> QED BY <1>1, <1>3, <1>5, <1>6 DEF Caused

\* The navigator stores nothing for which there is no cause.
LEMMA ChangeHarm ==
    ASSUME WindowsInv, HarmInv, NEW d, NEW offset, NEW stores, ChangeDirectory(d, offset, stores),
           stores \subseteq {"top", "edit"}, "edit" \in stores => LongDir(disk) \/ ~PlainDisk(disk)
    PROVE  Caused(harm', nodes', disk', windows') /\ stores \subseteq harm'
<1>1. UNCHANGED boot /\ windows' = windows /\ harm' = harm \cup Stray(d) \cup stores /\ Stray(d) \subseteq {"path"}
      BY DEF ChangeDirectory, Stray
<1>2. disk' = disk
      BY <1>1 DEF boot, disk
<1>3. Caused(harm, nodes', disk', windows')
    <2>1. Len(windows') \in Nat /\ Len(windows') >= Len(windows)
          BY <1>1 DEF WindowsInv, IsWindows
    <2>2. \A k \in 1 .. Len(windows) : SameView(windows'[k], windows[k])
          BY <1>1 DEF SameView
    <2> QED BY <1>1, <2>1, <2>2, CausesStay
<1>4. /\ harm' \subseteq harm \cup {"path", "top", "edit"}
      /\ "edit" \in harm' => "edit" \in harm \/ LongDir(disk) \/ ~PlainDisk(disk)
      BY <1>1
<1>5. /\ "headers" \in harm' => "headers" \in harm
      /\ "wrap" \in harm' => "wrap" \in harm
      /\ "buff" \in harm' => "buff" \in harm
      /\ "count" \in harm' => "count" \in harm
      /\ "files" \in harm' => "files" \in harm
      /\ "bmp" \in harm' => "bmp" \in harm
      BY <1>4
<1> QED BY <1>1, <1>2, <1>3, <1>4, <1>5 DEF Caused

\* A view that is opened.
LEMMA ViewHarm ==
    ASSUME FilesInv, WindowsInv, GuiInv, TaskInv, HarmInv, phase = "gui", NEW n \in NodeOf(nodes), Entry(n),
           choose_file(n)
    PROVE  HarmInv'
<1> DEFINE file == FilePath(fn.directory, nodes[n].name)
           o == open(file, task)
           text == ReadText(o)
           more == IF text.len = BufSize THEN {"buff"} ELSE {}
           last == Len(windows) + 1
<1>1. text_view(file, n) /\ UNCHANGED boot
      BY DEF choose_file
<1>2. ViewAdded(text, find(fn.directory), n)
      BY <1>1, ViewStep
<1>3. harm' = harm \cup o.stores \cup more /\ phase' = IF "files" \in o.stores THEN "stopped" ELSE phase
      BY <1>1 DEF text_view
<1>4. /\ o.stores \subseteq {"path", "files", "count"}
      /\ "count" \in o.stores => task.file_count = MaxFiles /\ o.task = [task EXCEPT !.file_count = Pointer]
      /\ "files" \in o.stores => task.file_count = Pointer
      BY OpenHarm
<1>5. Len(windows) \in Nat /\ MaxFiles \in Nat \ {0}
      BY FilesAssumption DEF WindowsInv, IsWindows
<1>6. /\ "files" \in o.stores => Len(windows) >= MaxFiles
      /\ "count" \in o.stores => Len(windows) + 1 >= MaxFiles
    <2>1. IF task.file_count = Pointer THEN Len(windows) >= MaxFiles ELSE task.file_count <= Len(windows) + 1
          BY DEF TaskInv
    <2>2. MaxFiles # Pointer
          BY <1>5 DEF Pointer
    <2> HIDE DEF o
    <2>3. "files" \in o.stores => Len(windows) >= MaxFiles
          BY <1>4, <2>1
    <2>4. task.file_count = MaxFiles => MaxFiles <= Len(windows) + 1
          BY <2>1, <2>2
    <2>5. MaxFiles <= Len(windows) + 1 => Len(windows) + 1 >= MaxFiles
          BY <1>5
    <2> QED BY <1>4, <2>3, <2>4, <2>5
<1>7. text.len = BufSize => Fills(nodes, disk, text.file, BufSize)
    <2>1. n \in 1 .. Len(nodes) /\ IsTree(nodes) /\ fn.directory \in Directories /\ Len(nodes) >= 1
          BY DEF NodeOf, Entry, FilesInv, GuiInv, IsNavigator, ROOT
    <2>2. nodes[n].name \in Name
          BY <2>1, TreeIs
    <2>3. file \in Seq(Name)
          BY <2>1, <2>2, FilePathIs
    <2>4. find(file) \in NodeOf(nodes)
          BY <2>1, <2>3, FindIs
    <2>5. IsTask(task) /\ Counts(task)
          BY DEF GuiInv, TaskInv
    <2> HIDE DEF file
    <2>6. IsText(nodes, disk, find(file), text)
          BY <2>4, <2>5, TextIs
    <2> HIDE DEF text
    <2> QED BY <2>6, FullText
<1> HIDE DEF file, o, text
<1>8. /\ windows'[last].text = text /\ Len(windows') = last
      /\ \A k \in 1 .. Len(windows) : SameView(windows'[k], windows[k])
      BY <1>2 DEF ViewAdded
<1>9. Len(windows') >= Len(windows) /\ Len(windows') \in Nat /\ last \in 2 .. Len(windows')
    <2>1. Len(windows) >= 1
          BY <1>5 DEF WindowsInv
    <2> QED BY <1>5, <1>8, <2>1
<1>10. Caused(harm, nodes', disk', windows')
       BY <1>1, <1>8, <1>9, CausesStay
<1>11. nodes' = nodes /\ disk' = disk
       BY <1>1 DEF boot, disk
<1>12. /\ "buff" \in harm' => "buff" \in harm \/ text.len = BufSize
       /\ "count" \in harm' => "count" \in harm \/ "count" \in o.stores
       /\ "files" \in harm' => "files" \in harm \/ "files" \in o.stores
       BY <1>3, <1>4
<1>13. /\ "headers" \in harm' => "headers" \in harm
       /\ "wrap" \in harm' => "wrap" \in harm
       /\ "edit" \in harm' => "edit" \in harm
       /\ "bmp" \in harm' => "bmp" \in harm
       BY <1>3, <1>4
<1>14. phase' = "gui" \/ (phase' = "stopped" /\ "files" \in harm')
       BY <1>3
<1>15. text.len = BufSize => \E k \in 2 .. Len(windows') : Fills(nodes', disk', windows'[k].text.file, BufSize)
       BY <1>7, <1>8, <1>9, <1>11
<1>16. /\ "files" \in o.stores => Len(windows') - 1 >= MaxFiles
       /\ "count" \in o.stores => Len(windows') >= MaxFiles
       BY <1>5, <1>6, <1>8
<1> HIDE DEF last, more
<1>17. Caused(harm', nodes', disk', windows')
       BY <1>10, <1>12, <1>13, <1>15, <1>16 DEF Caused
<1> QED BY <1>14, <1>17 DEF HarmInv

LEMMA StepHarm ==
    /\ FilesInv /\ ParseInv /\ PlainInv /\ WindowsInv /\ GuiInv /\ NavInv /\ TaskInv /\ HarmInv /\ [DNext]_dvars
    => HarmInv'
<1> SUFFICES ASSUME FilesInv, ParseInv, PlainInv, WindowsInv, GuiInv, NavInv, TaskInv, HarmInv, [DNext]_dvars
             PROVE  HarmInv'
    OBVIOUS
<1>0. Does
      BY StepDoes
<1>1. CASE FNext /\ UNCHANGED gui
      BY <1>1, BootHarm DEF gui
<1>2. CASE gui_start
      BY <1>2, StartHarm
<1>3. CASE Quiet
    <2>1. UNCHANGED <<phase, boot, harm>> /\ SameViews
          BY <1>3 DEF Quiet
    <2>2. /\ Len(windows') \in Nat /\ Len(windows') >= Len(windows)
          /\ \A k \in 1 .. Len(windows) : SameView(windows'[k], windows[k])
          BY <2>1 DEF SameViews, WindowsInv, IsWindows
    <2>3. Caused(harm, nodes', disk', windows')
          BY <2>1, <2>2, CausesStay
    <2> QED BY <2>1, <2>3 DEF HarmInv
<1>4. CASE phase = "gui" /\ Chosen
    <2>1. ASSUME NEW offset, choose_up(offset) PROVE HarmInv'
        <3>1. ChangeDirectory(UpDirectory(fn.directory), offset, {}) /\ phase' = phase
              BY <2>1 DEF choose_up
        <3>2. Caused(harm', nodes', disk', windows')
              BY <3>1, ChangeHarm
        <3> QED BY <1>4, <3>1, <3>2 DEF HarmInv
    <2>2. ASSUME NEW offset, choose_up_top(offset) PROVE HarmInv'
        <3> DEFINE top == <<"/">>
        <3>1. ChangeDirectory(top, offset, {"top"}) /\ phase' \in {phase, "stopped"}
              BY <2>2 DEF choose_up_top
        <3> HIDE DEF top
        <3>2. Caused(harm', nodes', disk', windows') /\ "top" \in harm'
              BY <3>1, ChangeHarm
        <3> QED BY <1>4, <3>1, <3>2 DEF HarmInv
    <2>3. ASSUME NEW n \in NodeOf(nodes), NEW offset, Entry(n), choose_down(n, offset) PROVE HarmInv'
        <3> DEFINE down == DownDirectory(fn.directory, nodes[n].name)
                   long == Len(down) > EditLength
                   stores == IF long THEN {"edit"} ELSE {}
        <3>1. ChangeDirectory(down, offset, stores) /\ nodes[n].dir /\ phase' = IF long THEN "stopped" ELSE phase
              BY <2>3 DEF choose_down
        <3>2. long => LongDir(disk) \/ ~PlainDisk(disk)
              BY <1>4, <2>3, <3>1, LongStep
        <3> HIDE DEF down, long
        <3>3. stores \subseteq {"top", "edit"} /\ ("edit" \in stores => LongDir(disk) \/ ~PlainDisk(disk))
              BY <3>2
        <3>4. long => "edit" \in stores
              OBVIOUS
        <3> HIDE DEF stores
        <3>5. Caused(harm', nodes', disk', windows') /\ stores \subseteq harm'
              BY <3>1, <3>3, ChangeHarm
        <3> QED BY <1>4, <3>1, <3>4, <3>5 DEF HarmInv
    <2>4. ASSUME NEW n \in NodeOf(nodes), Entry(n), choose_file(n) PROVE HarmInv'
          BY <1>4, <2>4, ViewHarm
    <2> QED BY <1>4, <2>1, <2>2, <2>3, <2>4 DEF Chosen
<1> QED BY <1>0, <1>1, <1>2, <1>3, <1>4 DEF Does

-----------------------------------------------------------------------------
(* Theorems.                                                                *)

\* One window is active, and it holds the focus of its own widgets only, however
\* many views are opened and clicked.  (gui_set_active_window, widget_set_focus.)
THEOREM OneAlwaysActive == DSpec => []OneActive
<1>1. WindowsInv => OneActive
    <2> SUFFICES ASSUME WindowsInv, phase = "gui"
                 PROVE  Cardinality({k \in DOMAIN windows : windows[k].active}) = 1 /\ NoFocus(windows)
        BY DEF OneActive, NoFocus
    <2>1. PICK w \in 1 .. Len(windows) : ActiveIs(windows, w)
          BY DEF WindowsInv
    <2>2. {k \in DOMAIN windows : windows[k].active} = {w}
          BY <2>1 DEF WindowsInv, IsWindows, ActiveIs
    <2>3. Cardinality({w}) = 1
          BY FS_Singleton
    <2> QED BY <2>2, <2>3 DEF WindowsInv
<1> QED BY <1>1, InitWindows, StepWindows, PTL DEF DSpec

\* Another window than a new one becomes active only under the pointer.
\* (gui_main, window_mouse_event.)
THEOREM ActiveOnlyUnderPointer == DSpec => ActiveWindowUnderPointer
<1> DEFINE Under == LET w == gui_get_active_window(windows')
                    IN  phase = "gui" /\ w # gui_get_active_window(windows) =>
                            \/ w > Len(windows)
                            \/ LET box == windows[w].box
                               IN  /\ pointer'.x \in box.x .. box.x + box.w
                                   /\ pointer'.y \in box.y .. box.y + box.h
<1>1. WindowsInv /\ PointerInv' /\ [DNext]_dvars => Under
    <2> SUFFICES ASSUME WindowsInv, PointerInv', [DNext]_dvars, phase = "gui",
                        gui_get_active_window(windows') # gui_get_active_window(windows),
                        ~(gui_get_active_window(windows') > Len(windows))
                 PROVE  LET box == windows[gui_get_active_window(windows')].box
                        IN  /\ pointer'.x \in box.x .. box.x + box.w
                            /\ pointer'.y \in box.y .. box.y + box.h
        OBVIOUS
    <2>1. GuiStep
          BY RunningStep
    <2>2. PICK w \in 1 .. Len(windows), v \in 1 .. Len(windows') :
               /\ ActiveIs(windows, w) /\ ActiveIs(windows', v) /\ IsWindows(windows')
               /\ v = w \/ v > Len(windows) \/ point_is_inside(windows[v].box, pointer'.x, pointer'.y)
          BY <2>1 DEF GuiStep
    <2>3. IsWindows(windows)
          BY DEF WindowsInv
    <2>4. gui_get_active_window(windows) = w /\ gui_get_active_window(windows') = v
          BY <2>2, <2>3, GetActive
    <2>5. v \in 1 .. Len(windows) /\ point_is_inside(windows[v].box, pointer'.x, pointer'.y)
          BY <2>2, <2>3, <2>4 DEF IsWindows
    <2>6. windows[v].box \in Box
          BY <2>3, <2>5 DEF IsWindows, IsWindow
    <2>7. pointer'.x \in Nat /\ pointer'.y \in Nat
          BY DEF PointerInv
    <2> DEFINE box == windows[v].box
    <2>8. /\ pointer'.x \in box.x .. box.x + box.w
          /\ pointer'.y \in box.y .. box.y + box.h
        <3>1. box \in Box /\ point_is_inside(box, pointer'.x, pointer'.y)
              BY <2>5, <2>6
        <3> HIDE DEF box
        <3> QED BY <2>7, <3>1 DEF Box, point_is_inside
    <2> QED BY <2>4, <2>8
<1>2. WindowsInv /\ PointerInv /\ [DNext]_dvars => WindowsInv' /\ PointerInv' /\ [Under]_dvars
      BY <1>1, StepWindows, StepPointer
<1> HIDE DEF Under
<1>3. DSpec => [][Under]_dvars
      BY <1>2, InitWindows, InitPointer, PTL DEF DSpec
<1> QED BY <1>3 DEF ActiveWindowUnderPointer, Under

\* Whatever archive is mounted and whatever is typed, clicked or opened, the
\* cursor stays inside the edit's buffer, the selection inside the navigator's
\* list, the pointer on the screen and the count of open files in its range or
\* overwritten.
THEOREM DesktopTypeCorrect == DSpec => []TypeOK
<1>1. DInit => FilesInv /\ PhaseInv
      BY InitFiles DEF DInit, FInit, PhaseInv
<1>2. WindowsInv /\ PointerInv /\ GuiInv /\ PhaseInv => TypeOK
    <2> SUFFICES ASSUME WindowsInv, PointerInv, GuiInv, PhaseInv PROVE TypeOK
        OBVIOUS
    <2>1. \A k \in DOMAIN windows : windows[k].focus \in {"none", "edit", "fn"}
        <3>1. DOMAIN windows = 1 .. Len(windows) /\ \A k \in 1 .. Len(windows) : IsWindow(windows[k])
              BY DEF WindowsInv, IsWindows
        <3>2. \A v : IsWindow(v) => v.focus \in {"none", "edit", "fn"}
              BY DEF IsWindow
        <3> QED BY <3>1, <3>2
    <2>2. phase = "gui" => fn.selected \in 0 .. Len(fn.files) - 1
          BY DEF GuiInv, IsNavigator
    <2>3. phase # "stopped" => Len(edit.text) <= EditLength
          BY DEF GuiInv, IsEdit
    <2>4. task.file_count \in {Pointer} \cup 0 .. MaxFiles
          BY DEF GuiInv, IsTask
    <2> QED BY <2>1, <2>2, <2>3, <2>4 DEF TypeOK, PointerInv, PhaseInv
<1> QED BY <1>1, <1>2, InitWindows, StepWindows, InitPointer, StepPointer, InitGui, StepTypes,
           StepPhase, PTL DEF DSpec

\* tar_parse counts the headers whose data is all in the module and no other,
\* whatever the sizes, the size of a block, the width of an address and where the
\* module lies, unless the file that does not fit ends beyond all addresses.
\* (tar_parse, tar_getsize.)
THEOREM WholeFilesCounted == DSpec => []CountsWholeFiles
<1>1. FilesInv /\ ParseInv => CountsWholeFiles
    <2> SUFFICES ASSUME FilesInv, ParseInv, phase \in {"parsed", "build", "up"}, disk.end > 0, ~Wraps(disk)
                 PROVE  1 .. files = WholeHeaders(disk)
        BY DEF CountsWholeFiles
    <2> DEFINE n == Len(disk.entries)
    <2>1. /\ module \in DOMAIN Disks /\ files \in 0 .. n /\ n \in Nat
          /\ disk.end \in Nat /\ DOMAIN disk.entries = 1 .. n
          BY Constants, FilesAssumption DEF FilesInv, disk
    <2>2. WholeHeaders(disk) = {k \in 1 .. n : EndsAt(disk, k) <= disk.end}
          BY <2>1, EndsAtEndOf DEF WholeHeaders
    <2>3. /\ files >= 1 => EndsAt(disk, files) <= disk.end
          /\ files = n \/ EndsAt(disk, files + 1) > disk.end
          BY DEF ParseInv, Fit
    <2>4. \A k \in 0 .. n : EndsAt(disk, k) \in Nat
          BY <2>1, EndsAtIs DEF disk
    <2> HIDE DEF n
    <2>5. ASSUME NEW k \in 1 .. files PROVE k \in 1 .. n /\ EndsAt(disk, k) <= disk.end
        <3>1. k \in 0 .. n /\ files \in k .. n /\ k \in 1 .. n /\ files >= 1
              BY <2>1
        <3>2. EndsAt(disk, k) <= EndsAt(disk, files)
              BY <2>1, <3>1, EndsGrow DEF disk, n
        <3>3. EndsAt(disk, k) \in Nat /\ EndsAt(disk, files) \in Nat
              BY <2>1, <2>4, <3>1
        <3> QED BY <2>1, <2>3, <3>1, <3>2, <3>3
    <2>6. ASSUME NEW k \in 1 .. n, EndsAt(disk, k) <= disk.end PROVE k \in 1 .. files
        <3> SUFFICES ASSUME k > files PROVE FALSE
            BY <2>1
        <3>1. files + 1 \in 0 .. n /\ k \in files + 1 .. n /\ files # n /\ k \in 0 .. n
              BY <2>1
        <3>2. EndsAt(disk, files + 1) <= EndsAt(disk, k)
              BY <2>1, <3>1, EndsGrow DEF disk, n
        <3>3. EndsAt(disk, k) \in Nat /\ EndsAt(disk, files + 1) \in Nat
              BY <2>4, <3>1
        <3> QED BY <2>1, <2>3, <2>6, <3>1, <3>2, <3>3
    <2> QED BY <2>2, <2>5, <2>6
<1>2. DInit => FilesInv /\ ParseInv
      BY InitFiles, InitParse DEF DInit
<1> QED BY <1>1, <1>2, InitGui, StepTypes, StepParse, PTL DEF DSpec

\* What /ram lists is what a plain archive holds, whatever its names, its depth
\* and the devices beside it: every directory's entries in the archive's order,
\* every file the first of its path.  (ramfs, _ramfs_create_path,
\* root_fs_finddir, ramfs_readdir.)
THEOREM ArchiveAlwaysListed == DSpec => []DiskIsArchive
<1>1. DInit => FilesInv /\ PlainInv
      BY InitFiles, InitPlain DEF DInit
<1>2. FilesInv /\ PlainInv => DiskIsArchive
      BY ArchiveListed
<1> QED BY <1>1, <1>2, InitWindows, InitGui, StepWindows, StepTypes, StepPlain, PTL DEF DSpec

\* With a plain archive the navigator is always in a directory that exists,
\* lists all of it in order (unless the first dirent's offset was not 0), and the
\* edit shows its path until something is typed.  (file_navigator_set,
\* file_navigator_choose, edit_set_text.)
THEOREM NavigatorAlwaysShowsDirectory == DSpec => []NavigatorShowsDirectory
<1>1. FilesInv /\ PlainInv /\ GuiInv /\ NavInv => NavigatorShowsDirectory
    <2> SUFFICES ASSUME FilesInv, PlainInv, GuiInv, NavInv, phase = "gui", PlainArchive(disk)
                 PROVE  LET n == find(fn.directory)
                        IN  /\ n # NULL /\ nodes[n].dir
                            /\ ~skipped => fn.files = <<NULL>> \o nodes[n].list
                            /\ typed = 0 => edit = [text |-> fn.directory, ended |-> TRUE]
        BY DEF NavigatorShowsDirectory
    <2> DEFINE n == find(fn.directory)
    <2>1. PlainDisk(disk)
          BY PlainIs DEF FilesInv, disk
    <2>2. Named
          BY <2>1, PlainBootIs, PlainNamed
    <2>3. PICK segs : /\ IsPath(fn.directory, segs)
                      /\ Reached(nodes, ROOT, segs) # NULL /\ nodes[Reached(nodes, ROOT, segs)].dir
          BY <2>1, <2>2 DEF NavInv, InDirectory
    <2>4. IsTree(nodes) /\ Len(nodes) >= 1
          BY DEF FilesInv, ROOT
    <2>5. n # NULL /\ nodes[n].dir /\ n \in NodeOf(nodes)
          BY <2>3, <2>4, FindPath
    <2>6. ASSUME ~skipped PROVE fn.files = <<NULL>> \o nodes[n].list
        <3>1. fn.files = <<NULL>> \o Listing(nodes, fn.directory, 0)
              BY <2>6 DEF NavInv
        <3>2. n = FoundAt(nodes, fn.directory)
              BY ReaddirIs
        <3>3. Listing(nodes, fn.directory, 0) = [k \in 1 .. Len(nodes[n].list) - 0 |-> nodes[n].list[k + 0]]
              BY <2>5, <3>2 DEF Listing
        <3> HIDE DEF n
        <3> DEFINE list == nodes[n].list
        <3>4. list \in Seq(Nat)
              BY <2>4, <2>5, TreeIs DEF NodeOf
        <3> HIDE DEF list
        <3>5. /\ Len(list) \in Nat /\ Len(list) - 0 = Len(list) /\ list = [k \in 1 .. Len(list) |-> list[k]]
              /\ \A k \in 1 .. Len(list) : k + 0 = k
              BY <3>4
        <3>6. [k \in 1 .. Len(list) - 0 |-> list[k + 0]] = list
              BY <3>5
        <3> QED BY <3>1, <3>3, <3>6 DEF list
    <2> QED BY <2>5, <2>6 DEF NavInv
<1>2. DInit => FilesInv /\ PlainInv
      BY InitFiles, InitPlain DEF DInit
<1> QED BY <1>1, <1>2, InitWindows, InitGui, InitNav, StepWindows, StepTypes, StepPlain, StepNav, PTL DEF DSpec

\* However many files are opened with descriptors that are never closed, through
\* one buffer that is used again, and whatever the archive, plain or not, as long
\* as its directories have names: a view shows the file that was chosen, or the
\* first of that name in its directory, and no more of it than there is.
\* (text_view, open, read, ramfs_read, file_navigator_choose.)
THEOREM ViewsAlwaysShowFiles == DSpec => []ViewShowsFile
<1>1. ViewsInv => ViewShowsFile
    <2> SUFFICES ASSUME ViewsInv, \A n \in DOMAIN nodes : nodes[n].name # NoName, NEW k \in 2 .. Len(windows)
                 PROVE  LET view == windows[k]
                        IN  view.text.len > 0 =>
                               /\ view.chosen \in Range(nodes[view.from].list)
                               /\ view.text.file =
                                     FindName(nodes, nodes[view.from].list, nodes[view.chosen].name)
                               /\ nodes[view.text.file].read = "ram" =>
                                     view.text.len <= FileSize(view.text.file)
        BY DEF ViewShowsFile
    <2>1. Shown(nodes, disk, windows[k])
          BY DEF ViewsInv, Named
    <2> QED BY <2>1 DEF Shown, SizeOf, FileSize
<1>2. DInit => FilesInv /\ PlainInv
      BY InitFiles, InitPlain DEF DInit
<1> QED BY <1>1, <1>2, InitWindows, InitGui, InitNav, InitTask, InitViews, StepWindows, StepTypes, StepPlain,
           StepNav, StepTask, StepViews, PTL DEF DSpec

\* What is written outside an object has the causes that are named, for every
\* archive and every way through it; but for path(), which does so with every
\* lookup: an archive that is not plain, has too many headers or a size beyond 32
\* bits, or ends with its last file, a file that fills buff, a directory's path
\* too long for the edit, as many views as files[] holds, a cursor or icons that
\* have a header, or ".." in "/"; and without one of them nothing stops.
\* (tar_parse, ramfs, path, open, text_view, edit_set_text, bmp_image_from_file,
\* file_navigator_choose.)
THEOREM HarmAlwaysHasCause == DSpec => []HarmHasCause
<1>1. FilesInv /\ PlainInv /\ HarmInv => HarmHasCause
    <2> SUFFICES ASSUME FilesInv, PlainInv, HarmInv PROVE HarmHasCause
        OBVIOUS
    <2>1. PlainArchive(disk) => PlainDisk(disk)
          BY PlainIs DEF FilesInv, disk
    <2>2. "disk" \in harm => ~PlainArchive(disk)
          BY <2>1 DEF PlainInv
    <2>3. EndOf(disk, Len(disk.entries)) = disk.end <=> NoZerosIn(disk)
          BY EndsAtEndOf DEF NoZerosIn
    <2>4. \A file, size : Fills(nodes, disk, file, size) <=> Gives(file, size)
          BY DEF Fills, Gives, SizeOf, FileSize
    <2>5. LongDir(disk) \/ ~PlainDisk(disk) =>
              \/ \E k \in DOMAIN disk.entries : /\ disk.entries[k].type = "dir"
                                                /\ 2 * (1 + Len(Names(disk.entries[k].name))) > EditLength
              \/ ~PlainArchive(disk)
          BY <2>1 DEF LongDir
    <2>6. \A name : find(name) = FoundAt(nodes, name)
          BY ReaddirIs
    <2>7. /\ phase = "stopped" => harm \ {"path"} # {}
          /\ Caused(harm, nodes, disk, windows)
          BY DEF HarmInv
    <2> QED BY <2>2, <2>3, <2>4, <2>5, <2>6, <2>7 DEF HarmHasCause, Caused
<1>2. DInit => FilesInv /\ PlainInv /\ ParseInv
      BY InitFiles, InitPlain, InitParse DEF DInit
<1> QED BY <1>1, <1>2, InitWindows, InitGui, InitNav, InitTask, InitHarm, StepWindows, StepTypes, StepPlain,
           StepParse, StepNav, StepTask, StepHarm, PTL DEF DSpec
=============================================================================
