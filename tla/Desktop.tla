------------------------------- MODULE Desktop -------------------------------
(***************************************************************************)
(* What the GUI does with the keys and mouse packets it is sent: gui.c, the *)
(* widgets of gui/widgets, and the two windows of gui/test, the explorer    *)
(* that every boot opens and the text view of a chosen file.  The files     *)
(* come from Files.tla, whose boot precedes the GUI's.                      *)
(*                                                                          *)
(* The GUI handles a message with interrupts disabled: one action each.     *)
(* Drawing is left out.  Releasing a key and moving inside a window reach   *)
(* callbacks that are NULL or empty and change nothing; so does the key_up  *)
(* that text_view sets, which window_key_up does not call.                  *)
(***************************************************************************)
EXTENDS Files

CONSTANTS Screen,     \* [w, h]: gfx_width(), gfx_height()
          Explorer,   \* box [x, y, w, h] of the explorer's window
          ViewSize,   \* [w, h] of a text view's window
          Shift,      \* how far a text view lies from the active window, 60
          Boxes,      \* boxes of "edit", "btn" and "fn" in the explorer
          EditLength, \* edt->length, 32
          BufSize,    \* buff[256] of text_view
          ImageSize,  \* sizeof(struct bmp_image)
          Keys,       \* keys pressed: "enter", "down", "up", "backspace", others
          MaxMove,    \* bound on the way a packet moves the pointer
          MaxWindows, \* bound on the windows
          MaxTyped    \* bound on the keys that go to the edit before it is set

ASSUME DesktopAssumption ==
    /\ {BufSize, ImageSize, MaxMove, MaxWindows, MaxTyped} \subseteq Nat \ {0}
    /\ EditLength \in Nat \ {0, 1}   \* "/ram" fits
    /\ DOMAIN Boxes = {"edit", "btn", "fn"}
    /\ Screen \in [w : Nat, h : Nat] /\ ViewSize \in [w : Nat, h : Nat] /\ Shift \in Nat
    /\ Explorer \in [x : Nat, y : Nat, w : Nat, h : Nat]

VARIABLES windows,    \* children of desktop_window, in the order of creation; from
                      \* and chosen of a text view are history
          fn,         \* the file navigator
          edit,       \* the edit's text up to cursor_position, and whether NUL follows
          btn,        \* pressed of the button
          pointer,    \* pointerX, pointerY
          buff,       \* what buff of text_view holds: a file and how much of it
          typed,      \* history: keys that went to the edit since it was set
          skipped     \* history: the first dirent's unset offset was not 0

gui == <<windows, fn, edit, btn, pointer, buff, typed, skipped>>
dvars == <<fvars, gui>>

Typed == "typed"      \* any key in an edit
UnsetOffset == 99     \* an offset behind every directory

Children(w) == IF w = 1 THEN <<"edit", "btn", "fn">> ELSE <<"label">>

-----------------------------------------------------------------------------
(* Windows and the pointer.                                                 *)

\* (variant) the height is not looked at
point_is_inside_wide(box, x, y) == box.x <= x /\ x <= box.x + box.w

\* point_is_inside: both edges belong to the box
point_is_inside(box, x, y) == /\ box.x <= x /\ x <= box.x + box.w
                              /\ box.y <= y /\ y <= box.y + box.h

\* The first of a list that the point is in, or NULL.
FirstAt(boxes, x, y) ==
    LET hits == {k \in DOMAIN boxes : point_is_inside(boxes[k], x, y)}
    IN  IF hits = {} THEN NULL ELSE CHOOSE k \in hits : \A j \in hits : k <= j

gui_get_active_window(all) ==
    LET active == {k \in DOMAIN all : all[k].active}
    IN  IF active = {} THEN NULL ELSE CHOOSE k \in active : \A j \in active : k <= j

\* (variant) the others stay active
gui_set_active_window_only(all, w) == [all EXCEPT ![w].active = TRUE]

gui_set_active_window(all, w) == [k \in DOMAIN all |-> [all[k] EXCEPT !.active = (k = w)]]

window_create(box) ==
    [box |-> box, active |-> FALSE, focus |-> "none",
     text |-> [file |-> NULL, len |-> 0], from |-> NULL, chosen |-> NULL]

\* A window goes behind the desktop's other children.
widget_set_parent(all, wnd) == Append(all, wnd)

\* widget_set_focus; widget_get_window is the window that is the parent
widget_set_focus(all, w, widget) == [all EXCEPT ![w].focus = widget]

-----------------------------------------------------------------------------
(* The edit.                                                                *)

edit_create == [text |-> <<>>, ended |-> TRUE]

\* edit_set_text; a text longer than length ends with a NUL behind the buffer
edit_set_text(text) ==
    [text  |-> IF Len(text) > EditLength THEN SubSeq(text, 1, EditLength + 1) ELSE text,
     ended |-> TRUE]

\* edit_keydown; no NUL is stored behind the key, so that what the buffer held
\* there before is shown again
edit_keydown(key) ==
    /\ typed < MaxTyped
    /\ edit' = IF key = "backspace"
               THEN IF edit.text = <<>> THEN edit
                    ELSE [text |-> Front(edit.text), ended |-> TRUE]
               ELSE IF Len(edit.text) >= EditLength THEN edit
               ELSE [text |-> Append(edit.text, Typed), ended |-> FALSE]
    /\ typed' = typed + 1
    /\ UNCHANGED <<fvars, windows, fn, btn, pointer, buff, skipped>>

-----------------------------------------------------------------------------
(* The text view and the file navigator.                                    *)

\* (variant) the buffer is not cleared
ReadText_stale(o) ==
    IF o.fd < 0 THEN buff
    ELSE [file |-> o.task.files[o.fd + 1], len |-> read(o.fd, o.task, BufSize)]

\* What text_view reads into buff from a descriptor.
ReadText(o) ==
    IF o.fd < 0 THEN [file |-> NULL, len |-> 0]
    ELSE [file |-> o.task.files[o.fd + 1], len |-> read(o.fd, o.task, BufSize)]

\* text_view: buff[sz] = 0 may lie behind buff; the new window becomes active
text_view(file, chosen) ==
    LET o == open(file, task)
        at == windows[gui_get_active_window(windows)].box
        box == [x |-> at.x + Shift, y |-> at.y + Shift, w |-> ViewSize.w, h |-> ViewSize.h]
        wnd == [window_create(box) EXCEPT !.text = ReadText(o), !.from = find(fn.directory),
                                          !.chosen = chosen]
    IN  /\ Len(windows) < MaxWindows
        /\ task' = o.task
        /\ buff' = ReadText(o)
        /\ windows' = gui_set_active_window(widget_set_parent(windows, wnd), Len(windows) + 1)
        /\ harm' = harm \cup o.stores \cup IF ReadText(o).len = BufSize THEN {"buff"} ELSE {}
        /\ phase' = IF "files" \in o.stores THEN "stopped" ELSE phase

file_navigator_create == [directory |-> <<>>, files |-> <<>>, selected |-> -1]

\* file_navigator_set: "..", then what readdir gives from the offset of a dirent
\* that was not filled in; the one OnChoose call finds no selected file.
file_navigator_set(directory, offset) ==
    [directory |-> directory,
     files     |-> <<NULL>> \o readdir(directory, offset),
     selected  |-> 0]

\* ".." cuts directory behind the last "/" that is not its end.
UpDirectory(directory) ==
    LET cuts == {k \in 1 .. Len(directory) - 1 : directory[k] = "/"}
    IN  SubSeq(directory, 1, CHOOSE k \in cuts : \A j \in cuts : k >= j)

\* strcat of a name, which may have no characters
strcat(path1, name) == path1 \o (IF name = NoName THEN <<>> ELSE <<name>>)

\* (variant) a "/" whatever directory ends with
DownDirectory_slash(directory, name) == strcat(strcat(directory, "/"), name)

DownDirectory(directory, name) ==
    strcat(IF Last(directory) = "/" THEN directory ELSE strcat(directory, "/"), name)

FilePath(directory, name) == strcat(strcat(directory, "/"), name)

list_get(list, idx) == list[idx + 1]

\* OnChoose_user: the explorer shows the directory; a NUL behind the buffer
\* spoils the next block and the next malloc panics.
file_explorer_on_change_dir(directory) ==
    /\ edit' = edit_set_text(directory)
    /\ typed' = 0
    /\ UNCHANGED <<btn, pointer>>

ChangeDirectory(directory, offset, stores) ==
    /\ fn' = file_navigator_set(directory, offset)
    /\ harm' = harm \cup Stray(directory) \cup stores
    /\ skipped' = (offset # 0)
    /\ file_explorer_on_change_dir(directory)
    /\ UNCHANGED <<boot, task, windows, buff>>

\* file_navigator_choose
choose_up(offset) ==
    /\ fn.directory # <<"/">>
    /\ ChangeDirectory(UpDirectory(fn.directory), offset, {})
    /\ UNCHANGED phase

\* ".." in "/": strlen - 2 wraps, the search runs down through the heap to some
\* "/" and clears the byte behind it, one that nothing uses or one that matters.
choose_up_top(offset) ==
    /\ fn.directory = <<"/">>
    /\ ChangeDirectory(<<"/">>, offset, {"top"})
    /\ phase' \in {phase, "stopped"}

choose_down(n, offset) ==
    LET directory == DownDirectory(fn.directory, nodes[n].name)
        long == Len(directory) > EditLength
    IN  /\ nodes[n].dir
        /\ ChangeDirectory(directory, offset, IF long THEN {"edit"} ELSE {})
        /\ phase' = IF long THEN "stopped" ELSE phase

choose_file(n) ==
    /\ ~nodes[n].dir
    /\ text_view(FilePath(fn.directory, nodes[n].name), n)
    /\ file_explorer_on_change_dir(fn.directory)
    /\ UNCHANGED <<boot, fn, skipped>>

file_navigator_choose ==
    LET n == list_get(fn.files, fn.selected)
    IN  \/ n = NULL /\ \E offset \in {0, UnsetOffset} : choose_up(offset)
        \/ n = NULL /\ \E offset \in {0, UnsetOffset} : choose_up_top(offset)
        \/ n # NULL /\ \E offset \in {0, UnsetOffset} : choose_down(n, offset)
        \/ n # NULL /\ choose_file(n)

\* (variant) one past the last entry
file_navigator_move_past(key) ==
    /\ key \in {"down", "up"}
    /\ fn' = [fn EXCEPT !.selected =
                 IF key = "down" THEN IF @ + 1 > Len(fn.files) THEN @ ELSE @ + 1
                 ELSE IF @ = 0 THEN 0 ELSE @ - 1]
    /\ UNCHANGED <<fvars, windows, edit, btn, pointer, buff, typed, skipped>>

\* file_navigator_keydown, the arrows
file_navigator_move(key) ==
    /\ key \in {"down", "up"}
    /\ fn' = [fn EXCEPT !.selected =
                 IF key = "down" THEN IF @ + 1 >= Len(fn.files) THEN @ ELSE @ + 1
                 ELSE IF @ = 0 THEN 0 ELSE @ - 1]
    /\ UNCHANGED <<fvars, windows, edit, btn, pointer, buff, typed, skipped>>

-----------------------------------------------------------------------------
(* The GUI's thread.                                                        *)

CursorFile == <<"/", "ram", "/", "ui", "/", "cursor">>
IconFile == <<"/", "ram", "/", "ui", "/", "icons">>

\* Whatever the image turns out to be, its file stays open.  bmp->data is stored
\* in a block of the size the header gives, which may be too short for it.
bmp_image_from_file(file, t) ==
    LET o == open(file, t)
        header == o.fd >= 0 /\ read(o.fd, o.task, ImageSize) = ImageSize
    IN  {[task |-> o.task, stores |-> o.stores \cup data] :
            data \in IF header THEN {{}, {"bmp"}} ELSE {{}}}

\* gui_main before its loop: gui_desktop_create, file_explorer,
\* gui_cursor_create and iconset.
gui_start ==
    LET wnd == [window_create(Explorer) EXCEPT !.focus = "fn"]
    IN  /\ phase = "up"
        /\ phase' = "gui"
        /\ \E cursor \in bmp_image_from_file(CursorFile, task) :
              \E icons \in bmp_image_from_file(IconFile, cursor.task) :
                 /\ task' = icons.task
                 /\ harm' = harm \cup cursor.stores \cup icons.stores
        /\ windows' = gui_set_active_window(<<wnd>>, 1)
        /\ \E offset \in {0, UnsetOffset} : /\ fn' = file_navigator_set(<<"/">>, offset)
                                            /\ skipped' = (offset # 0)
        /\ edit' = edit_set_text(<<"/">>)
        /\ pointer' = [x |-> Screen.w \div 2, y |-> Screen.h \div 2]
        /\ UNCHANGED <<boot, btn, buff, typed>>

\* A KEYBOARD message, pressed: window_key_down of the active window passes the
\* key to the widget that has its focus.
gui_key(key) ==
    LET w == gui_get_active_window(windows)
        focus == windows[w].focus
    IN  /\ phase = "gui" /\ w # NULL
        /\ \/ focus = "edit" /\ edit_keydown(key)
           \/ focus = "fn" /\ key = "enter" /\ file_navigator_choose
           \/ focus = "fn" /\ file_navigator_move(key)

button_create == FALSE

\* The button is down while the left button is down over it.
button_mouse_event(left) == left

\* edit_mouse_event and file_navigator_mouse_event take the focus.
TakesFocus(child) == child \in {"edit", "fn"}

\* window_mouse_event: the window becomes active, the first child at that place
\* gets the event
window_mouse_event(w, x, y, left) ==
    LET all == IF left THEN gui_set_active_window(windows, w) ELSE windows
        k == IF w = 1 THEN FirstAt([j \in 1 .. 3 |-> Boxes[Children(1)[j]]], x, y) ELSE NULL
        child == IF k = NULL THEN "none" ELSE Children(1)[k]
    IN  /\ windows' = IF left /\ TakesFocus(child) THEN widget_set_focus(all, w, child)
                      ELSE all
        /\ btn' = IF child = "btn" THEN button_mouse_event(left) ELSE btn

Clamp(v, top) == IF v < 0 THEN 0 ELSE IF v > top THEN top ELSE v

\* A MOUSE message: the active window if the pointer is in it, or the first
\* other window that it is in.
gui_mouse(dx, dy, left) ==
    LET x == Clamp(pointer.x + dx, Screen.w)
        y == Clamp(pointer.y - dy, Screen.h)
        active == gui_get_active_window(windows)
        w == IF active # NULL /\ point_is_inside(windows[active].box, x, y) THEN active
             ELSE FirstAt([k \in DOMAIN windows |-> windows[k].box], x, y)
    IN  /\ phase = "gui"
        /\ pointer' = [x |-> x, y |-> y]
        /\ IF active = NULL \/ w = NULL THEN UNCHANGED <<windows, btn>>
           ELSE window_mouse_event(w, x - windows[w].box.x, y - windows[w].box.y, left)
        /\ UNCHANGED <<fvars, fn, edit, buff, typed, skipped>>

DInit == /\ FInit
         /\ windows = <<>>
         /\ fn = file_navigator_create
         /\ edit = edit_create
         /\ btn = button_create
         /\ pointer = [x |-> 0, y |-> 0]
         /\ buff = [file |-> NULL, len |-> 0]
         /\ typed = 0 /\ skipped = FALSE

DNext == \/ FNext /\ UNCHANGED gui
         \/ gui_start
         \/ \E key \in Keys : gui_key(key)
         \/ \E dx, dy \in - MaxMove .. MaxMove, left \in BOOLEAN :
               dx * dx + dy * dy <= MaxMove * MaxMove /\ gui_mouse(dx, dy, left)

DSpec == DInit /\ [][DNext]_dvars

-----------------------------------------------------------------------------
(* Properties.                                                              *)

\* The types of the GUI's state: the cursor and the selection stay inside the
\* edit's buffer and the navigator's list, whatever is typed or chosen.
TypeOK ==
    /\ phase \in {"start", "serial", "parse", "parsed", "build", "up", "gui", "stopped"}
    /\ \A k \in DOMAIN windows : windows[k].focus \in {"none", "edit", "fn"}
    /\ pointer \in [x : 0 .. Screen.w, y : 0 .. Screen.h]
    /\ phase = "gui" => fn.selected \in 0 .. Len(fn.files) - 1
    /\ phase # "stopped" => Len(edit.text) <= EditLength
    /\ task.file_count \in {Pointer} \cup 0 .. MaxFiles

\* Once the GUI runs, one window is active, and it holds the focus of its own
\* widgets only; a text view never has one.  (gui_set_active_window,
\* widget_set_focus.)
OneActive ==
    phase = "gui" => /\ Cardinality({k \in DOMAIN windows : windows[k].active}) = 1
                     /\ \A k \in 2 .. Len(windows) : windows[k].focus = "none"

\* Keys change over to another window only when it was just opened or when the
\* pointer is inside it.  (gui_main, window_mouse_event.)
ActiveWindowUnderPointer ==
    [][LET w == gui_get_active_window(windows')
       IN  phase = "gui" /\ w # gui_get_active_window(windows) =>
               \/ w > Len(windows)
               \/ LET box == windows[w].box
                  IN  /\ pointer'.x \in box.x .. box.x + box.w
                      /\ pointer'.y \in box.y .. box.y + box.h]_dvars

\* With a plain archive the navigator is in a directory that exists, lists ".."
\* and all of that directory in order, and the edit above it shows its path as
\* long as nothing was typed; only the unset offset of the first dirent can make
\* it list less.
\* (file_navigator_set, file_navigator_choose, edit_set_text.)
NavigatorShowsDirectory ==
    phase = "gui" /\ PlainArchive(disk) =>
        LET n == find(fn.directory)
        IN  /\ n # NULL /\ nodes[n].dir
            /\ ~skipped => fn.files = <<NULL>> \o nodes[n].list
            /\ typed = 0 => edit = [text |-> fn.directory, ended |-> TRUE]

\* A text view shows the file that was chosen, or the first of that name in the
\* directory it was listed in, from its beginning, or nothing.  Where a directory
\* has no name, "a//x" is also what the navigator calls the x of "a".
\* (file_navigator_choose, text_view, which clears and reuses one buffer;
\* descriptors are never closed.)
ViewShowsFile ==
    (\A n \in DOMAIN nodes : nodes[n].name # NoName) =>
    \A k \in 2 .. Len(windows) :
        LET view == windows[k]
            list == nodes[view.from].list
        IN  view.text.len > 0 =>
               /\ view.chosen \in Range(list)
               /\ view.text.file = FindName(nodes, list, nodes[view.chosen].name)
               /\ nodes[view.text.file].read = "ram" =>
                     view.text.len <= FileSize(view.text.file)

\* n gives as much as is read from it, if that is not more than size.
Gives(n, size) == /\ n # NULL
                  /\ \/ nodes[n].read = "device"
                     \/ nodes[n].read = "ram" /\ FileSize(n) >= size

\* What is written outside an object while an archive is mounted and browsed has
\* a cause; but for path(), which does so with every lookup, that is an archive
\* with entries before their directory or with links, more headers than headers[]
\* has, a size beyond 32 bits, or no zeros after its last file; a file or a device
\* that fills buff; a path longer than the edit; as many files opened as files[]
\* holds, and one more; a cursor or icons that have a header; or ".." in "/".
\* Without one of these the desktop does not stop.  (tar_parse, ramfs, path, open,
\* text_view, edit_set_text, bmp_image_from_file, file_navigator_choose.)
HarmHasCause ==
    LET LongPath == \E k \in DOMAIN disk.entries :
                       /\ disk.entries[k].type = "dir"
                       /\ 2 * (1 + Len(Names(disk.entries[k].name))) > EditLength
        NoZeros == EndOf(disk, Len(disk.entries)) = disk.end
    IN  /\ phase = "stopped" => harm \ {"path"} # {}
        /\ "disk" \in harm => ~PlainArchive(disk)
        /\ "headers" \in harm => \/ Len(disk.entries) > MaxHeaders
                                 \/ Len(disk.entries) = MaxHeaders /\ NoZeros
        /\ "wrap" \in harm => Wraps(disk) \/ NoZeros
        /\ "buff" \in harm => \E k \in 2 .. Len(windows) : Gives(windows[k].text.file, BufSize)
        /\ "edit" \in harm => LongPath \/ ~PlainArchive(disk)
        /\ "count" \in harm => Len(windows) >= MaxFiles
        /\ "files" \in harm => Len(windows) - 1 >= MaxFiles
        /\ "bmp" \in harm => \E file \in {CursorFile, IconFile} : Gives(find(file), ImageSize)

\* A chosen file is opened: with descriptors left, its view has its text.
ChosenFileOpens ==
    \A k \in 2 .. Len(windows) :
        windows[k].text.file = NULL => task.file_count = Pointer

=============================================================================
