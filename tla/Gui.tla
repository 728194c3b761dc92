---------------------------------- MODULE Gui ----------------------------------
(***************************************************************************)
(* gui/gui.c: the table of windows, the focus, the menus and the switcher, as *)
(* operators on the GuiContext.  What the mouse points at is one value, the   *)
(* first thing that the tests of gui_handle_mouse_click find, and the place   *)
(* and size of a window one value of Places: coordinates are left out.        *)
(***************************************************************************)
EXTENDS Integers, Sequences, FiniteSets, FiniteSetsExt

CONSTANTS
  MaxWindows,  \* MAX_WINDOWS
  Frames,      \* of the opening, closing and minimizing animations
  Places       \* where a window can be dragged to, or maximized

ASSUME GuiAssumption == MaxWindows \in Nat \ {0}

None  == -1
Slots == 0 .. MaxWindows - 1
Anims == {"none", "open", "close", "min"}
Apps  == {"terminal", "monitor", "readme", "about"}
NoText == <<"none", None>>

\* own is the terminal made with the window; the code keeps no such field.
NoWindow == [shown |-> FALSE, min |-> FALSE, anim |-> "none", frame |-> 0, focused |-> FALSE,
             drag |-> "none", title |-> "none", term |-> FALSE, text |-> NoText, typed |-> 0,
             own |-> None, place |-> 0]

\* prev_left and prev_right; left_btn and right_btn are set with them.
GuiInit(g) ==
  [win |-> [i \in Slots |-> [g.win[i] EXCEPT !.shown = FALSE]], count |-> 0, focus |-> None,
   left |-> FALSE, right |-> FALSE, start |-> FALSE, context |-> FALSE,
   tab |-> FALSE, tabIdx |-> 0]

Used(g) == 0 .. g.count - 1
Shown(g) == {i \in Used(g) : g.win[i].shown}
Visible(g) == {i \in Shown(g) : ~g.win[i].min}

\* The loops that give the focus to one window, and what they go with: it is restored
OnlyFocus(g, i) ==
  [g EXCEPT !.focus = i,
            !.win = [j \in Slots |-> [g.win[j] EXCEPT !.focused = IF j \in Used(g) THEN j = i ELSE @,
                                                      !.min = IF j = i THEN FALSE ELSE @]]]

----------------------------------------------------------------------------
(* Windows *)

Reusable(g) == {i \in Used(g) : ~g.win[i].shown /\ g.win[i].anim = "none"}
FreeSlot(g) == IF Reusable(g) = {} THEN None ELSE Min(Reusable(g))

\* gui_create_window, from the slot its search has found on: the window, or None.
Place(g, found) == IF found # None THEN found ELSE IF g.count < MaxWindows THEN g.count ELSE None
Created(g, i, title) ==
  LET n == IF i = g.count THEN i + 1 ELSE g.count
      new == [NoWindow EXCEPT !.shown = TRUE, !.anim = "open", !.title = title]
  IN [g EXCEPT !.count = n, !.focus = i,
               !.win = [j \in Slots |-> IF j = i THEN [new EXCEPT !.focused = i >= n - 1]
                                        ELSE [g.win[j] EXCEPT !.focused = j >= n - 1 /\ @]]]

Gone(g, i) ==
  [g EXCEPT !.win[i].shown = FALSE, !.win[i].anim = "none", !.focus = IF @ = i THEN None ELSE @]
Animated(g, i, anim) == [g EXCEPT !.win[i].anim = anim, !.win[i].frame = 0]
CloseWindow(g, i) ==
  IF ~g.win[i].shown THEN g
  ELSE IF g.win[i].anim = "close" THEN [Gone(g, i) EXCEPT !.win[i].frame = 0]
  ELSE Animated(g, i, "close")

\* _try_window_click, at a part of window i
Parts == {"close", "min", "max", "corner", "title", "body"}
ClickWindow(g, i, part) ==
  CASE part = "close" -> CloseWindow(g, i)
    [] part = "min"   -> Animated(g, i, "min")
    [] part = "max"   -> [g EXCEPT !.win[i].place = 0]
    [] OTHER -> [OnlyFocus(g, i) EXCEPT !.win[i].drag = IF part = "corner" THEN "size"
                                                        ELSE IF part = "title" THEN "move" ELSE @]

\* gui_render_window: one frame of window i.  An animation that is over takes the
\* window away, undrawn, and the focus with it.
\* Mutant: the window goes and keeps the focus
EndedFocused(g, i) ==
  IF g.win[i].anim = "min" THEN [g EXCEPT !.win[i].min = TRUE, !.win[i].anim = "none"]
  ELSE [g EXCEPT !.win[i].shown = FALSE, !.win[i].anim = "none"]
Ended(g, i) ==
  IF g.win[i].anim = "min"
  THEN [g EXCEPT !.win[i].min = TRUE, !.win[i].anim = "none", !.focus = IF @ = i THEN None ELSE @]
  ELSE Gone(g, i)
\* Mutant: the frame is not counted while the window has not the focus
AdvancedFocused(g, i) ==
  IF g.win[i].anim = "none" \/ (g.focus # None /\ g.focus # i) THEN g
  ELSE [g EXCEPT !.win[i].frame = @ + 1]
Advanced(g, i) == IF g.win[i].anim = "none" THEN g ELSE [g EXCEPT !.win[i].frame = @ + 1]
RenderWindow(g, i) ==
  LET w == Advanced(g, i).win[i] IN
  IF i \notin Visible(g) THEN g
  ELSE IF w.anim = "none" \/ w.frame < Frames[w.anim] THEN Advanced(g, i)
  ELSE IF w.anim = "open" THEN [Advanced(g, i) EXCEPT !.win[i].anim = "none"]
  ELSE Ended(Advanced(g, i), i)

----------------------------------------------------------------------------
(* The mouse *)

\* gui_handle_mouse_move: what is dragged goes to p, which its clamps allow.
MouseMove(g, p) ==
  [g EXCEPT !.win = [i \in Slots |-> IF g.left /\ i \in Used(g) /\ g.win[i].drag # "none"
                                     THEN [g.win[i] EXCEPT !.place = p] ELSE g.win[i]]]

\* What a click can find, in the order it is looked for
Hits(g) ==
  [kind : IF g.start \/ g.context THEN {"menu"} ELSE {}, i : {None}, what : Apps \cup {"gap"}]
    \cup [kind : {"icon"}, i : {None}, what : Apps]
    \cup [kind : {"window"}, i : Visible(g), what : Parts]
    \cup [kind : {"tab"}, i : Shown(g), what : {"bar"}]
    \cup [kind : {"start", "desktop"}, i : {None}, what : {"none"}]

\* The edges.
Buttons(g, left, right, rendering) ==
  IF rendering THEN g
  ELSE [g EXCEPT !.left = left, !.right = right,
                 !.win = [i \in Slots |-> [g.win[i] EXCEPT
                   !.drag = IF ~left /\ g.left /\ i \in Used(g) THEN "none" ELSE @]]]
RightClick(g, hit) ==
  [g EXCEPT !.start = FALSE, !.context = hit.kind \notin {"window", "tab", "start"}]
\* A press closes the menu that is open and goes on behind it: on the Start button
\* it opens the menu that it has just closed.
LeftClick(g, hit) ==
  LET m == [g EXCEPT !.start = FALSE, !.context = FALSE] IN
  CASE hit.kind = "window" -> ClickWindow(m, hit.i, hit.what)
    [] hit.kind = "tab"    -> OnlyFocus(m, hit.i)
    [] hit.kind = "start"  -> [m EXCEPT !.start = TRUE]
    [] OTHER -> m
\* gui_handle_mouse_click, and the application that the click opens
RightPressed(g, right) == right /\ ~g.right
LeftPressed(g, left, right) == left /\ ~g.left /\ ~RightPressed(g, right)
MouseClick(g, left, right, hit, rendering) ==
  LET b == Buttons(g, left, right, rendering) IN
  IF rendering THEN b
  ELSE IF RightPressed(g, right) THEN RightClick(b, hit)
  ELSE IF LeftPressed(g, left, right) THEN LeftClick(b, hit) ELSE b
Launched(g, left, right, hit) ==
  IF LeftPressed(g, left, right) /\ hit.kind \in {"menu", "icon"} THEN hit.what ELSE "none"

----------------------------------------------------------------------------
(* Keys: the switcher, and what is typed into a window *)

\* gui_tab_next (step 1) and gui_tab_prev (step -1)
TabStep(g, step) ==
  LET from == IF g.tab THEN g.tabIdx ELSE IF g.focus = None THEN 0 ELSE g.focus
      At(n) == (from + step * n) % g.count
      tries == {n \in 1 .. g.count : At(n) \in Shown(g)}
  IN [g EXCEPT !.tab = TRUE, !.tabIdx = IF tries = {} THEN from ELSE At(Min(tries))]
TabSelect(g) ==
  LET h == [g EXCEPT !.tab = FALSE] IN IF g.tabIdx \in Shown(g) THEN OnlyFocus(h, g.tabIdx) ELSE h

HandleKey(g, c) ==
  IF g.focus \notin Visible(g) THEN g
  ELSE IF c = "bksp" THEN [g EXCEPT !.win[g.focus].typed = Max({0, @ - 1})]
  ELSE [g EXCEPT !.win[g.focus].typed = Min({1, @ + 1})]

=============================================================================
