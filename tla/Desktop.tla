-------------------------------- MODULE Desktop --------------------------------
(***************************************************************************)
(* The desktop: gui/desktop.c, the loop of cmd_gui, the mouse interrupt       *)
(* (IRQ12 and gui/mouse.c), drivers/speaker.c, over the operators of Gui,     *)
(* GuiTerminal and TaskPool.                                                  *)
(*                                                                            *)
(* Two actors share it: the loop, in steps, and IRQ12, which comes between    *)
(* any two of them and is atomic, since interrupts are off in it.             *)
(***************************************************************************)
EXTENDS Gui, GuiTerminal, TaskPool

CONSTANTS
  MaxTerms,     \* TERM_MAX_TERMS
  RenderEvery,  \* ticks between two frames when nothing is dragged
  Chime,        \* notes of the boot chime
  Mixes         \* what the user, the mouse and the tasks do in a behaviour, and lags, the
                \* ticks by which uptime_ticks may be behind tick_count

ASSUME DesktopAssumption == MaxTerms \in Nat /\ Chime \in Nat \ {0}

VARIABLES
  desk,     \* the Desktop, and the pool of terminals
  speaker,  \* speaker.c: note_end_tick as the ticks left
  tasks,    \* tasks.c
  mouse,    \* ms of mouse.c, and the buttons the user holds
  kbd,      \* last_scancode, and the locals of the loop
  pc,       \* where the loop is
  frame,    \* the locals of gui_render_all, and the windows drawn
  opening,  \* the locals of an opening from the keyboard
  beat,     \* uptime_ticks, modulo RenderEvery
  user,     \* inputs and runs so far, whether a click came into an opening
  mix

vars == <<desk, speaker, tasks, mouse, kbd, pc, frame, opening, beat, user, mix>>
Terms == 0 .. MaxTerms - 1
NoFrame == [focus |-> None, next |-> 0, drawn |-> <<>>]
NoOpening == [app |-> "none", term |-> None, slot |-> None]
Silent == [on |-> FALSE, idx |-> 0, count |-> 0, left |-> 0]
Up == [bit3 |-> TRUE, left |-> FALSE, right |-> FALSE, over |-> FALSE]
NoMouse == [cycle |-> 0, flags |-> Up, event |-> FALSE, held |-> Up]
NoKeys == [last |-> "none", prev |-> "none", shift |-> FALSE, ctrl |-> FALSE, alt |-> FALSE]

Init ==
  /\ desk = [gui |-> GuiInit([win |-> [i \in Slots |-> NoWindow]]),
             terms |-> [t \in Terms |-> NoTerm], monitor |-> None]
  /\ speaker = Silent /\ tasks = NoTasks /\ mouse = NoMouse /\ kbd = NoKeys
  /\ pc = "text" /\ frame = NoFrame /\ opening = NoOpening /\ beat = 0
  /\ user = [inputs |-> 0, runs |-> 0, raced |-> FALSE]
  /\ mix \in Mixes

----------------------------------------------------------------------------
(* desktop.c: opening windows *)

\* term_get_by_window.  The lowest terminal that names the window, though the window
\* it was made with may long be gone.
Named(d, w) == {t \in Terms : d.terms[t].active /\ d.terms[t].win = w}
ByWindow(d, w) == IF Named(d, w) = {} THEN None ELSE Min(Named(d, w))

Existing(d, app) == {i \in Shown(d.gui) : d.gui.win[i].title = app /\ d.gui.win[i].anim # "close"}
FocusExisting(d, i) == [d EXCEPT !.gui = OnlyFocus(Animated(@, i, "none"), i)]
Reuses(d, app) == app # "terminal" /\ Existing(d, app) # {}

IdleTerms(d) == {t \in Terms : ~d.terms[t].active}
Find(d, app) ==
  [app  |-> app,
   term |-> IF app # "terminal" \/ IdleTerms(d) = {} THEN None ELSE Min(IdleTerms(d)),
   slot |-> FreeSlot(d.gui)]

\* What is found is taken.  A terminal without a place in the pool is a picture of one.
TextOf(f) == IF f.term = None THEN <<f.app, None>> ELSE NoText
Finish(d, f) ==
  LET i == Place(d.gui, f.slot)
      g == Created(d.gui, i, f.app)
  IN IF i = None THEN d
     ELSE [d EXCEPT !.gui = [g EXCEPT !.win[i].term = f.term # None, !.win[i].own = f.term, !.win[i].text = TextOf(f)],
                    !.terms = IF f.term = None THEN @ ELSE [@ EXCEPT ![f.term] = Opened(d.terms[f.term], i)],
                    !.monitor = IF f.app = "monitor" THEN i ELSE @]

Open(d, app) ==
  IF app \notin Apps THEN d
  ELSE IF Reuses(d, app) THEN FocusExisting(d, Min(Existing(d, app)))
  ELSE Finish(d, Find(d, app))

----------------------------------------------------------------------------
(* speaker.c *)

\* _queue_melody.  The callers count in tick_count, speaker_tick in uptime_ticks.
Queued(n, lag) == [on |-> TRUE, idx |-> 0, count |-> n, left |-> 1 + lag]
Sounds(d, app, slot) == app = "terminal" /\ Place(d.gui, slot) # None
Plays(d, app, slot) ==
  IF Sounds(d, app, slot) THEN \E lag \in mix.lags : speaker' = Queued(2, lag) ELSE UNCHANGED speaker

\* speaker_tick.
NextNote(s) ==
  LET more == s.idx + 1 < s.count IN
  [s EXCEPT !.on = more, !.idx = @ + 1, !.left = IF more THEN 1 ELSE @]

----------------------------------------------------------------------------
(* IRQ12 *)

\* mouse_handle_byte.  Mutant: the first byte is taken as it comes
HandleByteAny(m, b) ==
  [m EXCEPT !.cycle = (@ + 1) % 3, !.flags = IF m.cycle = 0 THEN b ELSE @,
            !.event = @ \/ (m.cycle = 2 /\ ~m.flags.over)]
HandleByte(m, b) ==
  IF m.cycle = 0 /\ ~b.bit3 THEN m
  ELSE [m EXCEPT !.cycle = (@ + 1) % 3, !.flags = IF m.cycle = 0 THEN b ELSE @,
                 !.event = @ \/ (m.cycle = 2 /\ ~m.flags.over)]
HandleBytes(m, bytes) == FoldLeft(HandleByte, m, bytes)

Quiet == [bit3 |-> FALSE, left |-> FALSE, right |-> FALSE, over |-> FALSE]
Loud  == [bit3 |-> TRUE, left |-> TRUE, right |-> FALSE, over |-> FALSE]
Over  == [bit3 |-> TRUE, left |-> FALSE, right |-> FALSE, over |-> TRUE]
\* The packets of a mouse with such buttons, and what is left of them on a bad line
Sent(b) == {<<b, Quiet, Quiet>>}
             \cup IF mix.loss THEN {<<b, Loud, Quiet>>, <<b, Quiet, Loud>>, <<[b EXCEPT !.over = TRUE], Over, Quiet>>,
                                    <<b, Quiet>>, <<b, Loud>>, <<Quiet, Loud>>} ELSE {}
Clicks == [bit3 : {TRUE}, left : BOOLEAN, right : IF mix.right THEN BOOLEAN ELSE {FALSE}, over : {FALSE}]

\* Mutant: a click is handled in the middle of a frame
ClickIgnoredNever == FALSE
ClickIgnored == pc = "draw"
MoveIgnored == pc = "draw"
Dragged(g) == \E i \in Used(g) : g.win[i].drag # "none"
\* What the mouse points at matters to a press only.
Aims(b) ==
  LET g == desk.gui IN
  IF RightPressed(g, b.right) \/ LeftPressed(g, b.left, b.right) THEN Hits(g)
  ELSE {[kind |-> "desktop", i |-> None, what |-> "none"]}
\* The first two bytes of a packet touch nothing but ms: the three interrupts are one.
\* desktop_mouse_event follows when a packet is complete, with the buttons it tells.
Packet(b, bytes) ==
  LET m == HandleBytes([mouse EXCEPT !.event = FALSE, !.held = b], bytes) IN
  /\ pc # "text" /\ (pc = "opening" => mix.race) /\ user.inputs < mix.inputs
  /\ mouse' = [m EXCEPT !.event = FALSE]
  /\ IF ~m.event THEN UNCHANGED <<desk, speaker>> /\ user' = [user EXCEPT !.inputs = @ + 1]
     ELSE \E hit \in Aims(m.flags), p \in IF Dragged(desk.gui) THEN Places ELSE {0} :
            LET left == m.flags.left
                right == m.flags.right
                g == IF MoveIgnored THEN desk.gui ELSE MouseMove(desk.gui, p)
                d == [desk EXCEPT !.gui = MouseClick(g, left, right, hit, ClickIgnored)]
                app == IF ClickIgnored THEN "none" ELSE Launched(g, left, right, hit)
            IN /\ app \in mix.apps \cup {"none", "gap"}
               /\ desk' = Open(d, app)
               /\ Plays(d, app, FreeSlot(d.gui))
               /\ user' = [user EXCEPT !.inputs = @ + 1,
                                       !.raced = @ \/ (pc = "opening" /\ app \in Apps)]
  /\ UNCHANGED <<tasks, kbd, pc, frame, opening, beat, mix>>

----------------------------------------------------------------------------
(* cmd_gui *)

BeginFrame(g) == pc' = "draw" /\ frame' = [NoFrame EXCEPT !.focus = g.focus]

\* The user types gui at the shell: phases 3 to 7.
Gui ==
  /\ pc = "text" /\ user.runs < mix.runs
  /\ desk' = Open([gui |-> GuiInit(desk.gui), monitor |-> None,
                   terms |-> [t \in Terms |-> [desk.terms[t] EXCEPT !.active = FALSE]]], "about")
  /\ \E lag \in mix.lags : speaker' = Queued(Chime, lag)
  /\ tasks' \in {NoTasks} \cup IF mix.tasks THEN {TaskCreate(TaskCreate(NoTasks, o), FALSE) : o \in BOOLEAN} ELSE {}
  /\ mouse' = [mouse EXCEPT !.cycle = 0]
  /\ kbd' = [NoKeys EXCEPT !.last = "up"]
  /\ beat' = 0
  /\ BeginFrame(desk'.gui)
  /\ user' = [user EXCEPT !.runs = @ + 1]
  /\ UNCHANGED <<opening, mix>>

\* IRQ1.  Only the poll looks at last_scancode, so only the last scancode before it
\* matters.  Releases of letters are "up".
Releases == {"up", "shiftup", "ctrlup", "altup"}
Key(k) ==
  /\ pc = "poll" /\ kbd.last # k
  /\ k \notin Releases => user.inputs < mix.inputs
  /\ kbd' = [kbd EXCEPT !.last = k]
  /\ user' = [user EXCEPT !.inputs = IF k \in Releases THEN @ ELSE @ + 1]
  /\ UNCHANGED <<desk, speaker, tasks, mouse, pc, frame, opening, beat, mix>>

Reads(k) == pc = "poll" /\ kbd.last = k /\ kbd.prev # k
Idles == pc = "poll" /\ kbd.last \in {kbd.prev, "none"}
\* After a key the loop looks at the clock: keys are slower than its ticks.
Goes(k) ==
  /\ Reads(k) /\ kbd' = [kbd EXCEPT !.prev = k]
  /\ pc' = "tick"
  /\ UNCHANGED <<tasks, mouse, frame, beat, user, mix>>
NoKey == Idles /\ pc' = "tick" /\ UNCHANGED <<desk, speaker, tasks, mouse, kbd, frame, opening, beat, user, mix>>

Held == [shift |-> TRUE, shiftup |-> FALSE, ctrl |-> TRUE, ctrlup |-> FALSE, alt |-> TRUE]
Modifier ==
  \E k \in DOMAIN Held :
    /\ Reads(k) /\ pc' = "tick"
    /\ kbd' = [kbd EXCEPT !.prev = k,
                          !.shift = IF k \in {"shift", "shiftup"} THEN Held[k] ELSE @,
                          !.ctrl = IF k \in {"ctrl", "ctrlup"} THEN Held[k] ELSE @,
                          !.alt = @ \/ k = "alt"]
    /\ UNCHANGED <<desk, speaker, tasks, mouse, frame, opening, beat, user, mix>>
AltUp ==
  /\ Reads("altup") /\ pc' = "tick"
  /\ kbd' = [kbd EXCEPT !.prev = "altup", !.alt = FALSE]
  /\ desk' = [desk EXCEPT !.gui = IF @.tab THEN TabSelect(@) ELSE @]
  /\ UNCHANGED <<speaker, tasks, mouse, frame, opening, beat, user, mix>>
AltTab ==
  /\ Goes("tab") /\ kbd.alt
  /\ desk' = [desk EXCEPT !.gui = TabStep(@, IF kbd.shift THEN -1 ELSE 1)]
  /\ UNCHANGED <<speaker, opening>>
Esc ==
  /\ Reads("esc") /\ pc' = "text" /\ kbd' = [kbd EXCEPT !.prev = "esc"]
  /\ UNCHANGED <<desk, speaker, tasks, mouse, frame, opening, beat, user, mix>>
Release == Goes("up") /\ UNCHANGED <<desk, speaker, opening>>

\* desktop_key_event.  A shortcut finds, then takes; a click may come between.
Shortcut == [t |-> "terminal", a |-> "about", s |-> "monitor"]
Typing == {"t", "a", "s", "c", "h", "enter", "bksp"}
OpenKey ==
  \E k \in DOMAIN Shortcut :
    /\ Reads(k) /\ kbd.ctrl /\ kbd' = [kbd EXCEPT !.prev = k]
    /\ IF Reuses(desk, Shortcut[k])
       THEN /\ desk' = FocusExisting(desk, Min(Existing(desk, Shortcut[k])))
            /\ pc' = "tick" /\ UNCHANGED opening
       ELSE opening' = Find(desk, Shortcut[k]) /\ pc' = "opening" /\ UNCHANGED desk
    /\ UNCHANGED <<speaker, tasks, mouse, frame, beat, user, mix>>
OpenEnd ==
  /\ pc = "opening" /\ pc' = "tick"
  /\ desk' = Finish(desk, opening)
  /\ Plays(desk, opening.app, opening.slot)
  /\ opening' = NoOpening
  /\ UNCHANGED <<tasks, mouse, kbd, frame, beat, user, mix>>

TypedKey(d, k) ==
  LET w == d.gui.focus
      t == IF w \in Visible(d.gui) /\ d.gui.win[w].term THEN ByWindow(d, w) ELSE None
  IN IF t # None THEN [d EXCEPT !.terms[t] = TermKey(@, k)] ELSE [d EXCEPT !.gui = HandleKey(@, k)]
\* Ctrl and a letter is a control character, and that of h a backspace.
Char(k) ==
  IF ~kbd.ctrl \/ k \in {"enter", "bksp"} THEN k ELSE IF k = "h" THEN "bksp" ELSE "none"
Type ==
  \E k \in Typing :
    /\ Goes(k)
    /\ kbd.ctrl => k \notin DOMAIN Shortcut
    /\ IF Char(k) = "none" THEN UNCHANGED desk ELSE desk' = TypedKey(desk, Char(k))
    /\ UNCHANGED <<speaker, opening>>
TabKey == Goes("tab") /\ ~kbd.alt /\ UNCHANGED <<desk, speaker, opening>>

----------------------------------------------------------------------------
(* desktop_tick *)

Tick ==
  /\ pc = "tick" /\ beat' = (beat + 1) % RenderEvery
  /\ tasks' = Elapse(tasks)
  /\ IF ~speaker.on /\ speaker.idx >= speaker.count THEN pc' = "tasks" /\ UNCHANGED speaker
     ELSE /\ speaker' = [speaker EXCEPT !.left = Max({0, @ - 1})]
          /\ pc' = IF speaker'.left = 0 THEN "note" ELSE "tasks"
  /\ UNCHANGED <<desk, mouse, kbd, frame, opening, user, mix>>
\* The note has been found over; a click that opens a terminal may have come since.
Note ==
  /\ pc = "note" /\ speaker' = NextNote(speaker) /\ pc' = "tasks"
  /\ UNCHANGED <<desk, tasks, mouse, kbd, frame, opening, beat, user, mix>>
RunTask ==
  /\ pc = "tasks" /\ Due(tasks) # {}
  /\ LET i == Min(Due(tasks)) IN
     tasks' \in {Ran(c, i) : c \in Callbacks(tasks, i)}
  /\ UNCHANGED <<desk, speaker, mouse, kbd, pc, frame, opening, beat, user, mix>>

\* term_refresh, for the terminals of the windows that are shown
Refresh(d) ==
  LET Copied(w) == d.gui.win[w].term /\ w \in Shown(d.gui) /\ ByWindow(d, w) # None
                     /\ d.terms[ByWindow(d, w)].dirty
  IN [d EXCEPT !.gui.win = [w \in Slots |-> IF Copied(w) THEN [d.gui.win[w] EXCEPT !.text = <<"terminal", ByWindow(d, w)>>]
                                            ELSE d.gui.win[w]],
               !.terms = [t \in Terms |-> [d.terms[t] EXCEPT !.dirty = @ /\ ~\E w \in Slots : Copied(w) /\ ByWindow(d, w) = t]]]
\* desktop_update_sysmon.  Mutant: the title is not compared
UpdateMonitorBlind(d) ==
  IF d.monitor \in Shown(d.gui) THEN [d EXCEPT !.gui.win[d.monitor].text = <<"monitor", None>>]
  ELSE [d EXCEPT !.monitor = None]
UpdateMonitor(d) ==
  IF d.monitor \in Shown(d.gui) /\ d.gui.win[d.monitor].title = "monitor"
  THEN [d EXCEPT !.gui.win[d.monitor].text = <<"monitor", None>>]
  ELSE [d EXCEPT !.monitor = None]

TickEnd ==
  /\ pc = "tasks" /\ Due(tasks) = {}
  /\ desk' \in {Refresh(desk), UpdateMonitor(Refresh(desk))}
  /\ IF Dragged(desk.gui) \/ beat = 0 THEN BeginFrame(desk.gui)
     ELSE pc' = "poll" /\ UNCHANGED frame
  /\ UNCHANGED <<speaker, tasks, mouse, kbd, opening, beat, user, mix>>

----------------------------------------------------------------------------
(* gui_render_all: the windows but the one in focus, that one, and the swap *)

AtHand(i) == i # frame.focus
Drawn(i) ==
  /\ desk' = [desk EXCEPT !.gui = RenderWindow(@, i)]
  /\ frame' = [frame EXCEPT !.next = @ + 1,
                            !.drawn = IF i \in Visible(desk'.gui) THEN Append(@, i) ELSE @]
Skipped == frame' = [frame EXCEPT !.next = @ + 1] /\ UNCHANGED desk
Draw ==
  /\ pc = "draw" /\ frame.next <= desk.gui.count
  /\ IF frame.next < desk.gui.count
     THEN IF AtHand(frame.next) THEN Drawn(frame.next) ELSE Skipped
     ELSE IF frame.focus \in Used(desk.gui) THEN Drawn(frame.focus) ELSE Skipped
  /\ UNCHANGED <<speaker, tasks, mouse, kbd, pc, opening, beat, user, mix>>
Swap ==
  /\ pc = "draw" /\ frame.next > desk.gui.count
  /\ desk' = [desk EXCEPT !.gui.tab = @ /\ Shown(desk.gui) # {}]
  /\ frame' = NoFrame /\ pc' = "poll"
  /\ UNCHANGED <<speaker, tasks, mouse, kbd, opening, beat, user, mix>>

Loop ==
  \/ NoKey \/ Modifier \/ AltUp \/ AltTab \/ TabKey \/ Esc \/ Release \/ OpenKey \/ OpenEnd \/ Type
  \/ Tick \/ Note \/ RunTask \/ TickEnd \/ Draw \/ Swap
Next ==
  \/ Loop
  \/ Gui
  \/ \E k \in mix.keys \cup {"up"} : Key(k)
  \/ mix.mouse /\ \E b \in Clicks : \E bytes \in Sent(b) : Packet(b, bytes)

\* The timer ends every hlt of the loop; nothing is promised of the user.
Spec == Init /\ [][Next]_vars /\ WF_vars(Loop)

----------------------------------------------------------------------------
(* Properties *)

TypeOK ==
  /\ desk.gui.count \in 0 .. MaxWindows /\ desk.gui.focus \in Used(desk.gui) \cup {None}
  /\ desk.gui.tabIdx \in Slots /\ desk.monitor \in Slots \cup {None}
  /\ \A i \in Slots : desk.gui.win[i].anim \in Anims /\ desk.gui.win[i].place \in Places \cup {0}
  /\ \A t \in Terms : /\ Len(desk.terms[t].rows) <= MaxLines /\ Len(desk.terms[t].cmd) <= CmdMax
                      /\ \A r \in Range(desk.terms[t].rows) : Len(r) <= Cols
  /\ speaker.idx \in 0 .. Max({Chime, 2}) /\ mouse.cycle \in 0 .. 2

\* The focus, which the keys go to, is on a window the user sees, or on none: what
\* closes or hides a window, at once or frames later, by either actor, takes it away.
FocusIsShown == desk.gui.focus # None => desk.gui.focus \in Visible(desk.gui)

\* A slot of a window that is gone can be used again, whichever way it went: no
\* animation is left in it.  Nor is one left in a minimized window, which no frame
\* would end.
NoSlotLost ==
  \A i \in Used(desk.gui) : i \notin Visible(desk.gui) => desk.gui.win[i].anim = "none"

\* A frame has, when it is swapped in, each window that is to be seen, once, and the
\* one in focus on top: whatever the mouse does, and whichever windows end meanwhile.
FrameComplete ==
  (pc = "draw" /\ frame.next > desk.gui.count) =>
    /\ Range(frame.drawn) = Visible(desk.gui)
    /\ Len(frame.drawn) = Cardinality(Visible(desk.gui))
    /\ desk.gui.focus # None => Last(frame.drawn) = desk.gui.focus

\* At most one window is dragged or resized, and only from a press that the GUI has
\* seen to the release that it has seen, whichever events fall into a frame.
OneDragged ==
  LET dragged == {i \in Used(desk.gui) : desk.gui.win[i].drag # "none"} IN
  Cardinality(dragged) <= 1 /\ (dragged # {} => desk.gui.left)

\* The table of windows agrees with itself, whichever actor changed it last.
WindowsOK == TypeOK /\ FocusIsShown /\ NoSlotLost /\ OneDragged

\* A terminal window always has a terminal that answers, unless a click has opened a
\* window in the middle of an opening from the keyboard.
TerminalAnswers ==
  ~user.raced => \A w \in Shown(desk.gui) : desk.gui.win[w].term => ByWindow(desk, w) # None

\* The content of a window was put there for its title: neither the monitor, whose
\* window may be gone and its slot used again, nor a terminal writes into another's.
TextIsItsOwn ==
  \A w \in Shown(desk.gui) : desk.gui.win[w].text[1] \in {"none", desk.gui.win[w].title}

\* The prompt is at column c of row r; or it has scrolled away, and r is 0.  What
\* follows it is typed, fills its rows but the last, and is no less than the command.
PromptAt(t, r, c) ==
  LET n == Len(t.rows) IN
  /\ n > 0 /\ r <= n
  /\ IF r = 0 THEN n = MaxLines /\ c = Cols ELSE c <= Len(t.rows[r]) /\ t.rows[r][c] = "p"
  /\ \A k \in 1 .. n : \A j \in 1 .. Len(t.rows[k]) : k > r \/ (k = r /\ j > c) => t.rows[k][j] = "t"
  /\ \A k \in 1 .. n - 1 : k >= r => Len(t.rows[k]) = Cols
  /\ (n - r) * Cols + Len(t.rows[n]) - c >= Len(t.cmd)

\* Nothing but what was typed follows the last prompt, and all of the command does:
\* through wrapping, scrolling, clear and every backspace.  A backspace does not go
\* back over a line's end, so lines of typed cells may come to fill the screen: then
\* only has the prompt gone.
PromptKept ==
  \A t \in Terms : desk.terms[t].active =>
    \E r \in 0 .. MaxLines, c \in 1 .. Cols : PromptAt(desk.terms[t], r, c)

\* history lists the last commands, HistSize at most, in the order they were given.
HistoryKept == \A t \in Terms : desk.terms[t].active => Listed(desk.terms[t]) = desk.terms[t].log

\* What a window shows is its own, and what a terminal shows is what was typed.
TerminalsOK == TerminalAnswers /\ TextIsItsOwn /\ PromptKept /\ HistoryKept

\* Wherever a bad line has left the decoder, a packet without movement brings it back
\* to the first byte.
Resyncs == \A b \in Clicks : HandleBytes(mouse, <<b, Quiet, Quiet>>).cycle = 0

\* task_count is the number of tasks, and a one-shot that has run is none of them.
TasksCounted ==
  /\ tasks.count = Cardinality(Active(tasks))
  /\ \A i \in Active(tasks) : ~(tasks.pool[i].oneshot /\ tasks.pool[i].ran)

\* A sound ends, also when a click starts another in the middle of speaker_tick, and
\* a window that is closing goes, unless the user leaves the desktop (then neither
\* happens) or minimizes or opens the window again.
SilentAtLast == speaker.on ~> (~speaker.on \/ pc = "text")
CloseEnds ==
  \A i \in Slots : (i \in Shown(desk.gui) /\ desk.gui.win[i].anim = "close")
                   ~> (desk.gui.win[i].anim # "close" \/ pc = "text")

\* Whatever comes in between, nothing that has been begun goes on for ever.
EndsAtLast == SilentAtLast /\ CloseEnds

\* Said by terminal.h of term_create: the terminal that a window shows and that gets
\* its keys is the one made with it.
OwnTerminal ==
  \A w \in Shown(desk.gui) : desk.gui.win[w].term => ByWindow(desk, w) = desk.gui.win[w].own

=============================================================================
