------------------------------ MODULE GuiTerminal ------------------------------
(***************************************************************************)
(* gui/terminal.c: the screen, the line editor and the history of a terminal, *)
(* as operators on it.  A cell of the screen tells what put it there: "p" the *)
(* prompt, "t" the user, "o" a command.                                       *)
(***************************************************************************)
EXTENDS Integers, Sequences, SequencesExt

CONSTANTS
  MaxLines,  \* TERM_MAX_LINES
  Cols,      \* TERM_COLS - 1
  CmdMax,    \* TERM_CMD_SIZE - 1
  HistSize   \* TERM_HIST_SIZE

\* A command fits into the screen, its last line not counted.
ASSUME TermAssumption ==
  /\ MaxLines \in Nat \ {0} /\ Cols \in Nat \ {0} /\ HistSize \in Nat \ {0}
  /\ CmdMax \in Nat /\ CmdMax <= (MaxLines - 1) * Cols

NoTerm == [active |-> FALSE, win |-> -1, rows |-> <<>>, cmd |-> <<>>, dirty |-> FALSE,
           ring |-> [i \in 0 .. HistSize - 1 |-> <<>>], count |-> 0, log |-> <<>>]

NewLine(t) ==
  [t EXCEPT !.rows = Append(IF Len(@) < MaxLines THEN @ ELSE Tail(@), <<>>), !.dirty = TRUE]
Putc(t, c) ==
  IF c = "\n" THEN NewLine(t)
  ELSE LET u == IF t.rows = <<>> \/ Len(Last(t.rows)) >= Cols THEN NewLine(t) ELSE t
       IN [u EXCEPT !.rows[Len(u.rows)] = Append(@, c), !.dirty = TRUE]
Puts(t, s) == FoldLeft(Putc, t, s)
Prompt(t) == Puts(t, <<"p">>)

\* hist_push; log, which the code does not have, holds the last commands in order.
Pushed(t) ==
  [t EXCEPT !.ring[t.count % HistSize] = t.cmd, !.count = @ + 1,
            !.log = Append(IF Len(@) < HistSize THEN @ ELSE Tail(@), t.cmd)]
\* cmd_history: what it lists
Listed(t) ==
  LET n == IF t.count > HistSize THEN HistSize ELSE t.count
      start == t.count - n
  IN [i \in 1 .. n |-> t.ring[(start + i - 1) % HistSize]]

\* What uname, uptime, free and tasks, an unknown name and the others print: a line.
\* (The commands on files are those of Files.)
Line == <<"o", "\n">>
PutLines(t, n) == FoldLeft(Puts, t, [i \in 1 .. n |-> Line])
Answered(t) == Puts(t, Line)
Cleared(t) == [t EXCEPT !.rows = <<>>, !.dirty = TRUE]
\* term_exec, by the first letter of the command: clear, history, any other
Exec(t) ==
  CASE t.cmd[1] = "c" -> Cleared(t)
    [] t.cmd[1] = "h" -> PutLines(t, Len(Listed(t)))
    [] OTHER -> Answered(t)

Enter(t) ==
  LET u == Putc(t, "\n")
      v == IF t.cmd = <<>> THEN u ELSE Exec(Pushed(u))
  IN Prompt([v EXCEPT !.cmd = <<>>])

Backspace(t) ==
  IF t.cmd = <<>> THEN t
  ELSE [t EXCEPT !.cmd = Front(@), !.dirty = TRUE,
                 !.rows[Len(t.rows)] = IF @ = <<>> THEN @ ELSE Front(@)]
Typed(t, c) ==
  IF Len(t.cmd) < CmdMax THEN Putc([t EXCEPT !.cmd = Append(@, c)], "t") ELSE t

TermKey(t, c) ==
  LET u == CASE c = "enter" -> Enter(t) [] c = "bksp" -> Backspace(t) [] OTHER -> Typed(t, c)
  IN [u EXCEPT !.dirty = TRUE]

\* term_create, from the window it has made on
Opened(t, win) ==
  LET new == [NoTerm EXCEPT !.active = TRUE, !.win = win, !.ring = t.ring]
  IN Prompt(Puts(new, <<"o", "\n", "o", "\n", "\n">>))

=============================================================================
