------------------------------ MODULE MCDesktop ------------------------------
(* What users and their mice do in the model-checked instances. *)
EXTENDS Desktop

MCFrames == [open |-> 1, close |-> 2, min |-> 1]

Nothing == [mouse |-> FALSE, right |-> FALSE, loss |-> FALSE, race |-> FALSE, tasks |-> FALSE,
         keys |-> {}, apps |-> {}, inputs |-> 0, lags |-> {0}, runs |-> 1]
MCClicks == {[Nothing EXCEPT !.mouse = TRUE, !.apps = {"about", "monitor"}, !.inputs = 7]}
MCMenus == {[Nothing EXCEPT !.mouse = TRUE, !.right = TRUE, !.apps = {"terminal"}, !.inputs = 4, !.lags = {0, 1}]}
MCLine == {[Nothing EXCEPT !.mouse = TRUE, !.loss = TRUE, !.inputs = 3]}
MCRace == {[Nothing EXCEPT !.mouse = TRUE, !.race = TRUE, !.apps = {"about", "terminal"}, !.inputs = 4,
                         !.keys = {"ctrl", "t", "a", "s"}]}
MCTabs == {[Nothing EXCEPT !.mouse = TRUE, !.inputs = 4, !.apps = {"monitor"},
                         !.keys = {"alt", "altup", "tab", "shift", "shiftup", "esc"}, !.runs = 2]}
MCTyped == {[Nothing EXCEPT !.keys = {"ctrl", "ctrlup", "t", "c", "h", "enter", "bksp"}, !.inputs = 7]}
MCWrapped == {[Nothing EXCEPT !.keys = {"ctrl", "ctrlup", "t", "bksp"}, !.inputs = 21]}
MCTasks == {[Nothing EXCEPT !.tasks = TRUE]}
MCReopen == {[Nothing EXCEPT !.mouse = TRUE, !.apps = {"terminal"}, !.inputs = 6]}
MCAll == UNION {MCClicks, MCMenus, MCLine, MCRace, MCTabs, MCTyped, MCWrapped, MCTasks}
=============================================================================
