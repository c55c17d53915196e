----------------------------- MODULE MenuWindow -----------------------------
(***************************************************************************)
(* The menu window of menu.c: menu_task opens and closes it when the       *)
(* button handler gives gui_sem, counts its timers down and injects        *)
(* synthetic events; the Canon GUI task runs menu_handler, which may close *)
(* it; focus_task hides it.  gui_menu_task, menu_hidden and menu_timeout   *)
(* are plain globals: one action per access.                               *)
(***************************************************************************)
EXTENDS Integers, FiniteSets

CONSTANTS
  NoDialog,     (* the null pointer                                        *)
  Dialogs,      (* what gui_task_create may return: a bound on the dialogs *)
                (* that are alive at once                                  *)
  SemMax,       (* 1 if create_named_semaphore makes a binary semaphore    *)
  TimeoutTime,  (* menu_timeout_time, the option debug.menu-timeout        *)
  HideTimes     (* the arguments of the calls of gui_hide_menu, which      *)
                (* focus_task makes for every rack.  {} as long as there   *)
                (* is no distance to rack: only a movement that            *)
                (* lens_focus_start began makes one                        *)

ASSUME WindowAssumption ==
  /\ NoDialog \notin Dialogs
  /\ SemMax \in Nat \ {0}
  /\ TimeoutTime \in Nat
  /\ HideTimes \subseteq Nat \ {0}

VARIABLES
  gui_menu_task,       (* the open dialog                                  *)
  live,                (* the dialogs the firmware knows                   *)
  menu_hidden, menu_timeout,
  gui_sem,
  shutdown_requested,
  drawn,               (* is the menu on the screen                        *)
  place,               (* where menu_task, the GUI task and focus_task are *)
  after,               (* where gui_stop_menu returns to                   *)
  reg,                 (* menu_task's register in --menu_hidden            *)
  away,                (* the user has gone: no more input                 *)
  overlapped           (* two tasks have been inside gui_stop_menu at once *)

shared == <<gui_menu_task, live, menu_hidden, menu_timeout, gui_sem, drawn>>
locals == <<place, after, reg>>
env    == <<shutdown_requested, away, overlapped>>
wvars  == <<gui_menu_task, live, menu_hidden, menu_timeout, gui_sem, drawn,
            place, after, reg, shutdown_requested, away, overlapped>>

Actors == {"menu", "gui", "focus"}

WindowInit ==
  /\ gui_menu_task = NoDialog /\ live = {}
  /\ menu_hidden = 0 /\ menu_timeout = 0
  /\ gui_sem = 0 /\ shutdown_requested = FALSE
  /\ drawn = FALSE
  /\ place = [a \in Actors |-> IF a = "menu" THEN "loop" ELSE "idle"]
  /\ after = [a \in Actors |-> "idle"]
  /\ reg = 0 /\ away = FALSE /\ overlapped = FALSE

Go(a, l) == place' = [place EXCEPT ![a] = l]
Done(a)  == IF a = "menu" THEN "loop" ELSE "idle"

(* A timer that is not positive is past its zero and does not come back to *)
(* it for 2^32 ticks: -1 stands for all of these.                          *)
Decrement(n) == IF n > 0 THEN n - 1 ELSE -1

-----------------------------------------------------------------------------
(* gui_stop_menu *)

Stopping(a) == place[a] \in {"stop", "destroy", "forget"}

(* Call gui_stop_menu and go on at l. *)
CallStop(a, l) ==
  /\ Go(a, "stop") /\ after' = [after EXCEPT ![a] = l]
  /\ overlapped' = (overlapped \/ \E b \in Actors \ {a} : Stopping(b))

Stop(a) ==
  /\ place[a] = "stop"
  /\ menu_hidden' = 0
  /\ Go(a, IF gui_menu_task = NoDialog THEN after[a] ELSE "destroy")
  /\ UNCHANGED <<gui_menu_task, live, menu_timeout, gui_sem, drawn, after, reg, env>>

Destroy(a) ==
  /\ place[a] = "destroy"
  /\ live' = live \ {gui_menu_task}
  /\ Go(a, "forget")
  /\ UNCHANGED <<gui_menu_task, menu_hidden, menu_timeout, gui_sem, drawn, after, reg, env>>

(* Faulty: the pointer to the destroyed dialog is kept.                    *)
ForgetNot(a) ==
  /\ place[a] = "forget"
  /\ Go(a, "clear")
  /\ UNCHANGED <<shared, after, reg, env>>

Forget(a) ==
  /\ place[a] = "forget"
  /\ gui_menu_task' = NoDialog
  /\ Go(a, "clear")
  /\ UNCHANGED <<live, menu_hidden, menu_timeout, gui_sem, drawn, after, reg, env>>

(* The bmp_fill that ends gui_stop_menu and gui_hide_menu. *)
Clear(a) ==
  /\ place[a] = "clear"
  /\ drawn' = FALSE
  /\ Go(a, after[a])
  /\ UNCHANGED <<gui_menu_task, live, menu_hidden, menu_timeout, gui_sem, after, reg, env>>

-----------------------------------------------------------------------------
(* The end of menu_handler, reached by the events that change something    *)
(* and by the synthetic ones.                                              *)

Redraw(a) ==
  /\ place[a] = "redraw"
  /\ menu_timeout' = TimeoutTime
  /\ Go(a, IF menu_hidden # 0 \/ gui_menu_task = NoDialog THEN Done(a) ELSE "draw")
  /\ UNCHANGED <<gui_menu_task, live, menu_hidden, gui_sem, drawn, after, reg, env>>

Draw(a) ==
  /\ place[a] = "draw"
  /\ drawn' = TRUE
  /\ Go(a, Done(a))
  /\ UNCHANGED <<gui_menu_task, live, menu_hidden, menu_timeout, gui_sem, after, reg, env>>

Window(a) == Stop(a) \/ Destroy(a) \/ Forget(a) \/ Clear(a) \/ Redraw(a) \/ Draw(a)

-----------------------------------------------------------------------------
(* menu_task *)

Loop ==
  /\ place["menu"] = "loop"
  /\ Go("menu", IF shutdown_requested THEN "end" ELSE "take")
  /\ UNCHANGED <<shared, after, reg, env>>

TakeButton ==
  /\ place["menu"] = "take" /\ gui_sem > 0
  /\ gui_sem' = gui_sem - 1
  /\ Go("menu", "toggle")
  /\ UNCHANGED <<gui_menu_task, live, menu_hidden, menu_timeout, drawn, after, reg, env>>

(* Half a second without the button. *)
Tick ==
  /\ place["menu"] = "take" /\ gui_sem = 0
  /\ Go("menu", IF gui_menu_task = NoDialog THEN "loop" ELSE "count")
  /\ UNCHANGED <<shared, after, reg, env>>

CountTimeout ==
  /\ place["menu"] = "count"
  /\ menu_timeout' = Decrement(menu_timeout)
  /\ IF menu_timeout' = 0
     THEN CallStop("menu", "loop")
     ELSE Go("menu", "hidden") /\ UNCHANGED <<after, overlapped>>
  /\ UNCHANGED <<gui_menu_task, live, menu_hidden, gui_sem, drawn, reg, shutdown_requested, away>>

TestHidden ==
  /\ place["menu"] = "hidden"
  /\ Go("menu", IF menu_hidden # 0 THEN "load" ELSE "dispatch")
  /\ UNCHANGED <<shared, after, reg, env>>

(* --menu_hidden: a load and a store. *)
LoadHidden ==
  /\ place["menu"] = "load"
  /\ reg' = Decrement(menu_hidden)
  /\ Go("menu", "store")
  /\ UNCHANGED <<shared, after, env>>

(* Faulty: the button is not looked at during the count.                   *)
StoreHiddenSpin ==
  /\ place["menu"] = "store"
  /\ menu_hidden' = reg
  /\ Go("menu", IF reg # 0 THEN "hidden" ELSE "dispatch")
  /\ UNCHANGED <<gui_menu_task, live, menu_timeout, gui_sem, drawn, after, reg, env>>

StoreHidden ==
  /\ place["menu"] = "store"
  /\ menu_hidden' = reg
  /\ Go("menu", IF reg # 0 THEN "loop" ELSE "dispatch")
  /\ UNCHANGED <<gui_menu_task, live, menu_timeout, gui_sem, drawn, after, reg, env>>

(* ctrlman_dispatch_event of GOT_TOP_OF_CONTROL or of the synthetic event  *)
(* 1: the handler of a live dialog runs in the caller's task.              *)
Dispatch ==
  /\ place["menu"] = "dispatch"
  /\ Go("menu", IF gui_menu_task \in live THEN "redraw" ELSE "loop")
  /\ UNCHANGED <<shared, after, reg, env>>

Toggle ==
  /\ place["menu"] = "toggle"
  /\ IF gui_menu_task # NoDialog
     THEN CallStop("menu", "loop")
     ELSE Go("menu", "create") /\ UNCHANGED <<after, overlapped>>
  /\ UNCHANGED <<shared, reg, shutdown_requested, away>>

(* gui_task_create may fail. *)
Create ==
  /\ place["menu"] = "create"
  /\ menu_hidden' = 0
  /\ \E d \in (Dialogs \ live) \cup {NoDialog} :
       gui_menu_task' = d /\ live' = live \cup ({d} \ {NoDialog})
  /\ Go("menu", "loop")
  /\ UNCHANGED <<menu_timeout, gui_sem, drawn, after, reg, env>>

menu_task ==
  \/ Loop \/ TakeButton \/ Tick \/ CountTimeout \/ TestHidden
  \/ LoadHidden \/ StoreHidden \/ Dispatch \/ Toggle \/ Create
  \/ Window("menu")

-----------------------------------------------------------------------------
(* The Canon GUI task and the rest of the world *)

(* my_gui_main_task: the picture style button. *)
Button ==
  /\ ~away
  /\ gui_sem' = IF gui_sem < SemMax THEN gui_sem + 1 ELSE gui_sem
  /\ UNCHANGED <<gui_menu_task, live, menu_hidden, menu_timeout, drawn, locals, env>>

(* An event that changes the selection or the control; one that closes the *)
(* menu and is passed on; a select callback that closes the menu, after    *)
(* which menu_handler goes on to its end.                                  *)
RedrawEvent ==
  /\ place["gui"] = "idle" /\ live # {} /\ ~away
  /\ Go("gui", "redraw")
  /\ UNCHANGED <<shared, after, reg, env>>

CloseEvent(l) ==
  /\ place["gui"] = "idle" /\ live # {} /\ ~away
  /\ CallStop("gui", l)
  /\ UNCHANGED <<shared, reg, shutdown_requested, away>>

(* gui_hide_menu, called by focus_task before each rack of the focus. *)
Hide(t) ==
  /\ place["focus"] = "idle" /\ ~away
  /\ menu_hidden' = t
  /\ Go("focus", "clear")
  /\ UNCHANGED <<gui_menu_task, live, menu_timeout, gui_sem, drawn, after, reg, env>>

(* The startup property says that Magic Lantern shall not run. *)
Shutdown ==
  /\ ~shutdown_requested /\ shutdown_requested' = TRUE
  /\ UNCHANGED <<shared, locals, away, overlapped>>

GoAway ==
  /\ ~away /\ away' = TRUE
  /\ UNCHANGED <<shared, locals, shutdown_requested, overlapped>>

WindowNext ==
  \/ menu_task \/ Window("gui") \/ Window("focus")
  \/ Button \/ RedrawEvent \/ CloseEvent("idle") \/ CloseEvent("redraw")
  \/ (\E t \in HideTimes : Hide(t)) \/ Shutdown \/ GoAway

WindowSpec == WindowInit /\ [][WindowNext]_wvars

(* The three tasks are scheduled; nothing obliges the user. *)
FairWindow ==
  WindowSpec /\ WF_wvars(menu_task) /\ WF_wvars(Window("gui")) /\ WF_wvars(Window("focus"))

-----------------------------------------------------------------------------
(* Properties *)

(* What a timer that starts at one of the values of S may hold. *)
Counts(S) == {-1, 0} \cup UNION {0..t : t \in S}

WindowTypeOK ==
  /\ gui_menu_task \in Dialogs \cup {NoDialog}
  /\ live \subseteq Dialogs
  /\ menu_hidden \in Counts(HideTimes) /\ reg \in Counts(HideTimes)
  /\ menu_timeout \in Counts({TimeoutTime})
  /\ gui_sem \in 0..SemMax
  /\ {shutdown_requested, drawn, away, overlapped} \subseteq BOOLEAN
  /\ place \in [Actors ->
       {"idle", "loop", "take", "end", "count", "hidden", "load", "store", "dispatch",
        "toggle", "create", "stop", "destroy", "forget", "clear", "redraw", "draw"}]
  /\ after \in [Actors -> {"idle", "loop", "redraw"}]

(* Only two overlapping calls of gui_stop_menu can hurt the dialogs: until *)
(* that happens every gui_task_destroy gets a live dialog, and no dialog   *)
(* stays behind that gui_menu_task does not point to.  menu_task may open  *)
(* a window at any point of a single gui_stop_menu in the GUI task.        *)
DialogsTracked ==
  ~overlapped =>
    /\ \A a \in Actors : place[a] = "destroy" => gui_menu_task \in live
    /\ live \subseteq {gui_menu_task}
    /\ gui_menu_task \in live \cup {NoDialog} \/ \E a \in Actors : place[a] = "forget"

(* A press of the button is served although menu_task sleeps, counts and   *)
(* runs handlers in between.                                               *)
ButtonServed == gui_sem = SemMax ~> (gui_sem < SemMax \/ place["menu"] = "end")

(* A hidden window comes back, or is closed, once focus_task is done.      *)
HiddenReappears ==
  away ~> (menu_hidden = 0 \/ gui_menu_task = NoDialog \/ place["menu"] = "end")

(* while(!shutdown_requested): the task ends, wherever the request finds it*)
ShutdownEnds == shutdown_requested ~> place["menu"] = "end"

(* Whatever the other tasks do in between, menu_task goes on: it serves the*)
(* button, shows a hidden window again, and ends when it is asked to.      *)
TaskServes == ButtonServed /\ HiddenReappears /\ ShutdownEnds

-----------------------------------------------------------------------------
(* What a comment says *)

(* "Count down the menu timeout" (menu_task): a window the user has left   *)
(* open is closed some day.                                                *)
IdleMenuTimesOut == away ~> (gui_menu_task = NoDialog \/ place["menu"] = "end")
=============================================================================
