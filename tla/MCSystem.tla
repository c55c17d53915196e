------------------------------ MODULE MCSystem ------------------------------
(***************************************************************************)
(* Who may run when: from power-up to shutdown (Boot), and the GUI task    *)
(* that takes Canon's events from then on (GuiEvents); and what the menu's *)
(* small entries leave behind (Services).  They share only the request to  *)
(* shut down, which comes at any time in each: one of them runs, the others*)
(* stay as they started.                                                   *)
(***************************************************************************)
EXTENDS Boot

CONSTANTS Kinds, Objs, MaxQueue, Width, None,    (* of GuiEvents          *)
          TimedStart, MaxPicks                    (* of Services           *)

VARIABLES
  running,                                           (* which of them      *)
  queue, mainObj, counter, cancel, gui_sem, gshut, gpc, event, obj, count, late, again, lost, raced,
  card, readFailed, mpc, block, dma, buffers, installed, bootdisk, disable_powersave, saved,
  poweroff, recording, toggled, spc, sec, picks

(* One task of each kind of program: movie_start is like dump_task,        *)
(* focus_task like focus_stack_task, spotmeter like zebra_task after its   *)
(* start, meter_task and audio_level_task are loops that use nothing, and  *)
(* dof_task is a loop that uses a semaphore, as menu_task ends in one.     *)
SomeTasks == {"dump_task", "menu_task", "focus_stack_task", "zebra_task", "bracket_task",
              "timecode"}

(* The menu button, which may be dropped, an event of a type that may and a*)
(* parameter that may not, and no event at all.                            *)
SomeKinds == {<<0, 19>>, <<2, 23>>, <<-1, 0>>}

G == INSTANCE GuiEvents WITH pc <- gpc, shutdown_requested <- gshut

V == INSTANCE Services

ASSUME SystemAssumption == G!GuiAssumption

-----------------------------------------------------------------------------
gui == <<queue, mainObj, counter, cancel, gui_sem, gshut, gpc, event, obj, count, late, again,
         lost, raced>>
serv == <<card, readFailed, mpc, block, dma, buffers, installed, bootdisk, disable_powersave, saved,
          poweroff, recording, toggled, spc, sec, picks>>
all == <<running, vars, gui, serv>>

SysInit ==
  /\ running \in {"boot", "gui", "services"}
  /\ IF running = "boot" THEN TRUE ELSE prompt = TRUE /\ answers = TRUE
  /\ IF running = "services" THEN TRUE ELSE bootdisk = FALSE
  /\ Init /\ G!Init /\ V!ServInit

Boots(A) == running = "boot" /\ A /\ UNCHANGED <<running, gui, serv>>
Gui(A)   == running = "gui" /\ A /\ UNCHANGED <<running, vars, serv>>
Serve    == running = "services" /\ V!ServNext /\ UNCHANGED <<running, vars, gui>>

SysNext == Boots(Next) \/ Gui(G!Next) \/ Serve

(* The fairness of Boot and of GuiEvents; Services has none.               *)
SysSpec ==
  /\ SysInit /\ [][SysNext]_all
  /\ WF_vars(Boots(prop_startup_handler)) /\ WF_vars(Boots(task_create))
  /\ \A t \in AllTasks \ {"gui_main_task"} :
       WF_vars(Boots(TaskStep(t))) /\ WF_vars(answers /\ Boots(LeaveInner(t)))
  /\ WF_gui(Gui(G!my_gui_main_task)) /\ WF_gui(Gui(G!Completes))

-----------------------------------------------------------------------------
(* Of a cancellation's events one may slip through, none goes missing, and *)
(* Canon's count of them is right (GuiEvents).                             *)
EventsKept == running = "gui" => G!EventsKept

(* What the menu entries leave behind: memory, the boot sector, the power  *)
(* save and a recording (Services).                                        *)
EntriesSettle == running = "services" => V!EntriesSettle

(* The task hears events again when cancellations cease (GuiEvents).       *)
Hears == G!Hears
=============================================================================
