-------------------------------- MODULE Boot --------------------------------
(***************************************************************************)
(* From power-up to shutdown: which code of ours may run when.  Canon's    *)
(* tasks, some of them replaced by ours; the property task, which runs     *)
(* prop_startup_handler of init.c and, one at a time, every other property *)
(* handler; the PTP task; and the tasks the startup handler creates.  A    *)
(* program is the sequence of what it does to the things they share.       *)
(***************************************************************************)
EXTENDS Integers, Sequences

CONSTANT Built   (* the tasks of the build                                 *)

VARIABLES
  pc,        (* task -> 0 before it is started, the step it is at, or one  *)
             (* past its last step when it has ended                       *)
  property,  (* 0, the step of Startup the property task is at, or Booted  *)
  starting,  (* how many of Tasks the startup handler has created          *)
  handlers,  (* what is registered with Canon: PTP commands, properties    *)
  semaphores,(* those that exist                                           *)
  menus,     (* whose entries are in the lists                             *)
  added,     (* who has added entries                                      *)
  parsed,    (* the configuration file has been read                       *)
  unparsed,  (* who has used a configuration variable before that          *)
  inside,    (* the tasks that are in an inner loop which does not look at *)
             (* shutdown_requested                                         *)
  shutdown_requested,
  prompt,    (* Canon starts its tasks before it asks for the startup, and *)
             (* the startup takes less than the sleep of my_sounddev_task  *)
  answers    (* the lens completes every command, and every direction is   *)
             (* let go of                                                  *)

shared == <<handlers, semaphores, menus, added, parsed, unparsed>>
canon  == <<prompt, answers>>
vars   == <<pc, property, starting, shared, inside, shutdown_requested, canon>>

-----------------------------------------------------------------------------
(* Steps of programs *)

Step == [resets |-> FALSE, creates |-> {}, uses |-> {}, adds |-> {}, parses |-> FALSE,
         reads |-> {}, registers |-> {}, waits |-> "no"]

Create(S)  == [Step EXCEPT !.creates = S]
MenuAdd(w) == [Step EXCEPT !.adds = {w}, !.uses = {"menu_sem"}]
Read(w)    == [Step EXCEPT !.reads = {w}]
Sleep      == [Step EXCEPT !.waits = "startup"]
While(S)   == [Step EXCEPT !.uses = S, !.waits = "shutdown"]
Forever(S) == [Step EXCEPT !.uses = S, !.waits = "ever"]

(* TASK_OVERRIDE: what runs in the place of Canon's tasks. *)
my_gui_main_task == << While({"gui_sem", "menu_sem"}) >>
my_sounddev_task == << Create({"gain.sem"}), Sleep, MenuAdd("audio"), Read("audio"), While({"gain.sem"}) >>
my_hotplug_task  == << Step >>

(* TASK_CREATE *)
dump_task        == << Read("dump_task") >>
movie_start      == << Read("movie_start") >>
menu_task        == << MenuAdd("menu_task"), While({"gui_sem"}) >>
focus_stack_task == << While({"focus_stack_sem", "focus_done_sem", "job_sem"}) >>
focus_task       == << While({"focus_task_sem", "focus_done_sem"}) >>
lens_task        == << While({"lens_sem"}) >>
spotmeter_task   == << MenuAdd("spotmeter"), While({}) >>
meter_task       == << While({}) >>
compute_audio_level_task == << While({}) >>
(* Faulty: the loop of bracket_task. *)
zebra_task_ever  == << Read("zebra"), MenuAdd("zebra"), Forever({}) >>
zebra_task       == << Read("zebra"), MenuAdd("zebra"), While({}) >>
bracket_task     == << Create({"bracket_sem"}), MenuAdd("bracket"), Forever({"bracket_sem", "job_sem"}) >>
tc_task          == << Create({"timecode_sem"}), MenuAdd("timecode"), Forever({"timecode_sem"}) >>

(* In the order in which the object files are linked. *)
Tasks == SelectSeq(
  << "dump_task", "movie_start", "menu_task", "focus_stack_task", "focus_task", "dof_task",
     "spotmeter", "meter_task", "audio_level_task", "zebra_task", "bracket_task", "timecode" >>,
  LAMBDA t : t \in Built)

Program ==
  [gui_main_task |-> my_gui_main_task, sounddev_task |-> my_sounddev_task, hotplug_task |-> my_hotplug_task,
   dump_task |-> dump_task, movie_start |-> movie_start, menu_task |-> menu_task,
   focus_stack_task |-> focus_stack_task, focus_task |-> focus_task, dof_task |-> lens_task,
   spotmeter |-> spotmeter_task, meter_task |-> meter_task, audio_level_task |-> compute_audio_level_task,
   zebra_task |-> zebra_task, bracket_task |-> bracket_task, timecode |-> tc_task]

Overrides == {"gui_main_task", "sounddev_task", "hotplug_task"}
AllTasks  == Overrides \cup Built

ASSUME BootAssumption == Built \subseteq DOMAIN Program \ Overrides

(* The init functions, in the order of the object files; focus.o is before *)
(* lens.o and ptp.o.                                                       *)
menu_init      == << [Step EXCEPT !.resets = TRUE, !.creates = {"menu_sem", "gui_sem"}] >>
debug_init     == << MenuAdd("debug") >>
config         == << [Step EXCEPT !.parses = TRUE] >>
prop_init      == << [Step EXCEPT !.registers = {"LV_LENS", "LV_FOCUS_DONE", "LAST_JOB_STATE", "MVR_REC_START"}] >>
bootflags_init == << MenuAdd("bootflags"), Read("bootflags") >>
focus_init     == << Create({"focus_stack_sem", "focus_task_sem"}), MenuAdd("focus") >>
lens_init      == << Create({"lens_sem", "focus_done_sem", "job_sem"}) >>
ptp_init       == << [Step EXCEPT !.registers = {"PTP_9998"}], MenuAdd("ptp") >>

call_init_funcs == prop_init \o bootflags_init \o focus_init \o lens_init \o ptp_init

Startup == menu_init \o debug_init \o config \o call_init_funcs
Booted  == Len(Startup) + 1

(* What a handler, a command, and a selected menu entry may take or give.  *)
HandlerUses(p) ==
  CASE p = "LV_LENS"        -> {"lens_sem"}
    [] p = "LV_FOCUS_DONE"  -> {"focus_done_sem"}
    [] p = "LAST_JOB_STATE" -> {"job_sem"}
    [] p = "MVR_REC_START"  -> {"gain.sem"}
    [] p = "PTP_9998"     -> {"focus_done_sem"}
    [] OTHER                -> {}

SelectUses(who) ==
  CASE who = "focus"    -> {"focus_stack_sem", "focus_task_sem"}
    [] who = "bracket"  -> {"bracket_sem"}
    [] who = "timecode" -> {"timecode_sem"}
    [] OTHER            -> {}

-----------------------------------------------------------------------------
Init ==
  /\ pc = [t \in AllTasks |-> 0]
  /\ property = 0 /\ starting = 0
  /\ handlers = {} /\ semaphores = {} /\ menus = {} /\ added = {}
  /\ parsed = FALSE /\ unparsed = {}
  /\ inside = {} /\ shutdown_requested = FALSE
  /\ prompt \in BOOLEAN /\ answers \in BOOLEAN

Perform(s) ==
  /\ menus'      = (IF s.resets THEN {} ELSE menus) \cup s.adds
  /\ added'      = added \cup s.adds
  /\ semaphores' = semaphores \cup s.creates
  /\ handlers'   = handlers \cup s.registers
  /\ parsed'     = (parsed \/ s.parses)
  /\ unparsed'   = IF parsed THEN unparsed ELSE unparsed \cup s.reads

(* Canon's init_task and what comes after it create tasks; the dispatch    *)
(* hook puts ours in their place.                                          *)
my_task_dispatch_hook(t) ==
  /\ pc[t] = 0
  /\ pc' = [pc EXCEPT ![t] = 1]
  /\ UNCHANGED <<property, starting, shared, inside, shutdown_requested, canon>>

(* A second after init_task, the handler of PROP_TERMINATE_SHUT_REQ.       *)
my_init_task ==
  /\ "TERMINATE_SHUT_REQ" \notin handlers
  /\ prompt => \A t \in Overrides : pc[t] # 0
  /\ handlers' = handlers \cup {"TERMINATE_SHUT_REQ"}
  /\ UNCHANGED <<pc, property, starting, semaphores, menus, added, parsed, unparsed, inside,
                 shutdown_requested, canon>>

(* Faulty: the init functions in a task of their own.                      *)
IdleAlways == TRUE

(* The property task runs one handler at a time; the init functions are    *)
(* called by one.                                                          *)
Idle == property = 0 \/ (property = Booted /\ starting = Len(Tasks))

TurnOnDisplay ==
  /\ Idle /\ property = 0 /\ "TERMINATE_SHUT_REQ" \in handlers
  /\ property' = 1
  /\ UNCHANGED <<pc, starting, shared, inside, shutdown_requested, canon>>

prop_startup_handler ==
  /\ property \in DOMAIN Startup
  /\ Perform(Startup[property])
  /\ property' = property + 1
  /\ UNCHANGED <<pc, starting, inside, shutdown_requested, canon>>

task_create ==
  /\ property = Booted /\ starting < Len(Tasks)
  /\ starting' = starting + 1
  /\ pc' = [pc EXCEPT ![Tasks[starting + 1]] = 1]
  /\ UNCHANGED <<property, shared, inside, shutdown_requested, canon>>

(* Before the startup, too, and no startup takes it back. *)
ShutdownRequest ==
  /\ Idle /\ "TERMINATE_SHUT_REQ" \in handlers
  /\ shutdown_requested' = TRUE
  /\ UNCHANGED <<pc, property, starting, shared, inside, canon>>

At(t) == Program[t][pc[t]]

TaskStep(t) ==
  /\ pc[t] \in DOMAIN Program[t] /\ t \notin inside
  /\ CASE At(t).waits = "startup"  -> prompt => (property = Booted /\ starting = Len(Tasks))
       [] At(t).waits = "shutdown" -> shutdown_requested
       [] At(t).waits = "ever"     -> FALSE
       [] OTHER                    -> TRUE
  /\ Perform(At(t))
  /\ pc' = [pc EXCEPT ![t] = pc[t] + 1]
  /\ UNCHANGED <<property, starting, inside, shutdown_requested, canon>>

(* focus_stack takes up to fifteen pictures and waits for the lens without *)
(* a limit (lens_focus_wait); focus_task goes on as long as a direction is *)
(* held.                                                                   *)
Enduring == {"focus_stack_task", "focus_task"}

EnterInner(t) ==
  /\ t \in Enduring \ inside /\ pc[t] = 1 /\ ~shutdown_requested
  /\ inside' = inside \cup {t}
  /\ UNCHANGED <<pc, property, starting, shared, shutdown_requested, canon>>

LeaveInner(t) ==
  /\ t \in inside
  /\ inside' = inside \ {t}
  /\ UNCHANGED <<pc, property, starting, shared, shutdown_requested, canon>>

Inner(t) == EnterInner(t) \/ LeaveInner(t)

-----------------------------------------------------------------------------
Next ==
  \/ \E t \in Overrides : my_task_dispatch_hook(t)
  \/ my_init_task \/ TurnOnDisplay \/ prop_startup_handler \/ task_create \/ ShutdownRequest
  \/ \E t \in AllTasks : TaskStep(t) \/ Inner(t)

(* The scheduler runs every task; Canon starts its tasks, but need never   *)
(* ask for a startup or a shutdown, nor send the GUI task another event,   *)
(* and the lens need not answer.                                           *)
Spec ==
  /\ Init /\ [][Next]_vars
  /\ WF_vars(prop_startup_handler) /\ WF_vars(task_create)
  /\ \A t \in AllTasks \ {"gui_main_task"} :
       WF_vars(TaskStep(t)) /\ WF_vars(answers /\ LeaveInner(t))

-----------------------------------------------------------------------------
(* Properties *)

TypeOK ==
  /\ \A t \in AllTasks : pc[t] \in 0..Len(Program[t]) + 1
  /\ \A i \in DOMAIN Tasks : pc[Tasks[i]] # 0 <=> i <= starting
  /\ property \in 0..Booted
  /\ menus \subseteq added
  /\ inside \subseteq Enduring \cap AllTasks
  /\ shutdown_requested \in BOOLEAN

(* Whatever may run now finds every semaphore it takes or gives: init      *)
(* functions of early object files register handlers, PTP commands and     *)
(* menu entries that use the semaphores of later ones.  Not in this is     *)
(* what only Canon's timing protects: the tasks it starts, and a recording *)
(* that starts before the sound task, unless they are prompt; and the menu *)
(* button before the startup.                                              *)
SemaphoresExist ==
  /\ \A t \in AllTasks :
       /\ pc[t] \in DOMAIN Program[t]
       /\ t \in Overrides => prompt
       /\ t = "gui_main_task" => property = Booted
       => At(t).uses \subseteq semaphores
  /\ \A p \in handlers :
       /\ p # "PTP_9998" => Idle
       /\ p = "MVR_REC_START" => prompt /\ pc["sounddev_task"] > 1
       => HandlerUses(p) \subseteq semaphores
  /\ \A who \in menus :
       pc["menu_task"] > 1 /\ pc["gui_main_task"] = 1 => SelectUses(who) \subseteq semaphores

(* menu_init empties the lists: with a prompt Canon, nothing that was      *)
(* added before it is lost.                                                *)
MenusComplete == prompt => menus = added

(* The variables that are looked at only once, by an init function or at   *)
(* the start of a task, hold what the file says: the first configuration   *)
(* of the audio chip, the timed dump and start, powersave, Live View.      *)
ConfigFirst == prompt => unparsed = {}

(* What one part of the startup prepares, the others find.                 *)
BootOrdered == SemaphoresExist /\ MenusComplete /\ ConfigFirst

(* After a shutdown request, even one that came before the startup, every  *)
(* task ends that was started, save two that wait for a menu entry without *)
(* a limit of time, and the GUI task, which waits for an event.  Only a    *)
(* lens that never answers can hold up a third, and none but the one that  *)
(* waits for it.                                                           *)
Ends(t) ==
  \/ (t \in Built \/ pc[t] # 0) => pc[t] = Len(Program[t]) + 1
  \/ t \in inside /\ ~answers
ShutdownEnds ==
  (shutdown_requested /\ property = Booted) ~>
    \A t \in AllTasks \ {"gui_main_task", "bracket_task", "timecode"} : Ends(t)
=============================================================================
