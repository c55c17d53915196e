------------------------------- MODULE Focus --------------------------------
(***************************************************************************)
(* Focus control: focus_done_sem of lens.c, by which every sender of a     *)
(* focus command waits for the last one to complete, and its three users,  *)
(* the stacking task and the focus task of focus.c and the PTP handler     *)
(* 0x9998.  A command that does not get the semaphore in 100 ms is dropped.*)
(***************************************************************************)
EXTENDS Integers

CONSTANTS
  SemMax,       (* 1 if create_named_semaphore makes binary semaphores     *)
  PtpSteps,     (* param1 of the PTP operation 0x9998                      *)
  FOCUS_MAX,
  MaxDelta,     (* bound on |focus_task_delta| while a direction is held   *)
  Setups        (* what does not change while the tasks run: the values of *)
                (* the options focus.count, focus.step and focus.rack-speed*)
                (* that the user may set, the arguments of lens_focus_start*)
                (* (none in the present build, where its only calls are    *)
                (* compiled out), and a number of commands: while fewer    *)
                (* are under way, the lens may report one it was not given *)

ASSUME FocusAssumption ==
  /\ SemMax \in Nat \ {0}
  /\ PtpSteps \subseteq Int
  /\ FOCUS_MAX \in Nat /\ MaxDelta \in Nat
  /\ Setups \subseteq [counts : SUBSET Nat, steps : SUBSET Int, speeds : SUBSET Int,
                       starts : SUBSET {-1, 1}, strays : Nat]

VARIABLES
  focus_done_sem, focus_stack_sem, focus_task_sem,
  commands,     (* commands the lens has still to complete                 *)
  shutdown_requested,
  pc,           (* where each task is                                      *)
  arg, ret,     (* its call of lens_focus: the step, and where it returns  *)
  sent, lost,   (* in this stack or rack: the steps sent, added up, and    *)
                (* whether a command was dropped                           *)
  count, step, i,                        (* locals of focus_stack          *)
  focus_task_dir, focus_task_delta, focus_rack_delta,
  speed, cmd, left, asked,               (* locals of rack_focus           *)
  hold,                                  (* step in focus_task             *)
  focus_position,
  setup                                  (* one of Setups                  *)

semVars   == <<focus_done_sem, focus_stack_sem, focus_task_sem>>
callVars  == <<pc, arg, ret, sent, lost>>
stackVars == <<count, step, i>>
rackVars  == <<speed, cmd, left, asked>>
taskVars  == <<focus_task_dir, focus_task_delta, focus_rack_delta, hold>>
env       == <<shutdown_requested, focus_position, setup>>
vars      == <<focus_done_sem, focus_stack_sem, focus_task_sem, commands, pc, arg, ret,
               sent, lost, count, step, i, speed, cmd, left, asked, focus_task_dir,
               focus_task_delta, focus_rack_delta, hold, shutdown_requested, focus_position,
               setup>>

Tasks == {"stack", "task", "ptp"}

Init ==
  /\ focus_done_sem = 1 /\ focus_stack_sem = 0 /\ focus_task_sem = 1
  /\ commands = 0 /\ shutdown_requested = FALSE
  /\ pc = [t \in Tasks |-> "idle"] /\ ret = [t \in Tasks |-> "idle"]
  /\ arg = [t \in Tasks |-> 0] /\ sent = [t \in Tasks |-> 0]
  /\ lost = [t \in Tasks |-> FALSE]
  /\ count = 0 /\ step = 0 /\ i = 0
  /\ speed = 1 /\ cmd = 0 /\ left = 0 /\ asked = 0
  /\ focus_task_dir = 0 /\ focus_task_delta = 0 /\ focus_rack_delta = 0 /\ hold = 0
  /\ focus_position = 0
  /\ setup \in Setups

Goto(t, l) == pc' = [pc EXCEPT ![t] = l]
Up(n)      == IF n < SemMax THEN n + 1 ELSE n
Abs(n)     == IF n < 0 THEN -n ELSE n
Least(a, b) == IF a < b THEN a ELSE b

-----------------------------------------------------------------------------
(* lens_focus, lens_focus_wait and PROP_LV_FOCUS_DONE *)

(* step_hi and step_lo: the command carries the low 16 bits of the step.   *)
Wire(n) == LET w == n % 65536 IN IF w < 32768 THEN w ELSE w - 65536

(* Call lens_focus( mode, s ) and go on at l. *)
CallFocus(t, s, l) ==
  /\ Goto(t, "focus")
  /\ arg' = [arg EXCEPT ![t] = s] /\ ret' = [ret EXCEPT ![t] = l]

(* The argument dies with the call. *)
ReturnFocus(t) ==
  /\ Goto(t, ret[t])
  /\ arg' = [arg EXCEPT ![t] = 0] /\ ret' = [ret EXCEPT ![t] = "idle"]

(* Faulty: the command is sent without waiting for the last one.           *)
FocusAtOnce(t) ==
  /\ pc[t] = "focus"
  /\ commands' = commands + 1
  /\ sent' = [sent EXCEPT ![t] = @ + Wire(arg[t])]
  /\ ReturnFocus(t)
  /\ UNCHANGED <<semVars, lost, stackVars, rackVars, taskVars, env>>

Focus(t) ==
  /\ pc[t] = "focus" /\ focus_done_sem > 0
  /\ focus_done_sem' = focus_done_sem - 1
  /\ commands' = commands + 1
  /\ sent' = [sent EXCEPT ![t] = IF t = "ptp" THEN 0 ELSE @ + Wire(arg[t])]
  /\ ReturnFocus(t)
  /\ UNCHANGED <<focus_stack_sem, focus_task_sem, lost, stackVars, rackVars, taskVars, env>>

(* 100 ms have gone by. *)
FocusTimeout(t) ==
  /\ pc[t] = "focus" /\ focus_done_sem = 0
  /\ lost' = [lost EXCEPT ![t] = TRUE]
  /\ ReturnFocus(t)
  /\ UNCHANGED <<semVars, commands, sent, stackVars, rackVars, taskVars, env>>

(* The lens has completed a command. *)
FocusDone ==
  /\ commands > 0
  /\ commands' = commands - 1
  /\ focus_done_sem' = Up(focus_done_sem)
  /\ UNCHANGED <<focus_stack_sem, focus_task_sem, callVars, stackVars, rackVars, taskVars, env>>

(* The camera has moved the lens on its own account. *)
OtherFocusDone ==
  /\ commands < setup.strays
  /\ focus_done_sem' = Up(focus_done_sem)
  /\ UNCHANGED <<focus_stack_sem, focus_task_sem, commands, callVars, stackVars, rackVars,
                 taskVars, env>>

WaitTake(t) ==
  /\ pc[t] = "wait" /\ focus_done_sem > 0
  /\ focus_done_sem' = focus_done_sem - 1
  /\ Goto(t, "waited")
  /\ UNCHANGED <<focus_stack_sem, focus_task_sem, commands, arg, ret, sent, lost,
                 stackVars, rackVars, taskVars, env>>

-----------------------------------------------------------------------------
(* focus_stack_task *)

Shots(n) == Least(n, 15)

(* count-1 is unsigned and wraps at 0, which the low 16 bits do not show. *)
Restore(n, s) == -s * (n - 1)

(* focus_stack_unlock: the menu entry "Run Stack focus". *)
Unlock ==
  /\ focus_stack_sem' = Up(focus_stack_sem)
  /\ UNCHANGED <<focus_done_sem, focus_task_sem, commands, callVars, stackVars,
                 rackVars, taskVars, env>>

(* With no picture to take the loop is not entered. *)
StackWake ==
  /\ pc["stack"] = "idle" /\ focus_stack_sem > 0 /\ ~shutdown_requested
  /\ focus_stack_sem' = focus_stack_sem - 1
  /\ \E c \in setup.counts, s \in setup.steps :
       /\ count' = Shots(c) /\ step' = s /\ i' = 0
       /\ IF Shots(c) = 0
          THEN CallFocus("stack", Restore(0, s), "idle")
          ELSE Goto("stack", "picture") /\ UNCHANGED <<arg, ret>>
  /\ sent' = [sent EXCEPT !["stack"] = 0] /\ lost' = [lost EXCEPT !["stack"] = FALSE]
  /\ UNCHANGED <<focus_done_sem, focus_task_sem, commands, rackVars, taskVars, env>>

(* lens_take_picture has returned. *)
Picture ==
  /\ pc["stack"] = "picture"
  /\ IF count - 1 = i
     THEN CallFocus("stack", Restore(count, step), "idle")
     ELSE CallFocus("stack", step, "wait")
  /\ UNCHANGED <<semVars, commands, sent, lost, stackVars, rackVars, taskVars, env>>

(* Faulty: lens_focus_wait keeps the semaphore.                            *)
WaitKeep ==
  /\ pc["stack"] = "waited"
  /\ i' = i + 1 /\ Goto("stack", "picture")
  /\ UNCHANGED <<semVars, commands, arg, ret, sent, lost, count, step, rackVars, taskVars, env>>

WaitGive ==
  /\ pc["stack"] = "waited"
  /\ focus_done_sem' = Up(focus_done_sem)
  /\ i' = i + 1 /\ Goto("stack", "picture")
  /\ UNCHANGED <<focus_stack_sem, focus_task_sem, commands, arg, ret, sent, lost, count, step,
                 rackVars, taskVars, env>>

-----------------------------------------------------------------------------
(* focus_task *)

TaskWake ==
  /\ pc["task"] = "idle" /\ focus_task_sem > 0 /\ ~shutdown_requested
  /\ focus_task_sem' = focus_task_sem - 1
  /\ Goto("task", "awake")
  /\ UNCHANGED <<focus_done_sem, focus_stack_sem, commands, arg, ret, sent, lost, stackVars, rackVars,
                 taskVars, env>>

(* A rack hides the menu first.                                            *)
TaskAwake ==
  /\ pc["task"] = "awake"
  /\ IF focus_rack_delta # 0
     THEN Goto("task", "hide") /\ UNCHANGED hold
     ELSE hold' = focus_task_dir /\ Goto("task", "hold")
  /\ UNCHANGED <<semVars, commands, arg, ret, sent, lost, stackVars, rackVars,
                 focus_task_dir, focus_task_delta, focus_rack_delta, env>>

(* rack_focus( focus_rack_speed, focus_rack_delta ): the distance is read  *)
(* again once the menu is hidden, and by then it may be another, or 0.     *)
RackStart ==
  /\ pc["task"] = "hide"
  /\ \E v \in setup.speeds :
       LET s == IF v <= 0 THEN 1 ELSE v
       IN speed' = s /\ cmd' = IF focus_rack_delta < 0 THEN -s ELSE s
  /\ left' = Abs(focus_rack_delta) /\ asked' = focus_rack_delta
  /\ Goto("task", "rack")
  /\ UNCHANGED <<semVars, commands, arg, ret, sent, lost, stackVars, taskVars, env>>

(* Faulty: the last chunk does not end the movement.                       *)
RackTwice ==
  /\ pc["task"] = "rack" /\ left > 0
  /\ left' = IF left > speed THEN left - speed ELSE IF left > 1 THEN 1 ELSE 0
  /\ CallFocus("task", cmd, "rack")
  /\ UNCHANGED <<semVars, commands, sent, lost, stackVars, speed, cmd, asked, taskVars, env>>

(* The last chunk shrinks speed, but not speed_cmd, which is what is sent. *)
Rack ==
  /\ pc["task"] = "rack" /\ left > 0
  /\ speed' = Least(speed, left)
  /\ left' = left - Least(speed, left)
  /\ CallFocus("task", cmd, "rack")
  /\ UNCHANGED <<semVars, commands, sent, lost, stackVars, cmd, asked, taskVars, env>>

(* What is known of a rack dies with it. *)
NoRack == speed' = 1 /\ cmd' = 0 /\ left' = 0 /\ asked' = 0
Forget == sent' = [sent EXCEPT !["task"] = 0] /\ lost' = [lost EXCEPT !["task"] = FALSE]

RackDone ==
  /\ pc["task"] = "rack" /\ left = 0
  /\ focus_rack_delta' = 0
  /\ NoRack /\ Forget
  /\ Goto("task", "idle")
  /\ UNCHANGED <<semVars, commands, arg, ret, stackVars, focus_task_dir, focus_task_delta, hold, env>>

Hold ==
  /\ pc["task"] = "hold"
  /\ IF focus_task_dir # 0
     THEN CallFocus("task", hold, "held") /\ UNCHANGED hold
     ELSE Goto("task", "idle") /\ hold' = 0 /\ UNCHANGED <<arg, ret>>
  /\ UNCHANGED <<semVars, commands, sent, lost, stackVars, rackVars,
                 focus_task_dir, focus_task_delta, focus_rack_delta, env>>

(* The step grows by a hundredth, and at least by one. *)
Grown(s) ==
  IF s > 0 /\ s < 1000 THEN ((s + 1) * 100) \div 99
  ELSE IF s < 0 /\ s > -1000 THEN -(((1 - s) * 100) \div 99) ELSE s

Held ==
  /\ pc["task"] = "held" /\ Abs(focus_task_delta + hold) <= MaxDelta
  /\ focus_task_delta' = focus_task_delta + hold
  /\ hold' = Grown(hold)
  /\ Forget
  /\ Goto("task", "hold")
  /\ UNCHANGED <<semVars, commands, arg, ret, stackVars, rackVars,
                 focus_task_dir, focus_rack_delta, env>>

-----------------------------------------------------------------------------
(* The Canon GUI task: focus_toggle, focus_reset_a and the start and stop  *)
(* of a movement; the PTP task; the startup property.                      *)

Toggle ==
  /\ focus_task_delta' = -focus_task_delta
  /\ focus_rack_delta' = -focus_task_delta
  /\ focus_task_sem' = Up(focus_task_sem)
  /\ UNCHANGED <<focus_done_sem, focus_stack_sem, commands, callVars, stackVars, rackVars,
                 focus_task_dir, hold, env>>

ResetA ==
  /\ focus_task_delta' = 0
  /\ UNCHANGED <<semVars, commands, callVars, stackVars, rackVars,
                 focus_task_dir, focus_rack_delta, hold, env>>

lens_focus_start(dir) ==
  /\ focus_task_dir' = dir
  /\ focus_task_sem' = Up(focus_task_sem)
  /\ UNCHANGED <<focus_done_sem, focus_stack_sem, commands, callVars, stackVars, rackVars,
                 focus_task_delta, focus_rack_delta, hold, env>>

lens_focus_stop ==
  /\ focus_task_dir' = 0
  /\ UNCHANGED <<semVars, commands, callVars, stackVars, rackVars,
                 focus_task_delta, focus_rack_delta, hold, env>>

Clamp(n) == IF n < 0 THEN 0 ELSE Least(n, FOCUS_MAX)

(* The position is clamped, the step that is sent is not. *)
Ptp(s) ==
  /\ pc["ptp"] = "idle"
  /\ focus_position' = Clamp(focus_position + s)
  /\ CallFocus("ptp", s, "idle")
  /\ UNCHANGED <<semVars, commands, sent, lost, stackVars, rackVars, taskVars, shutdown_requested, setup>>

Shutdown ==
  /\ ~shutdown_requested /\ shutdown_requested' = TRUE
  /\ UNCHANGED <<semVars, commands, callVars, stackVars, rackVars, taskVars, focus_position, setup>>

-----------------------------------------------------------------------------
Stack == Focus("stack") \/ FocusTimeout("stack") \/ StackWake \/ Picture \/ WaitGive
Task  == Focus("task") \/ FocusTimeout("task") \/ TaskWake \/ TaskAwake \/ RackStart \/ Rack
         \/ RackDone \/ Hold \/ Held

Next ==
  \/ Stack \/ WaitTake("stack") \/ Task \/ Focus("ptp") \/ FocusTimeout("ptp")
  \/ FocusDone \/ OtherFocusDone
  \/ Unlock \/ Toggle \/ ResetA \/ (\E s \in PtpSteps : Ptp(s)) \/ Shutdown
  \/ (\E d \in setup.starts : lens_focus_start(d)) \/ lens_focus_stop

Spec == Init /\ [][Next]_vars

(* Tasks are scheduled, the lens completes its commands, and a waiting     *)
(* lens_focus_wait is not passed over for ever.                            *)
FairSpec ==
  /\ Spec
  /\ WF_vars(Stack) /\ SF_vars(WaitTake("stack")) /\ WF_vars(Task) /\ WF_vars(FocusDone)

-----------------------------------------------------------------------------
(* Properties *)

TypeOK ==
  /\ {focus_done_sem, focus_stack_sem, focus_task_sem} \subseteq 0..SemMax
  /\ commands \in Nat
  /\ shutdown_requested \in BOOLEAN
  /\ pc \in [Tasks -> {"idle", "focus", "wait", "waited", "picture", "awake", "hide", "rack",
                       "hold", "held"}]
  /\ ret \in [Tasks -> {"idle", "wait", "rack", "held"}]
  /\ arg \in [Tasks -> Int] /\ sent \in [Tasks -> Int] /\ lost \in [Tasks -> BOOLEAN]
  /\ count \in 0..15 /\ step \in Int /\ i \in 0..15
  /\ speed \in Nat \ {0} /\ cmd \in Int /\ left \in Nat /\ asked \in Int
  /\ focus_task_dir \in {-1, 0, 1} /\ hold \in Int
  /\ {focus_task_delta, focus_rack_delta} \subseteq -MaxDelta..MaxDelta
  /\ focus_position \in 0..FOCUS_MAX /\ setup \in Setups

(* lens.h: "Will block if it is not safe to send the focus command".  The  *)
(* lens never has two commands at once, whichever tasks send, wait or give *)
(* up after 100 ms, as long as it reports nothing but its own completions. *)
OneCommand ==
  setup.strays = 0 =>
    commands + focus_done_sem + (IF pc["stack"] = "waited" THEN 1 ELSE 0) = 1

(* "Restore to the starting focus position" (focus_stack): if it takes any *)
(* picture and none of its commands was dropped, the steps of a stack and  *)
(* its return add up to no movement, whatever the other senders do.        *)
StackReturns ==
  pc["stack"] = "idle" /\ count > 0 /\ ~lost["stack"] => sent["stack"] = 0

(* A rack of which no command was dropped moves in the right direction, at *)
(* least as far as rack_focus was asked to, and less than one chunk        *)
(* further; it does not move if the distance was reset to 0 between the    *)
(* test in focus_task and the call.                                        *)
RackReaches ==
  pc["task"] = "rack" /\ left = 0 /\ ~lost["task"] =>
    /\ IF asked = 0 THEN sent["task"] = 0 ELSE sent["task"] * asked > 0
    /\ Abs(sent["task"]) - Abs(asked) \in 0..Abs(cmd) - 1

(* What was asked of the lens is what it is told to do.                    *)
MovesAsAsked == StackReturns /\ RackReaches

(* A stack comes to its end although other senders compete with it for     *)
(* focus_done_sem and its own commands may be dropped.                     *)
StackEnds == pc["stack"] # "idle" ~> pc["stack"] = "idle"

-----------------------------------------------------------------------------
(* Small instances.                                                        *)

(* Counts on both sides of the limit of 15, and the longest step whose     *)
(* return, 14 times as long, fits into the 16 bits of a command.           *)
Stacks == [counts |-> {1, 3, 20}, steps |-> {-2340, 100}, speeds |-> {4},
           starts |-> {}, strays |-> 0]

(* Speeds that divide a distance of up to MaxDelta and speeds that do not. *)
Racks  == [counts |-> {}, steps |-> {}, speeds |-> {0, 2},
           starts |-> {-1, 1}, strays |-> 0]

(* A lens that reports more than it was told to do, and a count of 0.      *)
Loose  == [counts |-> {0, 3}, steps |-> {100}, speeds |-> {4},
           starts |-> {}, strays |-> 2]

MCSetups == {Stacks, Racks, Loose}
Back     == {-2}
=============================================================================
