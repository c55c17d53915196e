---------------------------- MODULE FocusProofs -----------------------------
(***************************************************************************)
(* For binary and counting semaphores, whatever the options and the steps  *)
(* that are asked for: a lens that reports only its own completions never  *)
(* has two commands at once; and as long as the steps fit into a command,  *)
(* stacks return to where they began and racks go where they were sent.    *)
(***************************************************************************)
EXTENDS Focus, TLAPS

(* lens_focus_wait holds the token between its take and its give. *)
Waited == IF pc["stack"] = "waited" THEN 1 ELSE 0

(* No call of lens_focus returns into the middle of lens_focus_wait. *)
Types ==
  /\ focus_done_sem \in Nat /\ commands \in Nat
  /\ setup \in Setups
  /\ DOMAIN pc = Tasks /\ DOMAIN ret = Tasks
  /\ \A t \in Tasks : ret[t] # "waited"

(* There is one token: in focus_done_sem, with lens_focus_wait, or with    *)
(* the lens as a command.  A sender that times out has none and sends      *)
(* nothing.                                                                *)
OneToken == setup.strays = 0 => commands + focus_done_sem + Waited = 1

IInv == Types /\ OneToken

-----------------------------------------------------------------------------
(* A binary semaphore that is given twice counts once; the first give of   *)
(* any semaphore counts.                                                   *)
LEMMA UpCounts ==
  ASSUME NEW n \in Nat PROVE Up(n) \in Nat /\ (n = 0 => Up(n) = 1)
  BY FocusAssumption DEF Up

(* The first state has the token in focus_done_sem. *)
LEMMA InitToken == Init => IInv
  BY DEF Init, IInv, Types, OneToken, Waited, Tasks

(* A step that leaves the semaphore and the lens alone and takes a task    *)
(* neither into lens_focus_wait nor out of it keeps the token.             *)
LEMMA QuietMove ==
  ASSUME IInv, NEW t \in Tasks, NEW l, l # "waited", pc[t] # "waited", Goto(t, l),
         UNCHANGED <<focus_done_sem, commands, setup>>,
         DOMAIN ret' = Tasks, \A u \in Tasks : ret'[u] # "waited"
  PROVE  IInv'
  BY DEF IInv, Types, OneToken, Waited, Goto, Tasks

(* A call of lens_focus is such a step. *)
LEMMA CallStep ==
  ASSUME IInv, NEW t \in Tasks, NEW s, NEW l, l # "waited", pc[t] # "waited",
         CallFocus(t, s, l), UNCHANGED <<focus_done_sem, commands, setup>>
  PROVE  IInv'
<1>1. DOMAIN ret' = Tasks /\ \A u \in Tasks : ret'[u] # "waited"
  BY DEF CallFocus, IInv, Types
<1> QED BY <1>1, QuietMove DEF CallFocus

(* A step of a task that calls nothing is one, too. *)
LEMMA PlainStep ==
  ASSUME IInv, NEW t \in Tasks, NEW l, l # "waited", pc[t] # "waited", Goto(t, l),
         UNCHANGED <<focus_done_sem, commands, setup, ret>>
  PROVE  IInv'
  BY QuietMove DEF IInv, Types

(* A sender that gets the semaphore hands the token to the lens. *)
LEMMA FocusStep == ASSUME IInv, NEW t \in Tasks, Focus(t) PROVE IInv'
  BY DEF Focus, ReturnFocus, IInv, Types, OneToken, Waited, Goto, Tasks, env

(* One that gives up has nothing to hand over. *)
LEMMA TimeoutStep == ASSUME IInv, NEW t \in Tasks, FocusTimeout(t) PROVE IInv'
<1>1. DOMAIN ret' = Tasks /\ \A u \in Tasks : ret'[u] # "waited"
  BY DEF FocusTimeout, ReturnFocus, IInv, Types
<1>2. ret[t] # "waited"  BY DEF IInv, Types
<1> QED BY <1>1, <1>2, QuietMove DEF FocusTimeout, ReturnFocus, semVars, env

(* The stacking task moves the token only in lens_focus_wait. *)
LEMMA StackStep == ASSUME IInv, Stack \/ WaitTake("stack") PROVE IInv'
<1> "stack" \in Tasks  BY DEF Tasks
<1>1. CASE StackWake
  <2>1. PICK c \in setup.counts :
          IF Shots(c) = 0 THEN \E s \in setup.steps : CallFocus("stack", Restore(0, s), "idle")
          ELSE Goto("stack", "picture") /\ UNCHANGED <<arg, ret>>
    BY <1>1 DEF StackWake
  <2> USE DEF StackWake, env
  <2>2. CASE Shots(c) = 0  BY <1>1, <2>1, <2>2, CallStep
  <2>3. CASE Shots(c) # 0  BY <1>1, <2>1, <2>3, PlainStep
  <2> QED BY <2>2, <2>3
<1>2. CASE Picture
  <2> USE DEF Picture, semVars, env
  <2>1. CASE count - 1 = i  BY <1>2, <2>1, CallStep
  <2>2. CASE count - 1 # i  BY <1>2, <2>2, CallStep
  <2> QED BY <2>1, <2>2
<1>3. CASE WaitTake("stack")
  BY <1>3 DEF WaitTake, IInv, Types, OneToken, Waited, Goto, Tasks, env
<1>4. CASE WaitGive
  BY <1>4, UpCounts DEF WaitGive, IInv, Types, OneToken, Waited, Goto, Tasks, env
<1> QED BY <1>1, <1>2, <1>3, <1>4, FocusStep, TimeoutStep DEF Stack

(* The focus task has no part in the token but as a sender. *)
LEMMA TaskStep == ASSUME IInv, Task PROVE IInv'
<1> "task" \in Tasks  BY DEF Tasks
<1>1. CASE TaskWake  BY <1>1, PlainStep DEF TaskWake, env
<1>2. CASE TaskAwake
  <2> USE DEF TaskAwake, semVars, env
  <2>1. CASE focus_rack_delta # 0  BY <1>2, <2>1, PlainStep
  <2>2. CASE focus_rack_delta = 0  BY <1>2, <2>2, PlainStep
  <2> QED BY <2>1, <2>2
<1>7. CASE RackStart  BY <1>7, PlainStep DEF RackStart, semVars, env
<1>3. CASE Rack      BY <1>3, CallStep DEF Rack, semVars, env
<1>4. CASE RackDone  BY <1>4, PlainStep DEF RackDone, semVars, env
<1>5. CASE Hold
  <2> USE DEF Hold, semVars, env
  <2>1. CASE focus_task_dir # 0  BY <1>5, <2>1, CallStep
  <2>2. CASE focus_task_dir = 0  BY <1>5, <2>2, PlainStep
  <2> QED BY <2>1, <2>2
<1>6. CASE Held  BY <1>6, PlainStep DEF Held, semVars, env
<1> QED BY <1>1, <1>2, <1>3, <1>4, <1>5, <1>6, <1>7, FocusStep, TimeoutStep DEF Task

(* The PTP handler sends like the others. *)
LEMMA PtpStep ==
  ASSUME IInv, Focus("ptp") \/ FocusTimeout("ptp") \/ \E s \in PtpSteps : Ptp(s)
  PROVE  IInv'
<1> "ptp" \in Tasks  BY DEF Tasks
<1>1. ASSUME NEW s \in PtpSteps, Ptp(s) PROVE IInv'
  BY <1>1, CallStep DEF Ptp, semVars
<1> QED BY <1>1, FocusStep, TimeoutStep

(* A completion brings the token back; a report of a movement that nobody  *)
(* asked for is out of the property's range.                               *)
LEMMA LensStep == IInv /\ (FocusDone \/ OtherFocusDone) => IInv'
<1> SUFFICES ASSUME IInv, FocusDone \/ OtherFocusDone PROVE IInv'  OBVIOUS
<1> USE DEF IInv, Types, OneToken, Waited, callVars, env
<1>1. CASE FocusDone       BY <1>1, UpCounts DEF FocusDone
<1>2. CASE OtherFocusDone  BY <1>2, UpCounts, FocusAssumption DEF OtherFocusDone
<1> QED BY <1>1, <1>2

(* The menu, the user and the shutdown leave the token alone. *)
LEMMA OtherStep ==
  IInv /\ (Unlock \/ Toggle \/ ResetA \/ Shutdown \/ lens_focus_stop
           \/ (\E d \in setup.starts : lens_focus_start(d)) \/ UNCHANGED vars) => IInv'
  BY DEF IInv, Types, OneToken, Waited, Unlock, Toggle, ResetA, Shutdown, lens_focus_stop,
         lens_focus_start, semVars, callVars, env, vars

(* lens.h: "Will block if it is not safe to send the focus command": no    *)
(* command is sent on top of another, timeouts included.                   *)
THEOREM NeverTwoCommands == Spec => []OneCommand
<1>1. Init => IInv  BY InitToken
<1>2. IInv /\ [Next]_vars => IInv'
  BY StackStep, TaskStep, PtpStep, LensStep, OtherStep DEF Next
<1>3. IInv => OneCommand
  BY DEF IInv, OneToken, Waited, OneCommand
<1> QED BY <1>1, <1>2, <1>3, PTL DEF Spec

-----------------------------------------------------------------------------
(* The movements.                                                          *)

(* The longest return of a stack, fourteen steps, and the longest step of  *)
(* a rack fit into the low 16 bits of a command.                           *)
Fits == \A s \in Setups :
  /\ \A n \in s.steps : -2340 <= n /\ n <= 2340
  /\ \A v \in s.speeds : v < 32768

StackPlaces == {"idle", "picture", "focus", "wait", "waited"}
TaskPlaces  == {"idle", "awake", "hide", "rack", "focus", "hold", "held"}

Kinds ==
  /\ setup \in Setups
  /\ DOMAIN pc = Tasks /\ DOMAIN ret = Tasks /\ DOMAIN lost = Tasks
  /\ pc["stack"] \in StackPlaces /\ ret["stack"] \in {"idle", "wait"}
  /\ pc["task"] \in TaskPlaces /\ ret["task"] \in {"idle", "rack", "held"}
  /\ arg \in [Tasks -> Int] /\ sent \in [Tasks -> Int]
  /\ count \in Nat /\ count <= 15 /\ i \in Nat
  /\ step \in Int /\ -2340 <= step /\ step <= 2340
  /\ speed \in Nat /\ left \in Nat /\ asked \in Int
  /\ cmd \in Int /\ -32768 < cmd /\ cmd < 32768
  /\ focus_task_delta \in Int /\ focus_rack_delta \in Int /\ hold \in Int /\ focus_task_dir \in Int

(* A stack that has lost no command is i steps from where it began, and is *)
(* about to go on or back.                                                 *)
InStack ==
  LET at == pc["stack"] IN
  /\ at \in {"wait", "waited"} \/ (at = "focus" /\ ret["stack"] = "wait") => i < count - 1
  /\ at = "picture" => i < count
  /\ at = "focus" /\ ret["stack"] = "wait" => arg["stack"] = step
  /\ at = "focus" /\ ret["stack"] = "idle" /\ count > 0 =>
       arg["stack"] = Restore(count, step) /\ i = count - 1
  /\ ~lost["stack"] /\ count > 0 =>
       sent["stack"] = CASE at = "idle" -> 0
                         [] at \in {"wait", "waited"} -> (i + 1) * step
                         [] OTHER -> i * step

(* What a rack has told the lens, the command it waits to send included,   *)
(* and what is left make up what was asked, until the last command, which  *)
(* is a whole chunk whatever was left.                                     *)
Told == sent["task"] + (IF pc["task"] = "focus" THEN arg["task"] ELSE 0)
Racking == pc["task"] = "rack" \/ (pc["task"] = "focus" /\ ret["task"] = "rack")

InRack ==
  /\ pc["task"] \in {"idle", "awake", "hide", "hold"} => sent["task"] = 0 /\ ~lost["task"]
  /\ pc["task"] = "focus" /\ ret["task"] = "held" => ~lost["task"]
  /\ pc["task"] = "focus" => ret["task"] # "idle"
  /\ pc["task"] = "focus" /\ ret["task"] = "rack" => arg["task"] = cmd
  /\ Racking /\ asked = 0 => left = 0 /\ pc["task"] = "rack" /\ sent["task"] = 0 /\ cmd # 0
  /\ Racking /\ asked # 0 =>
       /\ cmd # 0 /\ (asked > 0 <=> cmd > 0)
       /\ left > 0 => speed = Abs(cmd)
       /\ ~lost["task"] =>
            IF left > 0 THEN Told = IF cmd > 0 THEN asked - left ELSE asked + left
            ELSE IF cmd > 0 THEN Told >= asked /\ Told < asked + cmd
                 ELSE Told <= asked /\ Told > asked + cmd

MInv == Kinds /\ InStack /\ InRack

-----------------------------------------------------------------------------
(* The low 16 bits of a small step are the step. *)
LEMMA WireFits == ASSUME NEW n \in Int, -32768 <= n, n < 32768 PROVE Wire(n) = n
  BY DEF Wire

(* The provers find products only by way of a named factor. *)
LEMMA Product ==
  ASSUME NEW a \in Int, NEW s \in Int, 0 <= a, a <= 14, -2340 <= s, s <= 2340
  PROVE  -32760 <= a * s /\ a * s <= 32760
<1>1. PICK p \in Int : p = a * s  OBVIOUS
<1>2. CASE s >= 0
  <2>1. p <= 14 * s  BY <1>1, <1>2
  <2>2. p >= 0       BY <1>1, <1>2
  <2>3. 14 * s <= 32760  OBVIOUS
  <2> QED BY <1>1, <2>1, <2>2, <2>3
<1>3. CASE s < 0
  <2>1. p >= 14 * s  BY <1>1, <1>3
  <2>2. p <= 0       BY <1>1, <1>3
  <2>3. 14 * s >= -32760  OBVIOUS
  <2> QED BY <1>1, <2>1, <2>2, <2>3
<1> QED BY <1>2, <1>3

(* The return of a stack fits and undoes its steps. *)
LEMMA RestoreFits ==
  ASSUME NEW c \in Int, NEW s \in Int, 1 <= c, c <= 15, -2340 <= s, s <= 2340
  PROVE  /\ Restore(c, s) \in Int /\ -32768 <= Restore(c, s) /\ Restore(c, s) < 32768
         /\ (c - 1) * s + Restore(c, s) = 0
<1>1. PICK a \in Int : a = c - 1  OBVIOUS
<1>2. -32760 <= a * s /\ a * s <= 32760  BY <1>1, Product
<1>3. PICK p \in Int : p = a * s  OBVIOUS
<1>4. PICK q \in Int : q = Restore(c, s)  BY DEF Restore
<1>5. q = -p  BY <1>1, <1>3, <1>4 DEF Restore
<1>6. -32760 <= q /\ q <= 32760  BY <1>2, <1>3, <1>5
<1> QED BY <1>1, <1>3, <1>4, <1>5, <1>6

(* Nothing has moved. *)
LEMMA InitMoves == Init => Kinds /\ InStack /\ InRack
  BY DEF Init, Kinds, InStack, InRack, Tasks, Racking, StackPlaces, TaskPlaces

USE DEF Kinds, StackPlaces, TaskPlaces, Goto, CallFocus, ReturnFocus, semVars, callVars,
        stackVars, rackVars, taskVars, env, Tasks

(* The types, by the task that moves. *)
LEMMA KindsStack == ASSUME Fits, Kinds, Stack \/ WaitTake("stack") PROVE Kinds'
<1>1. CASE Focus("stack")
  <2>1. Wire(arg["stack"]) \in Int  BY DEF Wire
  <2> QED BY <1>1, <2>1 DEF Focus
<1>2. CASE FocusTimeout("stack")  BY <1>2 DEF FocusTimeout
<1>3. CASE StackWake
  <2>1. PICK c \in setup.counts, s \in setup.steps : count' = Shots(c) /\ step' = s /\ i' = 0
       /\ IF Shots(c) = 0
          THEN CallFocus("stack", Restore(0, s), "idle")
          ELSE Goto("stack", "picture") /\ UNCHANGED <<arg, ret>>
     BY <1>3 DEF StackWake
  <2>2. c \in Nat /\ s \in Int /\ -2340 <= s /\ s <= 2340  BY FocusAssumption DEF Fits
  <2>3. Restore(0, s) \in Int  BY <2>2 DEF Restore
  <2>4. Shots(c) \in Nat /\ Shots(c) <= 15  BY <2>2 DEF Shots, Least
  <2> QED BY <1>3, <2>1, <2>2, <2>3, <2>4 DEF StackWake
<1>4. CASE Picture
  <2>1. Restore(count, step) \in Int  BY DEF Restore
  <2> QED BY <1>4, <2>1 DEF Picture
<1>5. CASE WaitTake("stack")  BY <1>5 DEF WaitTake
<1>6. CASE WaitGive  BY <1>6 DEF WaitGive
<1> QED BY <1>1, <1>2, <1>3, <1>4, <1>5, <1>6 DEF Stack

(* The speed of a rack may have any sign, its chunks have not. *)
LEMMA KindsTask == ASSUME Fits, Kinds, InRack, Task PROVE Kinds'
<1>1. CASE Focus("task")
  <2>1. Wire(arg["task"]) \in Int  BY DEF Wire
  <2> QED BY <1>1, <2>1 DEF Focus
<1>2. CASE FocusTimeout("task")  BY <1>2 DEF FocusTimeout
<1>3. CASE TaskWake  BY <1>3 DEF TaskWake
<1>4. CASE TaskAwake
  <2>1. CASE focus_rack_delta # 0  BY <1>4, <2>1 DEF TaskAwake
  <2>2. CASE focus_rack_delta = 0  BY <1>4, <2>2 DEF TaskAwake
  <2> QED BY <2>1, <2>2
<1>9. CASE RackStart
  <2>1. PICK v \in setup.speeds :
           LET s == IF v <= 0 THEN 1 ELSE v
           IN speed' = s /\ cmd' = IF focus_rack_delta < 0 THEN -s ELSE s
    BY <1>9 DEF RackStart
  <2>2. v \in Int /\ v < 32768  BY FocusAssumption DEF Fits
  <2> QED BY <1>9, <2>1, <2>2 DEF RackStart, Abs
<1>5. CASE Rack  BY <1>5 DEF Rack, Least
<1>6. CASE RackDone  BY <1>6 DEF RackDone, NoRack, Forget
<1>7. CASE Hold
  <2>1. CASE focus_task_dir # 0  BY <1>7, <2>1 DEF Hold
  <2>2. CASE focus_task_dir = 0  BY <1>7, <2>2 DEF Hold
  <2> QED BY <2>1, <2>2
<1>8. CASE Held
  <2>1. Grown(hold) \in Int  BY DEF Grown
  <2> QED BY <1>8, <2>1 DEF Held, Forget
<1> QED BY <1>1, <1>2, <1>3, <1>4, <1>5, <1>6, <1>7, <1>8, <1>9 DEF Task

(* The steps of everybody else, and all that the two tasks see of them. *)
Rest == \/ Focus("ptp") \/ FocusTimeout("ptp") \/ (\E s \in PtpSteps : Ptp(s))
        \/ FocusDone \/ OtherFocusDone \/ Unlock \/ Toggle \/ ResetA \/ Shutdown
        \/ (\E d \in setup.starts : lens_focus_start(d)) \/ lens_focus_stop \/ UNCHANGED vars

Quiet ==
  /\ UNCHANGED <<setup, count, step, i, speed, left, asked, cmd, hold>>
  /\ DOMAIN pc' = Tasks /\ DOMAIN ret' = Tasks /\ DOMAIN lost' = Tasks
  /\ arg' \in [Tasks -> Int] /\ sent' \in [Tasks -> Int]
  /\ \A t \in {"stack", "task"} : /\ pc'[t] = pc[t] /\ ret'[t] = ret[t] /\ arg'[t] = arg[t]
                                  /\ sent'[t] = sent[t] /\ lost'[t] = lost[t]
  /\ focus_task_delta' \in Int /\ focus_rack_delta' \in Int /\ focus_task_dir' \in Int

(* The PTP handler sends with locals of its own. *)
LEMMA RestQuiet == ASSUME Kinds, Rest PROVE Quiet
<1> USE DEF Quiet
<1>1. CASE Focus("ptp")
  BY <1>1 DEF Focus
<1>2. CASE FocusTimeout("ptp")  BY <1>2 DEF FocusTimeout
<1>3. ASSUME NEW s \in PtpSteps, Ptp(s) PROVE Quiet
  <2>1. s \in Int  BY FocusAssumption
  <2> QED BY <1>3, <2>1 DEF Ptp
<1>4. CASE FocusDone \/ OtherFocusDone \/ Unlock  BY <1>4 DEF FocusDone, OtherFocusDone, Unlock
<1>5. CASE Toggle \/ ResetA \/ Shutdown  BY <1>5 DEF Toggle, ResetA, Shutdown
<1>6. ASSUME NEW d \in setup.starts, lens_focus_start(d) PROVE Quiet
  <2>1. d \in Int  BY FocusAssumption
  <2> QED BY <1>6, <2>1 DEF lens_focus_start
<1>7. CASE lens_focus_stop \/ UNCHANGED vars  BY <1>7 DEF lens_focus_stop, vars
<1> QED BY <1>1, <1>2, <1>3, <1>4, <1>5, <1>6, <1>7 DEF Rest

(* So what it and the others do does not count. *)
LEMMA QuietKeeps == ASSUME Kinds, InStack, InRack, Quiet PROVE Kinds' /\ InStack' /\ InRack'
<1>1. Kinds' BY DEF Quiet
<1>2. InStack' BY DEF Quiet, InStack
<1>3. InRack' BY DEF Quiet, InRack, Told, Racking
<1> QED BY <1>1, <1>2, <1>3

(* The stacking task: a command is sent as it was asked for, or lost; the  *)
(* last one is the sum of all others, with the other sign.                 *)
LEMMA StackInStack == ASSUME Fits, Kinds, InStack, Stack \/ WaitTake("stack") PROVE InStack'
<1> USE DEF InStack
<1>1. CASE Focus("stack")
  <2>1. CASE ret["stack"] = "wait"
    <3>1. Wire(arg["stack"]) = step  BY <1>1, <2>1, WireFits DEF Focus
    <3>2. i * step + step = (i + 1) * step  OBVIOUS
    <3> QED BY <1>1, <2>1, <3>1, <3>2 DEF Focus
  <2>2. CASE ret["stack"] = "idle" /\ count > 0
    <3>1. arg["stack"] = Restore(count, step) /\ i = count - 1  BY <1>1, <2>2 DEF Focus
    <3>2. Wire(arg["stack"]) = Restore(count, step)  BY <2>2, <3>1, WireFits, RestoreFits
    <3>3. i * step + Restore(count, step) = 0  BY <2>2, <3>1, RestoreFits
    <3> QED BY <1>1, <2>2, <3>2, <3>3 DEF Focus
  <2>3. CASE ret["stack"] = "idle" /\ ~(count > 0)  BY <1>1, <2>3 DEF Focus
  <2> QED BY <2>1, <2>2, <2>3
<1>2. CASE FocusTimeout("stack")  BY <1>2 DEF FocusTimeout
<1>3. CASE StackWake
  <2>1. PICK c \in setup.counts, s \in setup.steps : count' = Shots(c) /\ step' = s /\ i' = 0
       /\ IF Shots(c) = 0
          THEN CallFocus("stack", Restore(0, s), "idle")
          ELSE Goto("stack", "picture") /\ UNCHANGED <<arg, ret>>
     BY <1>3 DEF StackWake
  <2>2. c \in Nat /\ s \in Int  BY FocusAssumption
  <2>3. Shots(c) \in Nat /\ 0 * s = 0  BY <2>2 DEF Shots, Least
  <2>4. CASE Shots(c) = 0  BY <1>3, <2>1, <2>4 DEF StackWake
  <2>5. CASE Shots(c) # 0  BY <1>3, <2>1, <2>3, <2>5 DEF StackWake
  <2> QED BY <2>4, <2>5
<1>4. CASE Picture
  <2>1. CASE count - 1 = i  BY <1>4, <2>1 DEF Picture
  <2>2. CASE count - 1 # i  BY <1>4, <2>2 DEF Picture
  <2> QED BY <2>1, <2>2
<1>5. CASE WaitTake("stack")  BY <1>5 DEF WaitTake
<1>6. CASE WaitGive  BY <1>6 DEF WaitGive
<1> QED BY <1>1, <1>2, <1>3, <1>4, <1>5, <1>6 DEF Stack

(* Neither task moves the lens for the other. *)
LEMMA StackInRack == ASSUME Fits, Kinds, InRack, Stack \/ WaitTake("stack") PROVE InRack'
<1> USE DEF InRack, Told, Racking
<1>1. CASE Focus("stack")  BY <1>1 DEF Focus
<1>2. CASE FocusTimeout("stack")  BY <1>2 DEF FocusTimeout
<1>3. CASE StackWake
  <2>1. /\ arg'["task"] = arg["task"] /\ ret'["task"] = ret["task"] /\ pc'["task"] = pc["task"]
        /\ sent'["task"] = sent["task"] /\ lost'["task"] = lost["task"] /\ UNCHANGED rackVars
     BY <1>3 DEF StackWake
  <2> QED BY <2>1
<1>4. CASE Picture
  <2>1. arg'["task"] = arg["task"] /\ ret'["task"] = ret["task"] /\ pc'["task"] = pc["task"]
     BY <1>4 DEF Picture
  <2> QED BY <1>4, <2>1 DEF Picture
<1>5. CASE WaitTake("stack")  BY <1>5 DEF WaitTake
<1>6. CASE WaitGive  BY <1>6 DEF WaitGive
<1> QED BY <1>1, <1>2, <1>3, <1>4, <1>5, <1>6 DEF Stack

(* ... nor the focus task for the stack. *)
LEMMA TaskInStack == ASSUME Kinds, InStack, Task PROVE InStack'
<1>1. /\ pc'["stack"] = pc["stack"] /\ ret'["stack"] = ret["stack"] /\ arg'["stack"] = arg["stack"]
      /\ sent'["stack"] = sent["stack"] /\ lost'["stack"] = lost["stack"] /\ UNCHANGED stackVars
  BY DEF Task, Focus, FocusTimeout, TaskWake, TaskAwake, RackStart, Rack, RackDone, Hold, Held,
         Forget
<1> QED BY <1>1 DEF InStack

(* The rack: every chunk but the last is as long as the step that is sent. *)
LEMMA TaskInRack == ASSUME Fits, Kinds, InRack, Task PROVE InRack'
<1> USE DEF InRack, Told, Racking
<1>1. CASE Focus("task")
  <2>1. CASE ret["task"] = "rack"
    <3>1. Wire(arg["task"]) = arg["task"]  BY <1>1, <2>1, WireFits DEF Focus
    <3> QED BY <1>1, <2>1, <3>1 DEF Focus
  <2>2. CASE ret["task"] # "rack"  BY <1>1, <2>2 DEF Focus
  <2> QED BY <2>1, <2>2
<1>2. CASE FocusTimeout("task")  BY <1>2 DEF FocusTimeout
<1>3. CASE TaskWake  BY <1>3 DEF TaskWake
<1>4. CASE TaskAwake
  <2>1. CASE focus_rack_delta # 0  BY <1>4, <2>1 DEF TaskAwake
  <2>2. CASE focus_rack_delta = 0  BY <1>4, <2>2 DEF TaskAwake
  <2> QED BY <2>1, <2>2
<1>9. CASE RackStart
  <2>1. PICK v \in setup.speeds :
           LET s == IF v <= 0 THEN 1 ELSE v
           IN speed' = s /\ cmd' = IF focus_rack_delta < 0 THEN -s ELSE s
    BY <1>9 DEF RackStart
  <2>2. v \in Int  BY FocusAssumption
  <2>3. /\ pc["task"] = "hide" /\ pc'["task"] = "rack" /\ UNCHANGED <<ret, arg, sent, lost>>
        /\ asked' = focus_rack_delta /\ left' = Abs(focus_rack_delta)
    BY <1>9 DEF RackStart
  <2>4. sent["task"] = 0 /\ ~lost["task"]  BY <2>3
  <2>5. speed' = Abs(cmd') /\ cmd' # 0 /\ (focus_rack_delta < 0 <=> cmd' < 0)  BY <2>1, <2>2 DEF Abs
  <2>6. CASE focus_rack_delta = 0  BY <2>3, <2>4, <2>5, <2>6 DEF Abs
  <2>7. CASE focus_rack_delta # 0
    <3>1. left' > 0 /\ left' = IF cmd' > 0 THEN asked' ELSE -asked'
      BY <2>1, <2>2, <2>3, <2>5, <2>7 DEF Abs
    <3>2. asked' # 0 /\ cmd' # 0 /\ (asked' > 0 <=> cmd' > 0) /\ asked' \in Int /\ cmd' \in Int
      BY <2>1, <2>2, <2>3, <2>5, <2>7
    <3>3. Told' = 0  BY <2>3, <2>4
    <3>4. Told' = IF cmd' > 0 THEN asked' - left' ELSE asked' + left'
      BY <3>1, <3>2, <3>3
    <3> QED BY <2>3, <2>5, <3>1, <3>2, <3>4
  <2> QED BY <2>6, <2>7
<1>5. CASE Rack
  <2>1. asked # 0 /\ asked' = asked /\ cmd' = cmd  BY <1>5 DEF Rack
  <2>2. /\ pc["task"] = "rack" /\ pc'["task"] = "focus" /\ ret'["task"] = "rack"
        /\ arg'["task"] = cmd /\ sent' = sent /\ lost' = lost
    BY <1>5 DEF Rack
  <2>3. left > 0 /\ speed' = Least(speed, left) /\ left' = left - speed'  BY <1>5 DEF Rack
  <2>4. cmd # 0 /\ (asked > 0 <=> cmd > 0) /\ speed = Abs(cmd)  BY <2>1, <2>2, <2>3
  <2>5. left' > 0 => speed' = Abs(cmd)  BY <2>3, <2>4 DEF Least
  <2>6. ASSUME ~lost["task"]
        PROVE  IF left' > 0 THEN Told' = IF cmd > 0 THEN asked - left' ELSE asked + left'
               ELSE IF cmd > 0 THEN Told' >= asked /\ Told' < asked + cmd
                    ELSE Told' <= asked /\ Told' > asked + cmd
    <3>1. sent["task"] = IF cmd > 0 THEN asked - left ELSE asked + left
      BY <2>1, <2>2, <2>3, <2>6
    <3>2. Told' = sent["task"] + cmd  BY <2>2
    <3> QED BY <2>3, <2>4, <3>1, <3>2 DEF Least, Abs
  <2> QED BY <2>1, <2>2, <2>4, <2>5, <2>6
<1>6. CASE RackDone  BY <1>6 DEF RackDone, NoRack, Forget
<1>7. CASE Hold
  <2>1. CASE focus_task_dir # 0  BY <1>7, <2>1 DEF Hold
  <2>2. CASE focus_task_dir = 0  BY <1>7, <2>2 DEF Hold
  <2> QED BY <2>1, <2>2
<1>8. CASE Held  BY <1>8 DEF Held, Forget
<1> QED BY <1>1, <1>2, <1>3, <1>4, <1>5, <1>6, <1>7, <1>8, <1>9 DEF Task

(* Nonlinear, and by itself. *)
LEMMA SameSign == ASSUME NEW a \in Int, NEW b \in Int,
         (a > 0 /\ b > 0) \/ (a < 0 /\ b < 0)
  PROVE  a * b > 0
  OBVIOUS

(* A rack that has nothing left is less than a chunk too far. *)
LEMMA MovesReach == ASSUME Kinds, InRack PROVE RackReaches
<1> SUFFICES ASSUME pc["task"] = "rack", left = 0, ~lost["task"]
             PROVE  /\ IF asked = 0 THEN sent["task"] = 0 ELSE sent["task"] * asked > 0
                    /\ Abs(sent["task"]) - Abs(asked) \in 0..Abs(cmd) - 1
  BY DEF RackReaches
<1> PICK n \in Int : n = sent["task"]  OBVIOUS
<1>1. CASE asked = 0
  <2>1. n = 0 /\ cmd # 0  BY <1>1 DEF InRack, Racking
  <2> QED BY <1>1, <2>1 DEF Abs
<1>2. CASE asked # 0
  <2>1. \/ cmd > 0 /\ asked > 0 /\ n >= asked /\ n < asked + cmd
        \/ cmd < 0 /\ asked < 0 /\ n <= asked /\ n > asked + cmd
    BY <1>2 DEF InRack, Racking, Told
  <2>2. n * asked > 0  BY <2>1, SameSign
  <2>3. Abs(n) - Abs(asked) \in 0..Abs(cmd) - 1  BY <2>1 DEF Abs
  <2> QED BY <1>2, <2>2, <2>3
<1> QED BY <1>1, <1>2

(* "Restore to the starting focus position": a stack of which no command   *)
(* was dropped ends where it began, after any number of pictures, and a    *)
(* rack goes in the right direction as far as it was asked to, and less    *)
(* than a chunk further; whatever other senders put in between.            *)
THEOREM MovesAreAsAsked == Fits => (Spec => []MovesAsAsked)
<1> SUFFICES ASSUME Fits PROVE Spec => []MovesAsAsked  OBVIOUS
<1>1. Init => MInv  BY InitMoves DEF MInv
<1>2. MInv /\ [Next]_vars => MInv'
  <2> SUFFICES ASSUME MInv, [Next]_vars PROVE MInv'  OBVIOUS
  <2> USE DEF MInv
  <2>1. CASE Stack \/ WaitTake("stack")  BY <2>1, KindsStack, StackInStack, StackInRack
  <2>2. CASE Task  BY <2>2, KindsTask, TaskInStack, TaskInRack
  <2>3. CASE Rest  BY <2>3, RestQuiet, QuietKeeps
  <2> QED BY <2>1, <2>2, <2>3 DEF Next, Rest
<1>3. MInv => MovesAsAsked
  BY MovesReach DEF MInv, MovesAsAsked, StackReturns, InStack
<1> QED BY <1>1, <1>2, <1>3, PTL DEF Spec
=============================================================================
