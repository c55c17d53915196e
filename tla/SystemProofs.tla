---------------------------- MODULE SystemProofs ----------------------------
(***************************************************************************)
(* Proofs about MCSystem: what one part of the startup prepares, the       *)
(* others find (Boot), what becomes of Canon's events (GuiEvents), and what*)
(* the menu entries leave behind (Services).                               *)
(***************************************************************************)
EXTENDS MCSystem, TLAPS

-----------------------------------------------------------------------------
(* The steps of the startup and of the tasks.                              *)

(* The semaphores that the startup creates.                                *)
Early  == {"menu_sem", "gui_sem", "focus_stack_sem", "focus_task_sem"}
Late   == {"lens_sem", "focus_done_sem", "job_sem"}

(* The semaphore that a task creates with its first step.                  *)
Own(t) ==
  CASE t = "sounddev_task" -> {"gain.sem"}
    [] t = "bracket_task"  -> {"bracket_sem"}
    [] t = "timecode"      -> {"timecode_sem"}
    [] OTHER               -> {}

Does(s, creates, uses, adds, reads, waits) ==
  /\ ~s.resets /\ ~s.parses /\ s.registers = {}
  /\ s.creates = creates /\ s.uses = uses /\ s.adds = adds /\ s.reads = reads
  /\ s.waits = waits

(* What the i-th step of task t may do.                                    *)
Fits(t, i, s) ==
  /\ ~s.resets /\ ~s.parses /\ s.registers = {}
  /\ s.uses \subseteq Early \cup Late \cup (IF i > 1 THEN Own(t) ELSE {})
  /\ i = 1 => s.creates = Own(t)
  /\ "focus" \notin s.adds
  /\ "bracket" \in s.adds => t = "bracket_task" /\ i > 1
  /\ "timecode" \in s.adds => t = "timecode" /\ i > 1
  /\ t \in Overrides /\ (s.adds # {} \/ s.reads # {}) => t = "sounddev_task" /\ i > 2
  /\ t \in Overrides /\ s.uses # {} =>
       t = "gui_main_task" \/ (t = "sounddev_task" /\ i > 2)
  /\ t = "sounddev_task" /\ i = 2 => s.waits = "startup"

(* What each kind of step does.                                            *)
LEMMA StepsDo ==
  /\ Does(Step, {}, {}, {}, {}, "no") /\ Does(Sleep, {}, {}, {}, {}, "startup")
  /\ \A S : /\ Does(Create(S), S, {}, {}, {}, "no")
            /\ Does(While(S), {}, S, {}, {}, "shutdown")
            /\ Does(Forever(S), {}, S, {}, {}, "ever")
  /\ \A w : /\ Does(MenuAdd(w), {}, {"menu_sem"}, {w}, {}, "no")
            /\ Does(Read(w), {}, {}, {}, {w}, "no")
  BY DEF Does, Step, MenuAdd, Create, Read, Sleep, While, Forever

(* Every step of every task fits.                                          *)
LEMMA ProgramSteps ==
  ASSUME NEW t \in AllTasks, NEW i \in DOMAIN Program[t]
  PROVE  i \in Nat \ {0} /\ Fits(t, i, Program[t][i])
<1> USE StepsDo DEF Does, Fits, Own, Early, Late, Overrides
<1>1. CASE t = "gui_main_task"
  BY <1>1 DEF Program, my_gui_main_task
<1>2. CASE t = "hotplug_task"
  BY <1>2 DEF Program, my_hotplug_task
<1>3. CASE t = "dump_task"
  BY <1>3 DEF Program, dump_task
<1>4. CASE t = "movie_start"
  BY <1>4 DEF Program, movie_start
<1>5. CASE t = "menu_task"
  BY <1>5 DEF Program, menu_task
<1>6. CASE t = "focus_stack_task"
  BY <1>6 DEF Program, focus_stack_task
<1>7. CASE t = "focus_task"
  BY <1>7 DEF Program, focus_task
<1>8. CASE t = "dof_task"
  BY <1>8 DEF Program, lens_task
<1>9. CASE t = "spotmeter"
  BY <1>9 DEF Program, spotmeter_task
<1>10. CASE t = "meter_task"
  BY <1>10 DEF Program, meter_task
<1>11. CASE t = "audio_level_task"
  BY <1>11 DEF Program, compute_audio_level_task
<1>12. CASE t = "zebra_task"
  BY <1>12 DEF Program, zebra_task
<1>13. CASE t = "bracket_task"
  BY <1>13 DEF Program, bracket_task
<1>14. CASE t = "timecode"
  BY <1>14 DEF Program, tc_task
<1>15. CASE t = "sounddev_task"
  <2>1. Program[t] = my_sounddev_task
    BY <1>15 DEF Program
  <2>2. i \in 1..5
    BY <2>1 DEF my_sounddev_task
  <2>3. CASE i = 1
    BY <1>15, <2>1, <2>3 DEF my_sounddev_task
  <2>4. CASE i = 2
    BY <1>15, <2>1, <2>4 DEF my_sounddev_task
  <2>5. CASE i = 3
    BY <1>15, <2>1, <2>5 DEF my_sounddev_task
  <2>6. CASE i = 4
    BY <1>15, <2>1, <2>6 DEF my_sounddev_task
  <2>7. CASE i = 5
    BY <1>15, <2>1, <2>7 DEF my_sounddev_task
  <2> QED BY <2>2, <2>3, <2>4, <2>5, <2>6, <2>7
<1>16. t \in Overrides \cup (DOMAIN Program \ Overrides)
  BY BootAssumption DEF AllTasks
<1> QED BY <1>1, <1>2, <1>3, <1>4, <1>5, <1>6, <1>7, <1>8, <1>9, <1>10, <1>11, <1>12, <1>13, <1>14, <1>15, <1>16 DEF Program

(* The startup, step by step.                                              *)
LEMMA Joined ==
  ASSUME NEW S, NEW s \in Seq(S), NEW t \in Seq(S)
  PROVE  /\ s \o t \in Seq(S) /\ Len(s \o t) = Len(s) + Len(t)
         /\ \A k \in 1..Len(s) : (s \o t)[k] = s[k]
         /\ \A k \in 1..Len(t) : (s \o t)[Len(s) + k] = t[k]
  OBVIOUS

LEMMA StartupSteps ==
  /\ DOMAIN Startup = 1..11 /\ Booted = 12
  /\ Startup[1] = menu_init[1] /\ Startup[2] = debug_init[1] /\ Startup[3] = config[1]
  /\ Startup[4] = prop_init[1]
  /\ Startup[5] = bootflags_init[1] /\ Startup[6] = bootflags_init[2]
  /\ Startup[7] = focus_init[1] /\ Startup[8] = focus_init[2]
  /\ Startup[9] = lens_init[1]
  /\ Startup[10] = ptp_init[1] /\ Startup[11] = ptp_init[2]
<1> DEFINE S == {menu_init[1], debug_init[1], config[1], prop_init[1],
                  bootflags_init[1], bootflags_init[2], focus_init[1], focus_init[2],
                  lens_init[1], ptp_init[1], ptp_init[2]}
<1>1. /\ Len(menu_init) = 1 /\ Len(debug_init) = 1 /\ Len(config) = 1 /\ Len(prop_init) = 1
      /\ Len(bootflags_init) = 2 /\ Len(focus_init) = 2 /\ Len(lens_init) = 1 /\ Len(ptp_init) = 2
  BY DEF menu_init, debug_init, config, prop_init, bootflags_init, focus_init, lens_init, ptp_init
<1>2. /\ menu_init \in Seq(S) /\ debug_init \in Seq(S) /\ config \in Seq(S) /\ prop_init \in Seq(S)
  <2>1. \A x \in S : <<x>> \in Seq(S)
    <3> HIDE DEF S
    <3> QED OBVIOUS
  <2>2. menu_init = <<menu_init[1]>> /\ debug_init = <<debug_init[1]>> /\ config = <<config[1]>> /\ prop_init = <<prop_init[1]>>
    BY DEF menu_init, debug_init, config, prop_init
  <2> QED BY <2>1, <2>2
<1>3. /\ bootflags_init \in Seq(S) /\ focus_init \in Seq(S) /\ lens_init \in Seq(S) /\ ptp_init \in Seq(S)
  <2>1. \A x, y \in S : <<x>> \in Seq(S) /\ <<x, y>> \in Seq(S)
    <3> HIDE DEF S
    <3> QED OBVIOUS
  <2>2. bootflags_init = <<bootflags_init[1], bootflags_init[2]>> /\ focus_init = <<focus_init[1], focus_init[2]>> /\ lens_init = <<lens_init[1]>> /\ ptp_init = <<ptp_init[1], ptp_init[2]>>
    BY DEF bootflags_init, focus_init, lens_init, ptp_init
  <2> QED BY <2>1, <2>2
<1> HIDE DEF S
<1> DEFINE c1 == prop_init \o bootflags_init
           c2 == c1 \o focus_init
           c3 == c2 \o lens_init
           c4 == c3 \o ptp_init
           s1 == menu_init \o debug_init
           s2 == s1 \o config
           s3 == s2 \o c4
<1>4. c4 = call_init_funcs /\ s3 = Startup
  BY DEF call_init_funcs, Startup
<1> HIDE DEF c1, c2, c3, c4, s1, s2, s3
<1>5. /\ c1 \in Seq(S) /\ Len(c1) = 3
      /\ c1[1] = prop_init[1]
      /\ c1[2] = bootflags_init[1]
      /\ c1[3] = bootflags_init[2]
  <2>0. prop_init \in Seq(S) /\ bootflags_init \in Seq(S)
    BY <1>2, <1>3
  <2>1. /\ c1 \in Seq(S) /\ Len(c1) = Len(prop_init) + Len(bootflags_init)
        /\ \A k \in 1..Len(prop_init) : c1[k] = prop_init[k]
        /\ \A k \in 1..Len(bootflags_init) : c1[Len(prop_init) + k] = bootflags_init[k]
    BY <2>0, Joined DEF c1
  <2>2. c1[1 + 1] = bootflags_init[1] /\ c1[1 + 2] = bootflags_init[2]
    BY <1>1, <1>2, <1>3, <2>1
  <2> QED BY <1>1, <1>2, <1>3, <2>1, <2>2
<1>6. /\ c2 \in Seq(S) /\ Len(c2) = 5
      /\ c2[1] = prop_init[1]
      /\ c2[2] = bootflags_init[1]
      /\ c2[3] = bootflags_init[2]
      /\ c2[4] = focus_init[1]
      /\ c2[5] = focus_init[2]
  <2>0. c1 \in Seq(S) /\ focus_init \in Seq(S)
    BY <1>5, <1>3
  <2>1. /\ c2 \in Seq(S) /\ Len(c2) = Len(c1) + Len(focus_init)
        /\ \A k \in 1..Len(c1) : c2[k] = c1[k]
        /\ \A k \in 1..Len(focus_init) : c2[Len(c1) + k] = focus_init[k]
    BY <2>0, Joined DEF c2
  <2>2. c2[3 + 1] = focus_init[1] /\ c2[3 + 2] = focus_init[2]
    BY <1>1, <1>5, <1>3, <2>1
  <2> QED BY <1>1, <1>5, <1>3, <2>1, <2>2
<1>7. /\ c3 \in Seq(S) /\ Len(c3) = 6
      /\ c3[1] = prop_init[1]
      /\ c3[2] = bootflags_init[1]
      /\ c3[3] = bootflags_init[2]
      /\ c3[4] = focus_init[1]
      /\ c3[5] = focus_init[2]
      /\ c3[6] = lens_init[1]
  <2>0. c2 \in Seq(S) /\ lens_init \in Seq(S)
    BY <1>6, <1>3
  <2>1. /\ c3 \in Seq(S) /\ Len(c3) = Len(c2) + Len(lens_init)
        /\ \A k \in 1..Len(c2) : c3[k] = c2[k]
        /\ \A k \in 1..Len(lens_init) : c3[Len(c2) + k] = lens_init[k]
    BY <2>0, Joined DEF c3
  <2>2. c3[5 + 1] = lens_init[1]
    BY <1>1, <1>6, <1>3, <2>1
  <2> QED BY <1>1, <1>6, <1>3, <2>1, <2>2
<1>8. /\ c4 \in Seq(S) /\ Len(c4) = 8
      /\ c4[1] = prop_init[1]
      /\ c4[2] = bootflags_init[1]
      /\ c4[3] = bootflags_init[2]
      /\ c4[4] = focus_init[1]
      /\ c4[5] = focus_init[2]
      /\ c4[6] = lens_init[1]
      /\ c4[7] = ptp_init[1]
      /\ c4[8] = ptp_init[2]
  <2>0. c3 \in Seq(S) /\ ptp_init \in Seq(S)
    BY <1>7, <1>3
  <2>1. /\ c4 \in Seq(S) /\ Len(c4) = Len(c3) + Len(ptp_init)
        /\ \A k \in 1..Len(c3) : c4[k] = c3[k]
        /\ \A k \in 1..Len(ptp_init) : c4[Len(c3) + k] = ptp_init[k]
    BY <2>0, Joined DEF c4
  <2>2. c4[6 + 1] = ptp_init[1] /\ c4[6 + 2] = ptp_init[2]
    BY <1>1, <1>7, <1>3, <2>1
  <2> QED BY <1>1, <1>7, <1>3, <2>1, <2>2
<1>9. /\ s1 \in Seq(S) /\ Len(s1) = 2
      /\ s1[1] = menu_init[1]
      /\ s1[2] = debug_init[1]
  <2>0. menu_init \in Seq(S) /\ debug_init \in Seq(S)
    BY <1>2, <1>2
  <2>1. /\ s1 \in Seq(S) /\ Len(s1) = Len(menu_init) + Len(debug_init)
        /\ \A k \in 1..Len(menu_init) : s1[k] = menu_init[k]
        /\ \A k \in 1..Len(debug_init) : s1[Len(menu_init) + k] = debug_init[k]
    BY <2>0, Joined DEF s1
  <2>2. s1[1 + 1] = debug_init[1]
    BY <1>1, <1>2, <1>2, <2>1
  <2> QED BY <1>1, <1>2, <1>2, <2>1, <2>2
<1>10. /\ s2 \in Seq(S) /\ Len(s2) = 3
      /\ s2[1] = menu_init[1]
      /\ s2[2] = debug_init[1]
      /\ s2[3] = config[1]
  <2>0. s1 \in Seq(S) /\ config \in Seq(S)
    BY <1>9, <1>2
  <2>1. /\ s2 \in Seq(S) /\ Len(s2) = Len(s1) + Len(config)
        /\ \A k \in 1..Len(s1) : s2[k] = s1[k]
        /\ \A k \in 1..Len(config) : s2[Len(s1) + k] = config[k]
    BY <2>0, Joined DEF s2
  <2>2. s2[2 + 1] = config[1]
    BY <1>1, <1>9, <1>2, <2>1
  <2> QED BY <1>1, <1>9, <1>2, <2>1, <2>2
<1>11. /\ s3 \in Seq(S) /\ Len(s3) = 11
      /\ s3[1] = menu_init[1]
      /\ s3[2] = debug_init[1]
      /\ s3[3] = config[1]
      /\ s3[4] = prop_init[1]
      /\ s3[5] = bootflags_init[1]
      /\ s3[6] = bootflags_init[2]
      /\ s3[7] = focus_init[1]
      /\ s3[8] = focus_init[2]
      /\ s3[9] = lens_init[1]
      /\ s3[10] = ptp_init[1]
      /\ s3[11] = ptp_init[2]
  <2>0. s2 \in Seq(S) /\ c4 \in Seq(S)
    BY <1>10, <1>8
  <2>1. /\ s3 \in Seq(S) /\ Len(s3) = Len(s2) + Len(c4)
        /\ \A k \in 1..Len(s2) : s3[k] = s2[k]
        /\ \A k \in 1..Len(c4) : s3[Len(s2) + k] = c4[k]
    BY <2>0, Joined DEF s3
  <2>2. s3[3 + 1] = c4[1] /\ s3[3 + 2] = c4[2] /\ s3[3 + 3] = c4[3] /\ s3[3 + 4] = c4[4] /\ s3[3 + 5] = c4[5] /\ s3[3 + 6] = c4[6] /\ s3[3 + 7] = c4[7] /\ s3[3 + 8] = c4[8]
    BY <1>1, <1>10, <1>8, <2>1
  <2> QED BY <1>1, <1>10, <1>8, <2>1, <2>2
<1> QED BY <1>4, <1>11 DEF Booted

-----------------------------------------------------------------------------
(* The inductive invariant of the boot.                                    *)

(* What the startup has prepared.                                          *)
Prepared ==
  /\ pc \in [AllTasks -> Nat] /\ property \in 0..12
  /\ property > 1 => {"menu_sem", "gui_sem"} \subseteq semaphores
  /\ property > 7 => {"focus_stack_sem", "focus_task_sem"} \subseteq semaphores
  /\ property > 9 => Late \subseteq semaphores
  /\ property > 3 => parsed
  /\ "focus" \in menus => property > 8
  /\ \A p \in {"LV_LENS", "LV_FOCUS_DONE", "LAST_JOB_STATE"} : p \in handlers => property > 4
  /\ "PTP_9998" \in handlers => property > 10

(* What the tasks have.                                                    *)
Owned ==
  /\ \A t \in AllTasks : pc[t] > 1 => Own(t) \subseteq semaphores
  /\ "bracket" \in menus => "bracket_sem" \in semaphores
  /\ "timecode" \in menus => "timecode_sem" \in semaphores

(* What comes after the startup.                                           *)
After ==
  /\ \A t \in Built : pc[t] # 0 => property = 12
  /\ prompt /\ pc["sounddev_task"] > 2 => property = 12
  /\ prompt => menus = added /\ unparsed = {}
  /\ prompt /\ property <= 1 => added = {}

BInv == Prepared /\ Owned /\ After

(* What one step does.                                                     *)
LEMMA Performs ==
  ASSUME NEW s, Perform(s)
  PROVE  /\ menus' = (IF s.resets THEN {} ELSE menus) \cup s.adds
         /\ added' = added \cup s.adds /\ semaphores' = semaphores \cup s.creates
         /\ handlers' = handlers \cup s.registers
         /\ parsed' = (parsed \/ s.parses)
         /\ unparsed' = IF parsed THEN unparsed ELSE unparsed \cup s.reads
  BY DEF Perform

(* A task that Canon starts is none of the build's.                        *)
LEMMA Apart ==
  /\ Overrides \cap Built = {} /\ "sounddev_task" \in AllTasks
  /\ AllTasks = Overrides \cup Built
  BY BootAssumption DEF AllTasks, Overrides

(* Canon starts a task, or the property task does something else than the  *)
(* startup.                                                                *)
LEMMA CanonStarts ==
  ASSUME BInv, (\E t \in Overrides : my_task_dispatch_hook(t)) \/ my_init_task \/ ShutdownRequest
  PROVE  BInv'
<1>1. CASE \E t \in Overrides : my_task_dispatch_hook(t)
  <2>1. PICK t \in Overrides : my_task_dispatch_hook(t)
    BY <1>1
  <2>2. /\ pc' = [pc EXCEPT ![t] = 1] /\ property' = property /\ semaphores' = semaphores
        /\ handlers' = handlers /\ menus' = menus /\ added' = added /\ parsed' = parsed
        /\ unparsed' = unparsed /\ prompt' = prompt
    BY <2>1 DEF my_task_dispatch_hook, shared, canon
  <2>3. pc' \in [AllTasks -> Nat]
    BY <2>2 DEF BInv, Prepared
  <2>4. \A u \in AllTasks : pc'[u] = pc[u] \/ (u = t /\ pc'[u] = 1)
    BY <2>2 DEF BInv, Prepared
  <2>5. Prepared'
    BY <2>2, <2>3 DEF BInv, Prepared
  <2>6. Owned'
    BY <2>2, <2>4 DEF BInv, Owned
  <2>7. After'
    BY <2>2, <2>4, Apart DEF BInv, After
  <2> QED BY <2>5, <2>6, <2>7 DEF BInv
<1>2. CASE my_init_task
  <2>1. /\ pc' = pc /\ property' = property /\ semaphores' = semaphores /\ menus' = menus
        /\ added' = added /\ parsed' = parsed /\ unparsed' = unparsed /\ prompt' = prompt
        /\ handlers' = handlers \cup {"TERMINATE_SHUT_REQ"}
    BY <1>2 DEF my_init_task, canon
  <2>2. Prepared' /\ Owned' /\ After'
    BY <2>1 DEF BInv, Prepared, Owned, After
  <2> QED BY <2>2 DEF BInv
<1>3. CASE ShutdownRequest
  <2>1. /\ pc' = pc /\ property' = property /\ semaphores' = semaphores /\ menus' = menus
        /\ added' = added /\ parsed' = parsed /\ unparsed' = unparsed /\ prompt' = prompt
        /\ handlers' = handlers
    BY <1>3 DEF ShutdownRequest, shared, canon
  <2>2. Prepared' /\ Owned' /\ After'
    BY <2>1 DEF BInv, Prepared, Owned, After
  <2> QED BY <2>2 DEF BInv
<1> QED BY <1>1, <1>2, <1>3

(* The display is turned on: the startup begins.                           *)
LEMMA BeginStep == ASSUME BInv, TurnOnDisplay PROVE BInv'
<1>1. /\ pc' = pc /\ property = 0 /\ property' = 1 /\ semaphores' = semaphores
      /\ menus' = menus /\ added' = added /\ parsed' = parsed /\ unparsed' = unparsed
      /\ prompt' = prompt /\ handlers' = handlers
  BY DEF TurnOnDisplay, shared, canon
<1>2. Prepared'
  BY <1>1 DEF BInv, Prepared
<1>3. Owned'
  BY <1>1 DEF BInv, Owned
<1>4. After'
  BY <1>1 DEF BInv, After
<1> QED BY <1>2, <1>3, <1>4 DEF BInv

(* What the p-th step of the startup does.                                 *)
StartFits(p, s) ==
  /\ s.resets <=> p = 1
  /\ s.parses <=> p = 3
  /\ p = 1 => {"menu_sem", "gui_sem"} \subseteq s.creates
  /\ p = 7 => {"focus_stack_sem", "focus_task_sem"} \subseteq s.creates
  /\ p = 9 => Late \subseteq s.creates
  /\ p \in 1..3 => s.reads = {}
  /\ p = 1 => s.adds = {}
  /\ "focus" \in s.adds => p = 8
  /\ "bracket" \notin s.adds /\ "timecode" \notin s.adds
  /\ s.registers # {} => p \in {4, 10}
  /\ "PTP_9998" \in s.registers => p = 10

LEMMA StartupFits ==
  ASSUME NEW p \in 1..11 PROVE StartFits(p, Startup[p])
<1>1. StartFits(1, Startup[1])
  <2> DEFINE s == Startup[1]
  <2>1. /\ s.resets /\ ~s.parses /\ s.creates = {"menu_sem", "gui_sem"}
        /\ s.adds = {} /\ s.reads = {} /\ s.registers = {}
    BY StartupSteps DEF menu_init, Step
  <2> QED BY <2>1 DEF StartFits
<1>2. StartFits(2, Startup[2])
  BY StartupSteps, StepsDo DEF StartFits, debug_init, Does, Late
<1>3. StartFits(3, Startup[3])
  BY StartupSteps DEF StartFits, config, Step, Late
<1>4. StartFits(4, Startup[4])
  BY StartupSteps DEF StartFits, prop_init, Step, Late
<1>5. StartFits(5, Startup[5])
  BY StartupSteps, StepsDo DEF StartFits, bootflags_init, Does, Late
<1>6. StartFits(6, Startup[6])
  BY StartupSteps, StepsDo DEF StartFits, bootflags_init, Does, Late
<1>7. StartFits(7, Startup[7])
  BY StartupSteps, StepsDo DEF StartFits, focus_init, Does, Late
<1>8. StartFits(8, Startup[8])
  BY StartupSteps, StepsDo DEF StartFits, focus_init, Does, Late
<1>9. StartFits(9, Startup[9])
  BY StartupSteps, StepsDo DEF StartFits, lens_init, Does, Late
<1>10. StartFits(10, Startup[10])
  BY StartupSteps DEF StartFits, ptp_init, Step, Late
<1>11. StartFits(11, Startup[11])
  BY StartupSteps, StepsDo DEF StartFits, ptp_init, Does, Late
<1> HIDE DEF StartFits
<1> QED BY <1>1, <1>2, <1>3, <1>4, <1>5, <1>6, <1>7, <1>8, <1>9, <1>10, <1>11

(* The startup does its next step.                                         *)
LEMMA StartupStep == ASSUME BInv, prop_startup_handler PROVE BInv'
<1> DEFINE s == Startup[property]
<1>1. /\ Perform(s) /\ property' = property + 1 /\ pc' = pc /\ prompt' = prompt
      /\ property \in 1..11
  BY StartupSteps DEF prop_startup_handler, canon
<1>2. StartFits(property, s)
  BY <1>1, StartupFits
<1> HIDE DEF s
<1>3. /\ menus' = (IF s.resets THEN {} ELSE menus) \cup s.adds
      /\ added' = added \cup s.adds /\ semaphores' = semaphores \cup s.creates
      /\ handlers' = handlers \cup s.registers
      /\ parsed' = (parsed \/ s.parses)
      /\ unparsed' = IF parsed THEN unparsed ELSE unparsed \cup s.reads
  BY <1>1, Performs
<1>4. Prepared'
  <2>1. pc' \in [AllTasks -> Nat] /\ property' \in 0..12
    BY <1>1 DEF BInv, Prepared
  <2>2. /\ property' > 1 => {"menu_sem", "gui_sem"} \subseteq semaphores'
        /\ property' > 7 => {"focus_stack_sem", "focus_task_sem"} \subseteq semaphores'
        /\ property' > 9 => Late \subseteq semaphores'
    BY <1>1, <1>2, <1>3 DEF BInv, Prepared, StartFits
  <2>3. property' > 3 => parsed'
    <3>1. property' > 3 => parsed \/ s.parses
      BY <1>1, <1>2 DEF BInv, Prepared, StartFits
    <3> QED BY <1>3, <3>1
  <2>4. "focus" \in menus' => property' > 8
    BY <1>1, <1>2, <1>3 DEF BInv, Prepared, StartFits
  <2>5. /\ \A p \in {"LV_LENS", "LV_FOCUS_DONE", "LAST_JOB_STATE"} :
             p \in handlers' => property' > 4
        /\ "PTP_9998" \in handlers' => property' > 10
    BY <1>1, <1>2, <1>3 DEF BInv, Prepared, StartFits
  <2> QED BY <2>1, <2>2, <2>3, <2>4, <2>5 DEF Prepared
<1>5. Owned'
  BY <1>1, <1>2, <1>3 DEF BInv, Owned, StartFits
<1>6. After'
  BY <1>1, <1>2, <1>3, Apart DEF BInv, After, Prepared, StartFits
<1> QED BY <1>4, <1>5, <1>6 DEF BInv

(* It creates the next task.                                               *)
LEMMA CreateStep == ASSUME BInv, task_create PROVE BInv'
<1>1. PICK t : pc' = [pc EXCEPT ![t] = 1]
  BY DEF task_create
<1>2. /\ property = 12 /\ property' = property /\ semaphores' = semaphores
      /\ handlers' = handlers /\ menus' = menus /\ added' = added /\ parsed' = parsed
      /\ unparsed' = unparsed /\ prompt' = prompt
  BY StartupSteps DEF task_create, shared, canon
<1>3. pc' \in [AllTasks -> Nat]
  BY <1>1 DEF BInv, Prepared
<1>4. \A u \in AllTasks : pc'[u] = pc[u] \/ pc'[u] = 1
  BY <1>1 DEF BInv, Prepared
<1>5. Prepared'
  BY <1>2, <1>3 DEF BInv, Prepared
<1>6. Owned'
  BY <1>2, <1>4 DEF BInv, Owned
<1>7. After'
  BY <1>2 DEF BInv, After
<1> QED BY <1>5, <1>6, <1>7 DEF BInv

(* A task does its next step.                                              *)
LEMMA TasksStep == ASSUME BInv, NEW t \in AllTasks, TaskStep(t) PROVE BInv'
<1> DEFINE i == pc[t]
           s == Program[t][i]
<1>1. /\ i \in DOMAIN Program[t] /\ Perform(s) /\ pc' = [pc EXCEPT ![t] = i + 1]
      /\ property' = property /\ prompt' = prompt
      /\ s.waits = "startup" /\ prompt => property = 12
  BY StartupSteps DEF TaskStep, At, canon
<1>2. i \in Nat \ {0} /\ Fits(t, i, s)
  BY <1>1, ProgramSteps
<1> HIDE DEF s
<1>3. /\ menus' = menus \cup s.adds
      /\ added' = added \cup s.adds /\ semaphores' = semaphores \cup s.creates
      /\ handlers' = handlers /\ (parsed' <=> parsed)
      /\ unparsed' = IF parsed THEN unparsed ELSE unparsed \cup s.reads
  <2>1. ~s.resets /\ ~s.parses /\ s.registers = {}
    BY <1>2 DEF Fits
  <2>2. /\ menus' = (IF s.resets THEN {} ELSE menus) \cup s.adds
        /\ added' = added \cup s.adds /\ semaphores' = semaphores \cup s.creates
        /\ handlers' = handlers \cup s.registers
        /\ parsed' = (parsed \/ s.parses)
        /\ unparsed' = IF parsed THEN unparsed ELSE unparsed \cup s.reads
    BY <1>1, Performs
  <2> QED BY <2>1, <2>2
<1>4. /\ pc' \in [AllTasks -> Nat] /\ pc'[t] = i + 1
      /\ \A u \in AllTasks : u # t => pc'[u] = pc[u]
  BY <1>1, <1>2 DEF BInv, Prepared
<1>5. Prepared'
  BY <1>1, <1>2, <1>3, <1>4 DEF BInv, Prepared, Fits
<1>6. pc'[t] > 1 => Own(t) \subseteq semaphores'
  BY <1>2, <1>3, <1>4 DEF BInv, Owned, Fits
<1>7. \A u \in AllTasks : pc'[u] > 1 => Own(u) \subseteq semaphores'
  BY <1>3, <1>4, <1>6 DEF BInv, Owned
<1>8. /\ "bracket" \in s.adds => "bracket_sem" \in semaphores
      /\ "timecode" \in s.adds => "timecode_sem" \in semaphores
  BY <1>2 DEF BInv, Owned, Fits, Own
<1>9. Owned'
  BY <1>3, <1>7, <1>8 DEF BInv, Owned
<1>10. prompt /\ property # 12 => s.adds = {} /\ s.reads = {}
  BY <1>2, Apart DEF BInv, After, Fits
<1>11. \A u \in Built : pc'[u] # 0 => property = 12
  BY <1>2, <1>4, Apart DEF BInv, After
<1>12. prompt /\ pc'["sounddev_task"] > 2 => property = 12
  BY <1>1, <1>2, <1>4, Apart DEF BInv, After, Fits
<1>13. prompt => unparsed' = {}
  BY <1>3, <1>10 DEF BInv, After, Prepared
<1>14. After'
  BY <1>1, <1>3, <1>10, <1>11, <1>12, <1>13 DEF BInv, After
<1> QED BY <1>5, <1>9, <1>14 DEF BInv

(* An inner loop of a task touches nothing of this.                        *)
LEMMA InnerStep == ASSUME BInv, NEW t, Inner(t) PROVE BInv'
<1>1. UNCHANGED <<pc, property, starting, shared, prompt>>
  BY DEF Inner, EnterInner, LeaveInner, canon
<1> QED BY <1>1 DEF shared, BInv, Prepared, Owned, After

(* At power-up nothing runs.                                               *)
LEMMA BInitHolds == SysInit => BInv
<1> SUFFICES ASSUME Init PROVE BInv
  BY DEF SysInit
<1>1. Prepared /\ Owned
  BY DEF Init, Prepared, Owned
<1>2. After
  BY Apart DEF Init, After
<1> QED BY <1>1, <1>2 DEF BInv

(* What leaves the boot's variables alone leaves the invariant.            *)
LEMMA BootUnchanged == ASSUME BInv, UNCHANGED vars PROVE BInv'
  BY DEF vars, shared, canon, BInv, Prepared, Owned, After

(* Every step keeps it.                                                    *)
LEMMA BStepKeeps == BInv /\ [SysNext]_all => BInv'
<1> SUFFICES ASSUME BInv, [SysNext]_all PROVE BInv'
  OBVIOUS
<1>1. CASE UNCHANGED all
  BY <1>1, BootUnchanged DEF all
<1>2. CASE Boots(Next)
  BY <1>2, CanonStarts, BeginStep, StartupStep, CreateStep, TasksStep, InnerStep DEF Boots, Next
<1>3. CASE Gui(G!Next) \/ Serve
  BY <1>3, BootUnchanged DEF Gui, Serve
<1> QED BY <1>1, <1>2, <1>3 DEF SysNext

(* Whatever may run finds every semaphore it takes or gives, no menu entry *)
(* is lost, and what is looked at once comes after the configuration file: *)
(* for any selection of the tasks, with the reservations that BootOrdered  *)
(* makes about Canon's timing.                                             *)
THEOREM BootIsOrdered == SysSpec => []BootOrdered
<1>1. BInv => SemaphoresExist
  <2> SUFFICES ASSUME BInv PROVE SemaphoresExist
    OBVIOUS
  <2>1. property = 12 => Early \cup Late \subseteq semaphores
    BY DEF BInv, Prepared, Early
  <2>2. ASSUME NEW t \in AllTasks, pc[t] \in DOMAIN Program[t],
               t \in Overrides => prompt, t = "gui_main_task" => property = Booted
        PROVE  At(t).uses \subseteq semaphores
    <3> DEFINE s == Program[t][pc[t]]
    <3>1. pc[t] \in Nat \ {0} /\ Fits(t, pc[t], s)
      BY <2>2, ProgramSteps
    <3> HIDE DEF s
    <3>2. s.uses # {} => property = 12
      BY <2>2, <3>1, Apart, StartupSteps DEF BInv, After, Fits
    <3>3. s.uses \subseteq semaphores
      BY <2>1, <3>1, <3>2 DEF BInv, Owned, Fits
    <3> QED BY <3>3 DEF At, s
  <2>3. ASSUME NEW p \in handlers, p # "PTP_9998" => Idle,
               p = "MVR_REC_START" => prompt /\ pc["sounddev_task"] > 1
        PROVE  HandlerUses(p) \subseteq semaphores
    <3>1. CASE p \in {"LV_LENS", "LV_FOCUS_DONE", "LAST_JOB_STATE"}
      <4>1. property = 12
        BY <2>3, <3>1, StartupSteps DEF BInv, Prepared, Idle
      <4> QED BY <2>1, <3>1, <4>1 DEF HandlerUses, Late
    <3>2. CASE p = "MVR_REC_START"
      BY <2>3, <3>2, Apart DEF BInv, Owned, Own, HandlerUses
    <3>3. CASE p = "PTP_9998"
      BY <2>3, <3>3 DEF BInv, Prepared, HandlerUses, Late
    <3>4. CASE p \notin {"LV_LENS", "LV_FOCUS_DONE", "LAST_JOB_STATE", "MVR_REC_START", "PTP_9998"}
      BY <3>4 DEF HandlerUses
    <3> QED BY <3>1, <3>2, <3>3, <3>4
  <2>4. ASSUME NEW who \in menus PROVE SelectUses(who) \subseteq semaphores
    BY <2>4 DEF BInv, Prepared, Owned, SelectUses
  <2> QED BY <2>2, <2>3, <2>4 DEF SemaphoresExist
<1>2. BInv => MenusComplete /\ ConfigFirst
  BY DEF BInv, After, MenusComplete, ConfigFirst
<1>3. BInv => BootOrdered
  BY <1>1, <1>2 DEF BootOrdered
<1> QED BY <1>3, BInitHolds, BStepKeeps, PTL DEF SysSpec

-----------------------------------------------------------------------------
(* The inductive invariant of the GUI task.                                *)

IsCancel(e) == e.kind = G!CANCEL_ALL_EVENT

Types ==
  /\ queue \in Seq(G!Events)
  /\ event \in G!Events \cup {None}
  /\ cancel \in G!Cancellations \cup {None}
  /\ event # None <=> gpc \in {"switch", "deliver", "load", "store"}
  /\ late \in Nat

(* Canon's counter, until it is changed under the task's hands. *)
Counted ==
  /\ Len(queue) <= MaxQueue + 1
  /\ ~raced => /\ counter = Len(queue) + Len(G!Held)
               /\ gpc = "store" => count = counter

(* The owner the task compares with when it has read all there is. *)
Final(o) ==
  \/ \E k \in 1..Len(queue) : /\ IsCancel(queue[k]) /\ queue[k].obj = o
                              /\ \A j \in 1..Len(queue) : j > k => ~IsCancel(queue[j])
  \/ /\ \A k \in 1..Len(queue) : ~IsCancel(queue[k])
     /\ IF gpc = "switch" /\ IsCancel(event) THEN event.obj = o ELSE obj = o

(* It is the one that the last cancellation has set, or will. *)
Owners ==
  /\ cancel = None => Final(mainObj)
  /\ cancel # None /\ cancel.done = "post" => Final(cancel.obj)
  /\ cancel # None /\ cancel.done = "set" => mainObj = cancel.obj

(* What was posted after the last cancellation is behind its event. *)
Untouched ==
  /\ cancel # None => /\ \A k \in 1..Len(queue) : queue[k].touched
                      /\ event # None => event.touched
  /\ \A j, k \in 1..Len(queue) : j < k /\ ~queue[j].touched => ~IsCancel(queue[k])
  /\ gpc = "switch" /\ ~event.touched =>
       ~IsCancel(event) /\ \A k \in 1..Len(queue) : ~IsCancel(queue[k])
  /\ \A k \in 1..Len(queue) : IsCancel(queue[k]) => queue[k].touched

(* What was posted before it meets another owner. *)
Owner == IF cancel = None THEN mainObj ELSE cancel.obj
Stale ==
  ~again =>
    /\ gpc = "switch" /\ event.stale => obj # Owner
    /\ (\E k \in 1..Len(queue) : queue[k].stale) => obj # Owner
    /\ gpc = "switch" /\ IsCancel(event) /\ (\E k \in 1..Len(queue) : queue[k].stale)
         => event.obj # Owner
    /\ \A j, k \in 1..Len(queue) : j < k /\ queue[k].stale /\ IsCancel(queue[j])
         => queue[j].obj # Owner

(* The stale event that had been compared before the cancellation began.   *)
Slipping == gpc = "deliver" /\ event.stale /\ G!MayDrop(event.kind)
Few ==
  /\ cancel # None => late = 0
  /\ ~again /\ cancel = None => late <= 1 /\ (Slipping => late = 0)

GInv == Types /\ Counted /\ Owners /\ Untouched /\ Stale /\ Few /\ ~lost

-----------------------------------------------------------------------------
(* Sequences *)

(* What is smaller than the modulus stays as it is.                        *)
LEMMA Modulo == ASSUME NEW W \in Nat, NEW a \in Nat, a < W PROVE a % W = a
  OBVIOUS

(* A queue with one more event.                                            *)
LEMMA Appended ==
  ASSUME NEW S, NEW s \in Seq(S), NEW e \in S, NEW q, q = Append(s, e)
  PROVE  /\ q \in Seq(S) /\ Len(q) = Len(s) + 1
         /\ \A k \in 1..Len(s) : q[k] = s[k]
         /\ q[Len(s) + 1] = e
  OBVIOUS

(* A queue without its first event.                                        *)
LEMMA Tailed ==
  ASSUME NEW S, NEW s \in Seq(S), s # <<>>, NEW q, q = Tail(s)
  PROVE  /\ q \in Seq(S) /\ Len(q) = Len(s) - 1 /\ Len(s) \in Nat \ {0}
         /\ \A k \in 1..Len(q) : q[k] = s[k + 1] /\ k + 1 \in 1..Len(s)
         /\ Head(s) = s[1] /\ s[1] \in S /\ 1 \in 1..Len(s)
  OBVIOUS

(* A queue each of whose events is changed.                                *)
LEMMA Mapped ==
  ASSUME NEW S, NEW T, NEW s \in Seq(S), NEW f(_), \A x \in S : f(x) \in T,
         NEW q, q = [k \in DOMAIN s |-> f(s[k])]
  PROVE  q \in Seq(T) /\ Len(q) = Len(s) /\ \A k \in 1..Len(s) : q[k] = f(s[k])
  OBVIOUS

(* A cancellation leaves an event what it is, and marks it.                *)
LEMMA Marked ==
  ASSUME NEW e \in G!Events, NEW b \in BOOLEAN, NEW f, f = G!Cancelled(e, b)
  PROVE  /\ f \in G!Events /\ f.kind = e.kind /\ f.obj = e.obj /\ f.touched
         /\ f.stale <=> (e.stale \/ b)
  BY DEF G!Events, G!Cancelled

(* What the assumption says of the numbers and of None.                    *)
LEMMA Assumed ==
  /\ MaxQueue \in Nat /\ 2^Width \in Nat /\ 2^Width > MaxQueue + 2
  /\ None \notin G!Events /\ None \notin G!Cancellations
  /\ G!CANCEL_ALL_EVENT \notin Kinds
  BY SystemAssumption DEF G!GuiAssumption

(* The counter's arithmetic, as long as it counts what can wait.           *)
LEMMA Increased ==
  ASSUME NEW a \in Nat, a <= MaxQueue + 1
  PROVE  (a + 1) % 2^Width = a + 1
<1>1. PICK W : W = 2^Width
  OBVIOUS
<1>2. W \in Nat /\ MaxQueue \in Nat /\ a + 1 < W /\ a + 1 \in Nat
  BY <1>1, Assumed
<1>3. (a + 1) % W = a + 1
  BY <1>2, Modulo
<1> QED BY <1>1, <1>3

LEMMA Decreased ==
  ASSUME NEW a \in Nat \ {0}, a <= MaxQueue + 2
  PROVE  (a - 1) % 2^Width = a - 1
<1>1. PICK W : W = 2^Width
  OBVIOUS
<1>2. W \in Nat /\ MaxQueue \in Nat /\ a - 1 < W /\ a - 1 \in Nat
  BY <1>1, Assumed
<1>3. (a - 1) % W = a - 1
  BY <1>2, Modulo
<1> QED BY <1>1, <1>3

(* Their number.                                                           *)
LEMMA Bounded == MaxQueue \in Nat
  BY Assumed

(* An event that is posted is none of a cancellation's.                    *)
LEMMA Posted ==
  ASSUME NEW kind \in Kinds, NEW e, e = G!Event(kind)
  PROVE  /\ e \in G!Events /\ ~IsCancel(e) /\ ~e.stale
         /\ e.touched <=> cancel # None
  BY Assumed DEF G!Events, G!Event, IsCancel

-----------------------------------------------------------------------------
(* Canon posts an event.                                                   *)
LEMMA PostStep == ASSUME GInv, NEW kind \in Kinds, G!Post(kind) PROVE GInv'
<1> DEFINE e == G!Event(kind)
           n == Len(queue)
<1>1. /\ n < MaxQueue /\ queue' = Append(queue, e)
      /\ counter' = (counter + 1) % 2^Width
      /\ raced' = (raced \/ gpc = "store")
      /\ mainObj' = mainObj /\ cancel' = cancel /\ gpc' = gpc /\ event' = event
      /\ obj' = obj /\ count' = count /\ late' = late /\ again' = again /\ lost' = lost
  BY DEF G!Post, G!Enqueue, G!task
<1>2. e \in G!Events /\ ~IsCancel(e) /\ ~e.stale /\ (e.touched <=> cancel # None)
  BY Posted
<1>3. queue \in Seq(G!Events) /\ n \in Nat
  BY DEF GInv, Types
<1> HIDE DEF e
<1>4. /\ queue' \in Seq(G!Events) /\ Len(queue') = n + 1
      /\ \A k \in 1..n : queue'[k] = queue[k]
      /\ queue'[n + 1] = e
  BY <1>1, <1>2, <1>3, Appended
<1>5. Types'
  BY <1>1, <1>4 DEF GInv, Types
<1>6. Counted'
  <2>1. ASSUME ~raced' PROVE counter' = Len(queue') + Len(G!Held)' /\ gpc # "store"
    <3>1. counter = n + Len(G!Held) /\ gpc # "store"
      BY <1>1, <2>1 DEF GInv, Counted
    <3>2. Len(G!Held) \in 0..1 /\ Len(G!Held)' = Len(G!Held)
      BY <1>1 DEF G!Held
    <3>3. (counter + 1) % 2^Width = counter + 1
      <4>1. counter \in Nat /\ counter <= MaxQueue + 1
        <5>1. Len(G!Held) \in 0..1 /\ counter = n + Len(G!Held) /\ n < MaxQueue /\ n \in Nat
          BY <1>1, <1>3, <3>1, <3>2
        <5>2. MaxQueue \in Nat
          BY Bounded
        <5>3. PICK held : held = Len(G!Held)
          OBVIOUS
        <5>4. held \in 0..1 /\ counter = n + held /\ n < MaxQueue /\ n \in Nat
          BY <5>1, <5>3, Zenon
        <5> HIDE DEF n
        <5> QED BY ONLY <5>2, <5>4
      <4> QED BY <4>1, Increased
    <3> QED BY <1>1, <1>3, <1>4, <3>1, <3>2, <3>3
  <2> QED BY <1>1, <1>3, <1>4, <2>1, Assumed DEF Counted
<1>7. \A o : Final(o) => Final(o)'
  BY <1>1, <1>2, <1>3, <1>4 DEF Final, IsCancel
<1>8. Owners'
  BY <1>1, <1>7 DEF GInv, Owners
<1>9. Untouched'
  BY <1>1, <1>2, <1>3, <1>4 DEF GInv, Untouched, IsCancel
<1>10. Stale'
  BY <1>1, <1>2, <1>3, <1>4 DEF GInv, Stale, Owner, IsCancel
<1>11. Few' /\ ~lost'
  BY <1>1 DEF GInv, Few, Slipping
<1> QED BY <1>5, <1>6, <1>8, <1>9, <1>10, <1>11 DEF GInv

(* What either half of a cancellation does to the events.                  *)
LEMMA Halved ==
  ASSUME GInv, NEW o \in Objs, NEW half \in G!Halves, G!CancelHalf(o, half)
  PROVE  /\ IF half = "set" THEN Len(queue') = Len(queue)
            ELSE /\ Len(queue') = Len(queue) + 1
                 /\ LET c == queue'[Len(queue) + 1]
                    IN IsCancel(c) /\ c.obj = o /\ ~c.stale /\ c.touched
         /\ \A k \in 1..Len(queue) :
              /\ queue'[k].kind = queue[k].kind /\ queue'[k].obj = queue[k].obj
              /\ queue'[k].touched
              /\ queue'[k].stale <=> (queue[k].stale \/ cancel = None)
         /\ queue' \in Seq(G!Events) /\ event' \in G!Events \cup {None}
         /\ event' = None <=> event = None
         /\ event # None =>
              /\ event'.kind = event.kind /\ event'.obj = event.obj
              /\ event'.touched
              /\ event'.stale <=> (event.stale \/ cancel = None)
<1> DEFINE begins == cancel = None
           q == [k \in DOMAIN queue |-> G!Cancelled(queue[k], begins)]
           n == Len(queue)
           c == [kind |-> G!CANCEL_ALL_EVENT, obj |-> o, stale |-> FALSE, touched |-> TRUE]
<1>1. /\ event' = IF event = None THEN None ELSE G!Cancelled(event, begins)
      /\ queue' = IF half = "set" THEN q ELSE Append(q, c)
  BY DEF G!CancelHalf
<1>2. queue \in Seq(G!Events) /\ n \in Nat /\ event \in G!Events \cup {None}
  BY DEF GInv, Types
<1>3. begins \in BOOLEAN
  OBVIOUS
<1> HIDE DEF begins
<1>4. \A x \in G!Events : G!Cancelled(x, begins) \in G!Events
  BY <1>3, Marked
<1>5. /\ q \in Seq(G!Events) /\ Len(q) = n
      /\ \A k \in 1..n : q[k] = G!Cancelled(queue[k], begins)
  <2> DEFINE f(x) == G!Cancelled(x, begins)
  <2>1. \A x \in G!Events : f(x) \in G!Events
    BY <1>4
  <2>2. q = [k \in DOMAIN queue |-> f(queue[k])]
    OBVIOUS
  <2> HIDE DEF f, q
  <2>3. q \in Seq(G!Events) /\ Len(q) = n /\ \A k \in 1..n : q[k] = f(queue[k])
    BY <1>2, <2>1, <2>2, Mapped
  <2> QED BY <2>3 DEF f
<1> HIDE DEF q
<1>6. \A k \in 1..n : /\ q[k].kind = queue[k].kind /\ q[k].obj = queue[k].obj
                      /\ q[k].touched
                      /\ q[k].stale <=> (queue[k].stale \/ begins)
  <2> TAKE k \in 1..n
  <2>1. queue[k] \in G!Events
    BY <1>2
  <2> QED BY <1>3, <1>5, <2>1, Marked
<1>7. c \in G!Events
  BY DEF G!Events
<1>8. CASE half = "set"
  <2>1. queue' = q
    BY <1>1, <1>8
  <2>2. event' \in G!Events \cup {None} /\ (event' = None <=> event = None)
    BY <1>1, <1>2, <1>4, Assumed
  <2>3. event # None => /\ event'.kind = event.kind /\ event'.obj = event.obj
                        /\ event'.touched
                        /\ event'.stale <=> (event.stale \/ begins)
    BY <1>1, <1>2, <1>3, Marked
  <2> QED BY <1>5, <1>6, <1>8, <2>1, <2>2, <2>3 DEF begins
<1>9. CASE half = "post"
  <2> HIDE DEF c
  <2>1. /\ queue' \in Seq(G!Events) /\ Len(queue') = n + 1
        /\ \A k \in 1..n : queue'[k] = q[k]
        /\ queue'[n + 1] = c
    BY <1>1, <1>5, <1>7, <1>9, Appended
  <2>2. event' \in G!Events \cup {None} /\ (event' = None <=> event = None)
    BY <1>1, <1>2, <1>4, Assumed
  <2>3. event # None => /\ event'.kind = event.kind /\ event'.obj = event.obj
                        /\ event'.touched
                        /\ event'.stale <=> (event.stale \/ begins)
    BY <1>1, <1>2, <1>3, Marked
  <2>4. IsCancel(c) /\ c.obj = o /\ ~c.stale /\ c.touched
    BY DEF c, IsCancel
  <2> QED BY <1>6, <1>9, <2>1, <2>2, <2>3, <2>4 DEF begins
<1> QED BY <1>8, <1>9 DEF G!Halves

(* An owner that is not in use owns no event.                              *)
LEMMA Unused ==
  ASSUME GInv, NEW o, o \notin G!InUse
  PROVE  /\ o # obj /\ o # mainObj
         /\ event # None => event.obj # o
         /\ \A k \in 1..Len(queue) : queue[k].obj # o
<1>1. queue \in Seq(G!Events)
  BY DEF GInv, Types
<1>2. DOMAIN queue = 1..Len(queue)
  BY <1>1
<1> QED BY <1>2 DEF G!InUse

(* Canon does one half of a cancellation.                                  *)
LEMMA CancelStep ==
  ASSUME GInv, NEW o \in Objs, NEW half \in G!Halves, G!CancelHalf(o, half)
  PROVE  GInv'
<1> DEFINE n == Len(queue)
<1>1. /\ cancel = None \/ (cancel.obj = o /\ cancel.done # half)
      /\ cancel' = IF cancel = None THEN [obj |-> o, done |-> half] ELSE None
      /\ again' = IF cancel = None THEN o \in G!InUse ELSE again
      /\ late' = 0 /\ gpc' = gpc /\ obj' = obj /\ count' = count /\ lost' = lost
  BY DEF G!CancelHalf
<1>2. half = "set" => mainObj' = o /\ counter' = counter /\ raced' = raced
  BY DEF G!CancelHalf
<1>3. half = "post" =>
        /\ n <= MaxQueue /\ mainObj' = mainObj
        /\ counter' = (counter + 1) % 2^Width
        /\ raced' = (raced \/ gpc = "store")
  BY DEF G!CancelHalf
<1>4. half \in {"set", "post"}
  BY DEF G!Halves
<1>5. queue \in Seq(G!Events) /\ n \in Nat /\ cancel \in G!Cancellations \cup {None}
  BY DEF GInv, Types
<1>6. /\ half = "set" => Len(queue') = n
      /\ half = "post" =>
           /\ Len(queue') = n + 1
           /\ IsCancel(queue'[n + 1]) /\ queue'[n + 1].obj = o
           /\ ~queue'[n + 1].stale /\ queue'[n + 1].touched
  BY <1>4, Halved
<1>7. \A k \in 1..n : /\ IsCancel(queue'[k]) <=> IsCancel(queue[k])
                      /\ queue'[k].obj = queue[k].obj
                      /\ queue'[k].touched
                      /\ queue'[k].stale <=> (queue[k].stale \/ cancel = None)
  BY Halved DEF IsCancel
<1>8. /\ queue' \in Seq(G!Events) /\ event' \in G!Events \cup {None}
      /\ event' = None <=> event = None
      /\ event # None =>
           /\ IsCancel(event') <=> IsCancel(event)
           /\ event'.obj = event.obj /\ event'.touched
           /\ event'.stale <=> (event.stale \/ cancel = None)
  BY Halved DEF IsCancel
<1>9. Types'
  <2>1. cancel' \in G!Cancellations \cup {None}
    BY <1>1 DEF G!Cancellations
  <2> QED BY <1>1, <1>8, <2>1 DEF GInv, Types
<1>10. Counted'
  <2>1. Len(G!Held) \in 0..1 /\ Len(G!Held)' = Len(G!Held)
    BY <1>8 DEF G!Held
  <2>2. CASE half = "set"
    BY <1>1, <1>2, <1>6, <2>1, <2>2 DEF GInv, Counted
  <2>3. CASE half = "post"
    <3>1. ASSUME ~raced' PROVE counter' = Len(queue') + Len(G!Held)' /\ gpc # "store"
      <4>1. counter = n + Len(G!Held) /\ gpc # "store"
        BY <1>3, <2>3, <3>1 DEF GInv, Counted
      <4>2. counter \in Nat /\ counter <= MaxQueue + 1
        <5>1. n <= MaxQueue
          BY <1>3, <2>3
        <5>2. n \in Nat
          BY <1>5
        <5> QED BY <2>1, <4>1, <5>1, <5>2, Bounded
      <4>3. (counter + 1) % 2^Width = counter + 1
        BY <4>2, Increased
      <4> QED BY <1>3, <1>5, <1>6, <2>1, <2>3, <4>1, <4>3
    <3> QED BY <1>1, <1>3, <1>5, <1>6, <2>3, <3>1, Assumed DEF Counted
  <2> QED BY <1>4, <2>2, <2>3
<1>11. half = "set" /\ Final(o) => Final(o)'
  BY <1>1, <1>5, <1>6, <1>7, <1>8 DEF Final, GInv, Types
<1>12. half = "post" => Final(o)'
  BY <1>5, <1>6 DEF Final
<1>13. cancel' # None => cancel = None /\ cancel'.obj = o /\ cancel'.done = half
  BY <1>1
<1>14. cancel' = None => cancel # None /\ cancel.obj = o /\ cancel.done # half
  <2>1. [obj |-> o, done |-> half] # None
    BY Assumed DEF G!Cancellations
  <2> QED BY <1>1, <2>1
<1>15. cancel # None => cancel.done \in {"set", "post"}
  BY <1>5 DEF G!Cancellations, G!Halves
<1>16. cancel' = None => mainObj' = o
  BY <1>2, <1>3, <1>4, <1>14, <1>15 DEF GInv, Owners
<1>17. Owners'
  <2>1. cancel' = None => Final(o)'
    BY <1>4, <1>11, <1>12, <1>14, <1>15 DEF GInv, Owners
  <2>2. cancel' = None => Final(mainObj)'
    BY <1>16, <2>1 DEF Final
  <2>3. cancel' # None /\ cancel'.done = "post" => Final(cancel.obj)'
    BY <1>12, <1>13 DEF Final
  <2>4. cancel' # None /\ cancel'.done = "set" => mainObj' = cancel'.obj
    BY <1>2, <1>13
  <2> QED BY <2>2, <2>3, <2>4 DEF Owners
<1>18. Untouched'
  <2>1. \A k \in 1..Len(queue') : queue'[k].touched
    BY <1>4, <1>5, <1>6, <1>7
  <2>2. gpc = "switch" => event # None
    BY DEF GInv, Types
  <2> QED BY <1>1, <1>8, <2>1, <2>2 DEF Untouched
<1>19. Stale'
  <2>1. Owner' = o
    BY <1>13, <1>16 DEF Owner
  <2>2. gpc = "switch" => event # None
    BY DEF GInv, Types
  <2>3. CASE cancel = None
    <3>1. SUFFICES ASSUME o \notin G!InUse PROVE Stale'
      BY <1>1, <2>3 DEF Stale
    <3>2. /\ o # obj
          /\ event # None => event.obj # o
          /\ \A k \in 1..n : queue[k].obj # o
      BY <3>1, Unused
    <3> QED BY <1>1, <1>4, <1>5, <1>6, <1>7, <1>8, <2>1, <2>2, <3>2 DEF Stale
  <2>4. CASE cancel # None
    <3>1. Owner = o
      BY <1>1, <2>4 DEF Owner
    <3>2. (\E k \in 1..Len(queue') : queue'[k].stale) => \E k \in 1..n : queue[k].stale
      BY <1>4, <1>5, <1>6, <1>7, <2>4
    <3>3. \A j, k \in 1..Len(queue') :
            j < k /\ queue'[k].stale /\ IsCancel(queue'[j]) =>
              /\ j \in 1..n /\ k \in 1..n /\ queue[k].stale /\ IsCancel(queue[j])
              /\ queue'[j].obj = queue[j].obj
      BY <1>4, <1>5, <1>6, <1>7, <2>4
    <3> QED BY <1>1, <1>8, <2>1, <2>2, <2>4, <3>1, <3>2, <3>3 DEF GInv, Stale
  <2> QED BY <2>3, <2>4
<1>20. Few' /\ ~lost'
  BY <1>1 DEF GInv, Few
<1> QED BY <1>9, <1>10, <1>17, <1>18, <1>19, <1>20 DEF GInv

(* A request to shut down, or menu_task that takes its semaphore.          *)
LEMMA OtherStep ==
  ASSUME GInv, G!ShutdownRequest \/ G!MenuTask
  PROVE  GInv'
<1>1. /\ queue' = queue /\ mainObj' = mainObj /\ counter' = counter /\ cancel' = cancel
      /\ gpc' = gpc /\ event' = event /\ obj' = obj /\ count' = count
      /\ late' = late /\ again' = again /\ lost' = lost /\ raced' = raced
  BY DEF G!ShutdownRequest, G!MenuTask, G!canon, G!task, G!ghost
<1>2. Types' /\ Counted'
  BY <1>1 DEF GInv, Types, Counted, G!Held
<1>3. Owners' /\ Untouched'
  BY <1>1 DEF GInv, Owners, Untouched, Final, IsCancel
<1>4. Stale' /\ Few' /\ ~lost'
  BY <1>1 DEF GInv, Stale, Owner, Few, Slipping, IsCancel
<1> QED BY <1>2, <1>3, <1>4 DEF GInv

(* The task looks whether it must end.                                     *)
LEMMA LoopStep == ASSUME GInv, G!Loop PROVE GInv'
<1>1. /\ queue' = queue /\ mainObj' = mainObj /\ counter' = counter /\ cancel' = cancel
      /\ event' = event /\ obj' = obj /\ count' = count
      /\ late' = late /\ again' = again /\ lost' = lost /\ raced' = raced
      /\ gpc = "loop" /\ gpc' \in {"ended", "receive"}
  BY DEF G!Loop, G!canon, G!ghost
<1>2. Types' /\ Counted'
  BY <1>1 DEF GInv, Types, Counted, G!Held
<1>3. Owners' /\ Untouched'
  BY <1>1 DEF GInv, Owners, Untouched, Final, IsCancel
<1>4. Stale' /\ Few' /\ ~lost'
  BY <1>1 DEF GInv, Stale, Owner, Few, Slipping, IsCancel
<1> QED BY <1>2, <1>3, <1>4 DEF GInv

(* It takes the first event.                                               *)
LEMMA ReceiveStep == ASSUME GInv, G!msg_queue_receive PROVE GInv'
<1> DEFINE n == Len(queue')
<1>1. /\ mainObj' = mainObj /\ counter' = counter /\ cancel' = cancel
      /\ obj' = obj /\ count' = count
      /\ late' = late /\ again' = again /\ lost' = lost /\ raced' = raced
      /\ gpc = "receive" /\ event' = Head(queue) /\ queue' = Tail(queue) /\ queue # <<>>
      /\ gpc' = IF Head(queue).kind = G!NULL THEN "load" ELSE "switch"
  BY DEF G!msg_queue_receive, G!ghost
<1>2. queue \in Seq(G!Events)
  BY DEF GInv, Types
<1>3. /\ queue' \in Seq(G!Events) /\ n \in Nat /\ Len(queue) = n + 1
      /\ \A k \in 1..n : queue'[k] = queue[k + 1] /\ k + 1 \in 1..Len(queue)
      /\ event' = queue[1] /\ event' \in G!Events /\ 1 \in 1..Len(queue)
  BY <1>1, <1>2, Tailed
<1>4. event' # None /\ event = None
  BY <1>1, <1>3, Assumed DEF GInv, Types
<1>5. gpc' = "switch" \/ (gpc' = "load" /\ ~IsCancel(event'))
  BY <1>1 DEF IsCancel, G!NULL, G!CANCEL_ALL_EVENT
<1>6. Types'
  BY <1>1, <1>3, <1>4, <1>5 DEF GInv, Types
<1>7. Counted'
  <2>1. Len(G!Held) = 0 /\ Len(G!Held)' = 1
    BY <1>4 DEF G!Held
  <2> QED BY <1>1, <1>3, <1>5, <2>1, Bounded DEF GInv, Counted
<1>8. \A o : Final(o) => Final(o)'
  <2>1. TAKE o
  <2>2. HAVE Final(o)
  <2>3. CASE \A k \in 1..Len(queue) : ~IsCancel(queue[k])
    <3>1. \A k \in 1..n : ~IsCancel(queue'[k])
      BY <1>3, <2>3 DEF IsCancel
    <3>2. ~IsCancel(event')
      BY <1>3, <2>3 DEF IsCancel
    <3>3. obj = o
      BY <1>1, <2>2, <2>3 DEF Final
    <3> QED BY <1>1, <3>1, <3>2, <3>3 DEF Final
  <2>4. CASE \E k \in 1..Len(queue) : IsCancel(queue[k])
    <3>1. PICK k \in 1..Len(queue) :
            /\ IsCancel(queue[k]) /\ queue[k].obj = o
            /\ \A j \in 1..Len(queue) : j > k => ~IsCancel(queue[j])
      BY <2>2, <2>4 DEF Final
    <3>2. CASE k = 1
      <4>1. \A j \in 1..n : ~IsCancel(queue'[j])
        BY <1>3, <3>1, <3>2 DEF IsCancel
      <4>2. IsCancel(event') /\ event'.obj = o
        BY <1>3, <3>1, <3>2 DEF IsCancel
      <4> QED BY <1>5, <4>1, <4>2 DEF Final
    <3>3. CASE k # 1
      <4>1. k - 1 \in 1..n /\ queue'[k - 1] = queue[k]
        BY <1>3, <3>3
      <4>2. \A j \in 1..n : j > k - 1 => ~IsCancel(queue'[j])
        BY <1>3, <3>1 DEF IsCancel
      <4> QED BY <3>1, <4>1, <4>2 DEF Final, IsCancel
    <3> QED BY <3>2, <3>3
  <2> QED BY <2>3, <2>4
<1>9. Owners'
  BY <1>1, <1>8 DEF GInv, Owners
<1>10. Untouched'
  <2>1. cancel' # None =>
          (\A k \in 1..n : queue'[k].touched) /\ event'.touched
    BY <1>1, <1>3 DEF GInv, Untouched
  <2>2. \A j, k \in 1..n : j < k /\ ~queue'[j].touched => ~IsCancel(queue'[k])
    BY <1>3 DEF GInv, Untouched, IsCancel
  <2>3. ~event'.touched =>
          ~IsCancel(event') /\ \A k \in 1..n : ~IsCancel(queue'[k])
    BY <1>3 DEF GInv, Untouched, IsCancel
  <2>4. \A k \in 1..n : IsCancel(queue'[k]) => queue'[k].touched
    BY <1>3 DEF GInv, Untouched, IsCancel
  <2> QED BY <2>1, <2>2, <2>3, <2>4 DEF Untouched
<1>11. Stale'
  <2>1. SUFFICES ASSUME ~again PROVE Stale'
    BY <1>1 DEF Stale
  <2>2. Owner' = Owner
    BY <1>1 DEF Owner
  <2>3. event'.stale \/ (\E k \in 1..n : queue'[k].stale) => obj # Owner
    BY <1>3, <2>1 DEF GInv, Stale
  <2>4. IsCancel(event') /\ (\E k \in 1..n : queue'[k].stale) => event'.obj # Owner
    BY <1>3, <2>1 DEF GInv, Stale, IsCancel
  <2>5. \A j, k \in 1..n : j < k /\ queue'[k].stale /\ IsCancel(queue'[j])
          => queue'[j].obj # Owner
    <3>1. TAKE j, k \in 1..n
    <3>2. j + 1 \in 1..Len(queue) /\ k + 1 \in 1..Len(queue) /\ (j < k => j + 1 < k + 1)
      BY <1>3
    <3>3. queue'[j] = queue[j + 1] /\ queue'[k] = queue[k + 1]
      BY <1>3
    <3> QED BY <2>1, <3>2, <3>3 DEF GInv, Stale, IsCancel
  <2> QED BY <1>1, <2>2, <2>3, <2>4, <2>5 DEF Stale
<1>12. Few' /\ ~lost'
  BY <1>1, <1>5 DEF GInv, Few, Slipping
<1> QED BY <1>6, <1>7, <1>9, <1>10, <1>11, <1>12 DEF GInv

(* It takes the new owner from a cancellation's event.                     *)
LEMMA CancelAllStep == ASSUME GInv, G!CancelAllEvent PROVE GInv'
<1>1. /\ queue' = queue /\ mainObj' = mainObj /\ counter' = counter /\ cancel' = cancel
      /\ event' = event /\ count' = count /\ again' = again /\ raced' = raced
      /\ late' = late /\ lost' = lost
      /\ gpc = "switch" /\ IsCancel(event) /\ gpc' = "load" /\ obj' = event.obj
  BY DEF G!CancelAllEvent, IsCancel, G!canon, G!ghost
<1>2. Types' /\ Counted'
  BY <1>1 DEF GInv, Types, Counted, G!Held
<1>3. \A o : Final(o) => Final(o)'
  BY <1>1 DEF Final, IsCancel
<1>4. Owners'
  BY <1>1, <1>3 DEF GInv, Owners
<1>5. Untouched'
  BY <1>1 DEF GInv, Untouched, IsCancel
<1>6. Stale'
  BY <1>1 DEF GInv, Stale, Owner, IsCancel
<1>7. Few' /\ ~lost'
  BY <1>1 DEF GInv, Few, Slipping
<1> QED BY <1>2, <1>4, <1>5, <1>6, <1>7 DEF GInv

(* It drops an event: one that a cancellation has touched, since otherwise *)
(* the task compares with the last owner there is.                         *)
LEMMA ClearStep == ASSUME GInv, G!QueueClear PROVE GInv'
<1>1. /\ queue' = queue /\ mainObj' = mainObj /\ counter' = counter /\ cancel' = cancel
      /\ event' = event /\ count' = count /\ again' = again /\ raced' = raced
      /\ late' = late /\ lost' = (lost \/ ~event.touched) /\ obj' = obj
      /\ gpc = "switch" /\ ~IsCancel(event) /\ gpc' = "load" /\ mainObj # obj
  BY DEF G!QueueClear, G!MayDrop, IsCancel, G!canon, G!ghost
<1>2. Types' /\ Counted'
  BY <1>1 DEF GInv, Types, Counted, G!Held
<1>3. \A o : Final(o) => Final(o)'
  BY <1>1 DEF Final, IsCancel
<1>4. Owners'
  BY <1>1, <1>3 DEF GInv, Owners
<1>5. Untouched'
  BY <1>1 DEF GInv, Untouched, IsCancel
<1>6. Stale'
  BY <1>1 DEF GInv, Stale, Owner, IsCancel
<1>7. Few'
  BY <1>1 DEF GInv, Few, Slipping
<1>8. event.touched
  <2>1. SUFFICES ASSUME ~event.touched PROVE FALSE
    OBVIOUS
  <2>2. cancel = None /\ \A k \in 1..Len(queue) : ~IsCancel(queue[k])
    BY <1>1, <2>1 DEF GInv, Untouched, Types
  <2>3. obj = mainObj
    BY <1>1, <2>2 DEF GInv, Owners, Final
  <2> QED BY <1>1, <2>3
<1>9. ~lost'
  BY <1>1, <1>8 DEF GInv
<1> QED BY <1>2, <1>4, <1>5, <1>6, <1>7, <1>9 DEF GInv

(* It lets an event pass: a stale one meets another owner and does not.    *)
LEMMA PassStep == ASSUME GInv, G!Passes PROVE GInv'
<1>1. /\ queue' = queue /\ mainObj' = mainObj /\ counter' = counter /\ cancel' = cancel
      /\ event' = event /\ count' = count /\ again' = again /\ raced' = raced
      /\ late' = late /\ lost' = lost /\ obj' = obj
      /\ gpc = "switch" /\ ~IsCancel(event) /\ gpc' = "deliver"
      /\ G!MayDrop(event.kind) => mainObj = obj
  BY DEF G!Passes, IsCancel, G!canon, G!ghost
<1>2. Types' /\ Counted'
  BY <1>1 DEF GInv, Types, Counted, G!Held
<1>3. \A o : Final(o) => Final(o)'
  BY <1>1 DEF Final, IsCancel
<1>4. Owners'
  BY <1>1, <1>3 DEF GInv, Owners
<1>5. Untouched'
  BY <1>1 DEF GInv, Untouched, IsCancel
<1>6. Stale'
  BY <1>1 DEF GInv, Stale, Owner, IsCancel
<1>7. ~again /\ cancel = None => ~Slipping'
  BY <1>1 DEF GInv, Slipping, Stale, Owner
<1>8. Few' /\ ~lost'
  BY <1>1, <1>7 DEF GInv, Few
<1> QED BY <1>2, <1>4, <1>5, <1>6, <1>8 DEF GInv

(* It delivers the event.                                                  *)
LEMMA DeliverStep == ASSUME GInv, G!Deliver PROVE GInv'
<1>1. /\ queue' = queue /\ mainObj' = mainObj /\ counter' = counter /\ cancel' = cancel
      /\ event' = event /\ count' = count /\ again' = again /\ raced' = raced
      /\ lost' = lost /\ obj' = obj
      /\ late' = IF Slipping /\ cancel = None /\ late < 2 THEN late + 1 ELSE late
      /\ gpc = "deliver" /\ gpc' = "load"
  BY DEF G!Deliver, G!canon, Slipping
<1>2. Types' /\ Counted'
  BY <1>1 DEF GInv, Types, Counted, G!Held
<1>3. \A o : Final(o) => Final(o)'
  BY <1>1 DEF Final, IsCancel
<1>4. Owners'
  BY <1>1, <1>3 DEF GInv, Owners
<1>5. Untouched'
  BY <1>1 DEF GInv, Untouched, IsCancel
<1>6. Stale'
  BY <1>1 DEF GInv, Stale, Owner, IsCancel
<1>7. Few' /\ ~lost'
  BY <1>1 DEF GInv, Few, Slipping, Types
<1> QED BY <1>2, <1>4, <1>5, <1>6, <1>7 DEF GInv

(* It reads Canon's counter.                                               *)
LEMMA LoadStep == ASSUME GInv, G!CounterLoad PROVE GInv'
<1>1. /\ queue' = queue /\ mainObj' = mainObj /\ counter' = counter /\ cancel' = cancel
      /\ event' = event /\ obj' = obj /\ late' = late /\ again' = again
      /\ raced' = raced /\ lost' = lost
      /\ gpc = "load" /\ gpc' = "store" /\ count' = counter
  BY DEF G!CounterLoad, G!canon, G!ghost
<1>2. Types' /\ Counted'
  BY <1>1 DEF GInv, Types, Counted, G!Held
<1>3. Owners' /\ Untouched'
  BY <1>1 DEF GInv, Owners, Untouched, Final, IsCancel
<1>4. Stale' /\ Few' /\ ~lost'
  BY <1>1 DEF GInv, Stale, Owner, Few, Slipping, IsCancel
<1> QED BY <1>2, <1>3, <1>4 DEF GInv

(* It stores one less: the event is done.                                  *)
LEMMA StoreStep == ASSUME GInv, G!CounterStore PROVE GInv'
<1>1. /\ queue' = queue /\ mainObj' = mainObj /\ cancel' = cancel
      /\ obj' = obj /\ late' = late /\ again' = again
      /\ raced' = raced /\ lost' = lost
      /\ gpc = "store" /\ gpc' = "loop" /\ event' = None
      /\ counter' = (count - 1) % 2^Width
  BY DEF G!CounterStore, G!ghost
<1>2. queue \in Seq(G!Events) /\ Len(queue) \in Nat /\ event # None
  BY <1>1 DEF GInv, Types
<1>3. Types'
  BY <1>1 DEF GInv, Types
<1>4. Counted'
  <2>1. Len(G!Held) = 1 /\ Len(G!Held)' = 0
    BY <1>1, <1>2 DEF G!Held
  <2>2. ASSUME ~raced PROVE counter' = Len(queue)
    <3>1. count = Len(queue) + 1 /\ Len(queue) <= MaxQueue + 1
      BY <1>1, <2>1, <2>2 DEF GInv, Counted
    <3>2. count \in Nat \ {0} /\ count <= MaxQueue + 2 /\ count - 1 = Len(queue)
      BY <1>2, <3>1, Bounded
    <3>3. (count - 1) % 2^Width = count - 1
      BY <3>2, Decreased
    <3> QED BY <1>1, <3>2, <3>3
  <2> QED BY <1>1, <1>2, <2>1, <2>2 DEF GInv, Counted
<1>5. Owners' /\ Untouched'
  BY <1>1 DEF GInv, Owners, Untouched, Final, IsCancel
<1>6. Stale' /\ Few' /\ ~lost'
  BY <1>1 DEF GInv, Stale, Owner, Few, Slipping, IsCancel
<1> QED BY <1>3, <1>4, <1>5, <1>6 DEF GInv

-----------------------------------------------------------------------------
(* At the start nothing waits.                                             *)
LEMMA GInitHolds == SysInit => GInv
<1> SUFFICES ASSUME SysInit PROVE GInv
  OBVIOUS
<1>1. /\ queue = <<>> /\ mainObj = 0 /\ counter = 0 /\ cancel = None
      /\ gpc = "loop" /\ event = None /\ obj = 0 /\ count = 0
      /\ late = 0 /\ again = FALSE /\ lost = FALSE /\ raced = FALSE
  BY DEF SysInit, G!Init
<1>2. Types
  BY <1>1 DEF Types
<1>3. Counted
  BY <1>1, Bounded DEF Counted, G!Held
<1>4. Owners /\ Untouched
  BY <1>1 DEF Owners, Untouched, Final
<1>5. Stale /\ Few /\ ~lost
  BY <1>1 DEF Stale, Few, Slipping
<1> QED BY <1>2, <1>3, <1>4, <1>5 DEF GInv

(* What leaves the GUI task's variables alone leaves the invariant.        *)
LEMMA GuiUnchanged == ASSUME GInv, UNCHANGED gui PROVE GInv'
<1>1. /\ queue' = queue /\ mainObj' = mainObj /\ counter' = counter /\ cancel' = cancel
      /\ gpc' = gpc /\ event' = event /\ obj' = obj /\ count' = count
      /\ late' = late /\ again' = again /\ lost' = lost /\ raced' = raced
  BY DEF gui
<1>2. Types' /\ Counted'
  BY <1>1 DEF GInv, Types, Counted, G!Held
<1>3. Owners' /\ Untouched'
  BY <1>1 DEF GInv, Owners, Untouched, Final, IsCancel
<1>4. Stale' /\ Few' /\ ~lost'
  BY <1>1 DEF GInv, Stale, Owner, Few, Slipping, IsCancel
<1> QED BY <1>2, <1>3, <1>4 DEF GInv

(* Every step keeps it.                                                    *)
LEMMA GStepKeeps == GInv /\ [SysNext]_all => GInv'
<1> SUFFICES ASSUME GInv, [SysNext]_all PROVE GInv'
  OBVIOUS
<1>1. CASE UNCHANGED all
  BY <1>1, GuiUnchanged DEF all
<1>2. CASE Boots(Next) \/ Serve
  BY <1>2, GuiUnchanged DEF Boots, Serve
<1>3. CASE Gui(G!Next)
  <2>1. CASE G!Canon
    BY <2>1, PostStep, CancelStep DEF G!Canon
  <2>2. CASE G!ShutdownRequest \/ G!MenuTask
    BY <2>2, OtherStep
  <2>3. CASE G!my_gui_main_task
    BY <2>3, LoopStep, ReceiveStep, CancelAllStep, ClearStep, PassStep, DeliverStep,
       LoadStep, StoreStep DEF G!my_gui_main_task
  <2> QED BY <1>3, <2>1, <2>2, <2>3 DEF Gui, G!Next
<1> QED BY <1>1, <1>2, <1>3 DEF SysNext

(* Of what Canon cancels at most one event slips through, nothing else is  *)
(* dropped, and Canon's count of events is right until it is changed under *)
(* the task's hands: for any events, owners and length of the queue.       *)
THEOREM EventsAreKept == SysSpec => []EventsKept
<1>1. GInv => EventsKept
  <2> SUFFICES ASSUME GInv PROVE EventsKept
    OBVIOUS
  <2>1. G!OneStale
    BY DEF GInv, Few, Types, G!OneStale
  <2>2. G!NothingLost /\ G!CounterAgrees
    BY DEF GInv, Counted, G!NothingLost, G!CounterAgrees
  <2> QED BY <2>1, <2>2 DEF EventsKept, G!EventsKept
<1> QED BY <1>1, GInitHolds, GStepKeeps, PTL DEF SysSpec

-----------------------------------------------------------------------------
(* The small entries of the menu.                                          *)

(* What is allocated is what the entry at hand works with, and the scripts *)
(* that stay.                                                              *)
Allocated ==
  /\ mpc \in {"idle", "read", "write", "free", "malloc", "script"}
  /\ installed \in Nat
  /\ dma = IF mpc \in {"read", "write", "free"} THEN 1 ELSE 0
  /\ buffers = IF mpc = "script" THEN installed + 1 ELSE installed

(* The sector has what the card came with, and so has the copy that is on  *)
(* its way to the card, unless a read has failed.                          *)
Sector ==
  /\ card \in [os : BOOLEAN, magic : BOOLEAN]
  /\ block \in [os : BOOLEAN, magic : BOOLEAN]
  /\ ~readFailed => card.os
  /\ ~readFailed /\ mpc = "write" => block.os

(* Canon was asked for what the setting says.                              *)
Power == poweroff = V!Asked(disable_powersave)

(* While only movie_start calls MovieStart, Canon records after its GO!    *)
Recording ==
  /\ spc \in {"count", "off", "went"} /\ recording \in BOOLEAN
  /\ ~toggled => (recording <=> spc = "went")

SInv == Allocated /\ Sector /\ Power /\ Recording

(* Choosing an entry of the menu.                                          *)
LEMMA PickStep ==
  ASSUME SInv, V!bootflag_toggle \/ V!powersave_toggle \/ V!save_config
  PROVE  SInv'
<1> USE DEF V!Pick, V!menu, V!power, V!movie, V!disk
<1>1. mpc' = mpc /\ mpc = "idle"
  BY DEF SInv, V!bootflag_toggle, V!powersave_toggle, V!save_config
<1>2. Allocated' /\ Sector' /\ Recording'
  BY <1>1 DEF SInv, Allocated, Sector, Recording,
     V!bootflag_toggle, V!powersave_toggle, V!save_config
<1>3. Power'
  BY DEF SInv, Power, V!Asked, V!bootflag_toggle, V!powersave_toggle, V!save_config
<1> QED BY <1>2, <1>3 DEF SInv

(* The boot sector, read, changed and written.                             *)
LEMMA BlockStep ==
  ASSUME SInv, V!AllocateBlock \/ V!ReadBlock \/ V!WriteBlock \/ V!FreeBlock
  PROVE  SInv'
<1> USE DEF V!Pick, V!In, V!menu, V!power, V!movie, V!disk
<1>1. Allocated'
  BY DEF SInv, Allocated, V!AllocateBlock, V!ReadBlock, V!WriteBlock, V!FreeBlock
<1>2. Sector'
  <2>1. CASE V!AllocateBlock \/ V!FreeBlock
    <3>1. block' \in [os : BOOLEAN, magic : BOOLEAN]
      <4>1. block' = V!Junk
        BY <2>1 DEF V!AllocateBlock, V!FreeBlock
      <4>2. V!Junk \in [os : BOOLEAN, magic : BOOLEAN]
        BY DEF V!Junk
      <4> QED BY <4>1, <4>2
    <3>2. card' = card /\ readFailed' = readFailed /\ mpc' # "write"
      BY <2>1 DEF V!AllocateBlock, V!FreeBlock
    <3> QED BY <3>1, <3>2 DEF SInv, Sector
  <2>2. CASE V!ReadBlock
    BY <2>2 DEF SInv, Sector, V!ReadBlock
  <2>3. CASE V!WriteBlock
    BY <2>3 DEF SInv, Sector, V!WriteBlock
  <2> QED BY <2>1, <2>2, <2>3
<1>3. Power' /\ Recording'
  BY DEF SInv, Power, V!Asked, Recording,
     V!AllocateBlock, V!ReadBlock, V!WriteBlock, V!FreeBlock
<1> QED BY <1>1, <1>2, <1>3 DEF SInv

(* The memory of a script.                                                 *)
LEMMA ScriptStep ==
  ASSUME SInv, V!FileSize \/ V!ScriptMemory \/ V!read_file
  PROVE  SInv'
<1> USE DEF V!Pick, V!In, V!power, V!movie, V!disk
<1>1. Allocated'
  BY DEF SInv, Allocated, V!FileSize, V!ScriptMemory, V!read_file
<1>2. Sector' /\ Power' /\ Recording'
  BY DEF SInv, Sector, Power, V!Asked, Recording, V!FileSize, V!ScriptMemory, V!read_file
<1> QED BY <1>1, <1>2 DEF SInv

(* Recordings.                                                             *)
LEMMA MovieStep ==
  ASSUME SInv, V!movie_start \/ V!Button
  PROVE  SInv'
<1> USE DEF V!menu, V!power, V!disk
<1>1. Allocated' /\ Sector' /\ Power'
  BY DEF SInv, Allocated, Sector, Power, V!Asked, V!movie_start, V!Button
<1>2. Recording'
  BY DEF SInv, Recording, V!movie_start, V!Button, V!MovieStart
<1> QED BY <1>1, <1>2 DEF SInv

(* The camera starts again.                                                *)
LEMMA RestartStep == ASSUME SInv, V!Restart PROVE SInv'
<1>1. Allocated' /\ Power' /\ Recording'
  BY DEF SInv, Allocated, Power, V!Asked, Recording, V!Restart
<1>2. Sector'
  BY DEF SInv, Sector, V!Restart, V!disk, V!Junk
<1> QED BY <1>1, <1>2 DEF SInv

(* The start.                                                              *)
LEMMA SInitHolds == SysInit => SInv
<1> SUFFICES ASSUME SysInit PROVE SInv
  OBVIOUS
<1> QED BY DEF SysInit, V!ServInit, SInv, Allocated, Sector, Power, Recording, V!Junk, V!Asked

(* What leaves their variables alone leaves the invariant.                 *)
LEMMA ServicesUnchanged == ASSUME SInv, UNCHANGED serv PROVE SInv'
  BY DEF serv, SInv, Allocated, Sector, Power, V!Asked, Recording

(* Every step keeps it.                                                    *)
LEMMA SStepKeeps == SInv /\ [SysNext]_all => SInv'
<1> SUFFICES ASSUME SInv, [SysNext]_all PROVE SInv'
  OBVIOUS
<1>1. CASE UNCHANGED all
  BY <1>1, ServicesUnchanged DEF all
<1>2. CASE Boots(Next) \/ Gui(G!Next)
  BY <1>2, ServicesUnchanged DEF Boots, Gui
<1>3. CASE Serve
  BY <1>3, PickStep, BlockStep, ScriptStep, MovieStep, RestartStep DEF Serve, V!ServNext
<1> QED BY <1>1, <1>2, <1>3 DEF SysNext

(* A finished entry has freed what no script uses, the boot sector keeps   *)
(* its contents while reads succeed, Canon was asked what the setting says,*)
(* and a timed start records: for any number of entries chosen and presses *)
(* of the button, and any time of the start.                               *)
THEOREM EntriesSettleDown == SysSpec => []EntriesSettle
<1>1. SInv => EntriesSettle
  BY DEF SInv, Allocated, Sector, Power, Recording, EntriesSettle, V!EntriesSettle
<1> QED BY <1>1, SInitHolds, SStepKeeps, PTL DEF SysSpec
=============================================================================
