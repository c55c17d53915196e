--------------------------- MODULE MovieLogProofs ---------------------------
(***************************************************************************)
(* For any settings, handles and kind of semaphore: whatever recordings    *)
(* start, fail to start and stop, no file of the movie log stays open but  *)
(* the one that the next stop closes; and each log is begun with a line,   *)
(* ended with the settings, and followed by few writes to a closed file.   *)
(***************************************************************************)
EXTENDS MovieLog, TLAPS

(* The file of mvr_logfile is the only open one, except between its close  *)
(* and its being forgotten; and no recording starts unless it is forgotten,*)
(* since Canon announces a start (value 1) only after a stop (value 0).    *)
OneFile ==
  /\ DOMAIN pc = Tasks
  /\ opened = IF At("prop", "clear") THEN {} ELSE {mvr_logfile} \ {None}
  /\ event # 2 /\ ~At("prop", "clear") => mvr_logfile = None

-----------------------------------------------------------------------------
(* Before the first recording there is no file. *)
LEMMA InitClosed == Init => OneFile
  BY DEF Init, OneFile, At, Tasks

(* A task that goes on, but neither from nor to the middle of a stop,      *)
(* changes nothing about the files.                                        *)
LEMMA QuietMove ==
  ASSUME OneFile, NEW t \in Tasks, NEW l, l # "clear", ~At(t, "clear"), Goto(t, l),
         UNCHANGED <<opened, mvr_logfile, event>>
  PROVE  OneFile'
  BY DEF OneFile, At, Goto, Tasks

(* Nor does a step of which no task takes notice. *)
LEMMA StillStep ==
  ASSUME OneFile, UNCHANGED <<pc, opened, mvr_logfile, event>> PROVE OneFile'
  BY DEF OneFile, At

(* mvr_update_logfile uses the handle and never changes it, in lens_task   *)
(* as in the property task.                                                *)
LEMMA UpdateStep == ASSUME OneFile, NEW t \in Tasks, mvr_update_logfile(t) PROVE OneFile'
<1> USE DEF At
<1>1. UNCHANGED <<opened, mvr_logfile, event>>  BY DEF mvr_update_logfile
<1>2. CASE Test(t)     BY <1>1, <1>2, QuietMove DEF Test
<1>3. ASSUME NEW f \in Fields, Compare(t, f) PROVE OneFile'
  BY <1>1, <1>3, QuietMove DEF Compare, Fields
<1>4. ASSUME NEW f \in Fields, Keep(t, f) PROVE OneFile'
  BY <1>1, <1>4, QuietMove DEF Keep
<1>5. ASSUME NEW f \in Fields, Format(t, f) PROVE OneFile'
  BY <1>1, <1>5, QuietMove DEF Format
<1>6. CASE Write(t)    BY <1>1, <1>6, QuietMove DEF Write
<1> QED BY <1>2, <1>3, <1>4, <1>5, <1>6 DEF mvr_update_logfile

(* The handler of the recording property: a start opens the one file, a    *)
(* stop closes it and then forgets it.                                     *)
LEMMA RecordingStep ==
  OneFile /\ (Stop \/ Clear \/ AboutToStart \/ Start \/ Header) => OneFile'
<1> SUFFICES ASSUME OneFile, Stop \/ Clear \/ AboutToStart \/ Start \/ Header PROVE OneFile'
  OBVIOUS
<1> "prop" \in Tasks  BY DEF Tasks
<1> USE DEF OneFile, At, Goto, log
<1>1. CASE Stop          BY <1>1 DEF Stop
<1>2. CASE Clear         BY <1>2 DEF Clear
<1>3. CASE AboutToStart  BY <1>3 DEF AboutToStart
<1>4. CASE Start
  <2>1. mvr_logfile = None /\ opened = {}  BY <1>4 DEF Start
  <2> QED BY <1>4, <2>1 DEF Start
<1>5. CASE Header        BY <1>5, QuietMove DEF Header
<1> QED BY <1>1, <1>2, <1>3, <1>4, <1>5

(* A wake of lens_task, the settings and a shutdown touch no file. *)
LEMMA OtherStep ==
  OneFile /\ (LensWake \/ PROP_ISO \/ PROP_LV_LENS \/ Shutdown \/ UNCHANGED vars) => OneFile'
<1> SUFFICES ASSUME OneFile, LensWake \/ PROP_ISO \/ PROP_LV_LENS \/ Shutdown \/ UNCHANGED vars
    PROVE  OneFile'
  OBVIOUS
<1> "lens" \in Tasks  BY DEF Tasks
<1>1. CASE LensWake  BY <1>1, QuietMove DEF LensWake, At, log
<1>2. CASE PROP_ISO \/ PROP_LV_LENS \/ Shutdown \/ UNCHANGED vars
  BY <1>2, StillStep DEF PROP_ISO, PROP_LV_LENS, Shutdown, log, vars
<1> QED BY <1>1, <1>2

(* mvr_create_logfile loses no handle: a failed FIO_CreateFile, a stop     *)
(* without a start and lens_task's unlocked use included.                  *)
THEOREM HandlesAreClosed == Spec => []NoHandleLost
<1>1. Init => OneFile  BY InitClosed
<1>2. OneFile /\ [Next]_vars => OneFile'
  BY UpdateStep, RecordingStep, OtherStep DEF Next
<1>3. OneFile => NoHandleLost
  BY DEF OneFile, NoHandleLost, At
<1> QED BY <1>1, <1>2, <1>3, PTL DEF Spec

-----------------------------------------------------------------------------
(* What a log is worth.                                                    *)

Cells  == [Fields -> Values \cup {None}]
Places == {"idle", "test", "iso", "dist", "keepiso", "keepdist", "printiso", "printdist",
           "write", "header", "clear"}

Types ==
  /\ info \in Line /\ last \in Line
  /\ lens_sem \in Nat /\ strays \in Nat
  /\ pc \in [Tasks -> Places]
  /\ DOMAIN file = Tasks
  /\ buf \in [Tasks -> Cells]

(* The fields that a pass of mvr_update_logfile has still to note in last. *)
ToKeep(t, f) == At(t, "keepiso") \/ (At(t, "keepdist") /\ f = "dist")

(* A pass starts with nothing in its locals and writes a line that is      *)
(* complete; the forced pass of the property task has compared nothing.    *)
Buffers ==
  /\ \A t \in Tasks :
       /\ pc[t] \in {"idle", "test", "iso", "header", "clear"} => buf[t] = Unset
       /\ At(t, "dist") => buf[t]["dist"] = None
       /\ At(t, "printdist") => buf[t]["iso"] # None
       /\ At(t, "write") => \A f \in Fields : buf[t][f] # None
  /\ \A f \in Fields : ToKeep("prop", f) => buf["prop"][f] = None
  /\ line \in Cells

(* The handler of a start keeps its handle until it has written header and *)
(* line.                                                                   *)
Forced ==
  /\ pc["prop"] \notin {"iso", "dist"} /\ pc["lens"] \notin {"header", "clear"}
  /\ pc["prop"] \notin {"idle", "clear"} => mvr_logfile # None
  /\ pc["prop"] \notin {"idle", "clear", "header"} => header
  /\ At("prop", "write") => file["prop"] = mvr_logfile
  /\ At("prop", "idle") /\ mvr_logfile # None => header /\ line # Unset

(* What strays can still come.  While the handle is closed but not yet     *)
(* forgotten no setting changes, so a pass of lens_task that is bound to   *)
(* write can be followed by another only if it leaves in last what is not  *)
(* in info; a pass that has read iso before it changed is the first.  When *)
(* the handle is forgotten the pass that is under way is the last, and     *)
(* with a new log only one that holds the handle of the old.               *)
One(b)  == IF b THEN 1 ELSE 0
Bound   == pc["lens"] \in {"keepiso", "keepdist", "printiso", "printdist", "write"}
Another == \E f \in Fields : IF ToKeep("lens", f) THEN buf["lens"][f] \notin {None, info[f]}
                             ELSE last[f] # info[f]
OldRead == At("lens", "dist") /\ buf["lens"]["iso"] # info["iso"]

FewMore ==
  /\ mvr_logfile = None => strays + One(pc["lens"] \notin {"idle", "test"}) <= 3
  /\ mvr_logfile # None /\ ~At("prop", "clear") =>
       strays + One(At("lens", "write") /\ file["lens"] # mvr_logfile) <= 3
  /\ mvr_logfile # None /\ At("prop", "clear") =>
       IF OldRead THEN strays = 0 ELSE strays + One(Bound) + One(Another) <= 2

(* The line is what is noted in last, or lens_task is about to write it;   *)
(* and what is noted is the setting, or lens_task will hear of a change:   *)
(* also when it notes a value that it had read before the change.          *)
Coming  == unseen \/ lens_sem > 0
Kept(f) == mvr_logfile # None /\ pc["prop"] \notin {"clear", "header", "test"} /\ ~ToKeep("prop", f)

UpToDate ==
  /\ ~torn /\ mvr_logfile # None /\ At("prop", "idle") /\ line # last =>
       \/ pc["lens"] \in {"keepdist", "printiso", "printdist"}
       \/ At("lens", "write") /\ file["lens"] = mvr_logfile
  /\ \A f \in Fields :
       /\ (At("lens", "dist") \/ ToKeep("lens", f)) /\ buf["lens"][f] \notin {None, info[f]} => Coming
       /\ Kept(f) /\ last[f] # info[f] =>
            \/ Coming \/ pc["lens"] \in {"test", "iso"}
            \/ (At("lens", "dist") /\ f = "dist") \/ ToKeep("lens", f)

IInv == OneFile /\ Types /\ Buffers /\ Forced /\ FewMore /\ UpToDate

-----------------------------------------------------------------------------
(* The steps of mvr_update_logfile, each with all that it leaves alone. *)
Others == <<info, mvr_logfile, opened, header, lens_sem, event, unseen, shutdown_requested>>
TestStep(t)       == Test(t) /\ UNCHANGED <<last, file, line, torn, strays, Others>>
CompareStep(t, f) == Compare(t, f) /\ UNCHANGED <<last, file, line, torn, strays, Others>>
KeepStep(t, f)    == Keep(t, f) /\ UNCHANGED <<file, line, torn, strays, Others>>
FormatStep(t, f)  == Format(t, f) /\ UNCHANGED <<last, line, torn, strays, Others>>
WriteStep(t)      == Write(t) /\ UNCHANGED <<last, Others>>


LEMMA UpdateSteps ==
  ASSUME NEW t \in Tasks, mvr_update_logfile(t)
  PROVE  \/ TestStep(t) \/ WriteStep(t)
         \/ \E f \in Fields : CompareStep(t, f) \/ KeepStep(t, f) \/ FormatStep(t, f)
  BY DEF mvr_update_logfile, TestStep, CompareStep, KeepStep, FormatStep, WriteStep, Others

(* The types. *)
LEMMA UpdateTypes == ASSUME Types, NEW t \in Tasks, mvr_update_logfile(t) PROVE Types'
<1> USE DEF Types, Line, Unset, Fields, Goto, At, Cells, Places, Others
<1>1. CASE TestStep(t)  BY <1>1 DEF TestStep, Test
<1>2. ASSUME NEW f \in Fields, CompareStep(t, f) PROVE Types'
  BY <1>2 DEF Compare, CompareStep
<1>3. ASSUME NEW f \in Fields, KeepStep(t, f) PROVE Types'
  BY <1>3 DEF Keep, KeepStep
<1>4. ASSUME NEW f \in Fields, FormatStep(t, f) PROVE Types'
  BY <1>4 DEF Format, FormatStep
<1>5. CASE WriteStep(t)
  BY <1>5 DEF Write, WriteStep
<1> QED BY <1>1, <1>2, <1>3, <1>4, <1>5, UpdateSteps

LEMMA OtherTypes ==
  ASSUME Types,
         LensWake \/ Stop \/ Clear \/ AboutToStart \/ Start \/ Header \/ PROP_ISO
           \/ PROP_LV_LENS \/ Shutdown \/ UNCHANGED vars
  PROVE  Types'
<1> USE DEF Types, Line, Unset, Fields, Tasks, Goto, At, log, locals, ghosts, Cells, Places
<1>1. CASE LensWake BY <1>1 DEF LensWake
<1>2. CASE Stop BY <1>2 DEF Stop
<1>3. CASE Clear BY <1>3 DEF Clear
<1>4. CASE AboutToStart BY <1>4 DEF AboutToStart
<1>5. CASE Start BY <1>5 DEF Start
<1>6. CASE Header BY <1>6 DEF Header
<1>7. CASE PROP_ISO BY <1>7 DEF PROP_ISO
<1>8. CASE PROP_LV_LENS BY <1>8, MovieLogAssumption DEF PROP_LV_LENS, Up
<1>9. CASE Shutdown BY <1>9 DEF Shutdown
<1>10. CASE UNCHANGED vars BY <1>10 DEF vars
<1> QED BY <1>1, <1>2, <1>3, <1>4, <1>5, <1>6, <1>7, <1>8, <1>9, <1>10
(* No pass leaves a local behind that the next would take for its own. *)
LEMMA BuffersStep == ASSUME Types, Buffers, Forced, [Next]_vars PROVE Buffers'
<1> USE DEF Types, Buffers, Forced, Line, Unset, Fields, Goto, At, Cells, Places, Others, Tasks, ToKeep
<1>1. ASSUME NEW t \in Tasks, mvr_update_logfile(t) PROVE Buffers'
  <2>1. CASE TestStep(t)  BY <2>1 DEF TestStep, Test
  <2>2. ASSUME NEW f \in Fields, CompareStep(t, f) PROVE Buffers'
    BY <2>2, MovieLogAssumption DEF Compare, CompareStep
  <2>3. ASSUME NEW f \in Fields, KeepStep(t, f) PROVE Buffers'
    BY <2>3 DEF Keep, KeepStep
  <2>4. ASSUME NEW f \in Fields, FormatStep(t, f) PROVE Buffers'
    BY <2>4, MovieLogAssumption DEF Format, FormatStep
  <2>5. CASE WriteStep(t) BY <2>5 DEF Write, WriteStep
  <2> QED BY <1>1, <2>1, <2>2, <2>3, <2>4, <2>5, UpdateSteps
<1> USE DEF log, locals, ghosts
<1>2. CASE LensWake BY <1>2 DEF LensWake
<1>3. CASE Stop \/ Clear \/ AboutToStart \/ Start \/ Header
  BY <1>3 DEF Stop, Clear, AboutToStart, Start, Header
<1>4. CASE PROP_ISO \/ PROP_LV_LENS \/ Shutdown \/ UNCHANGED vars
  <2>1. UNCHANGED <<pc, buf, line>>
    BY <1>4 DEF PROP_ISO, PROP_LV_LENS, Shutdown, vars
  <2> QED BY <2>1
<1> QED BY <1>1, <1>2, <1>3, <1>4 DEF Next

(* Nothing interrupts a start: the property task itself stops a recording, *)
(* and lens_task never touches the handle.                                 *)
LEMMA ForcedStep == ASSUME Types, OneFile, Buffers, Forced, [Next]_vars PROVE Forced'
<1> USE DEF Types, Forced, OneFile, Goto, At, Others, Tasks
<1>1. ASSUME NEW t \in Tasks, mvr_update_logfile(t) PROVE Forced'
  <2>1. CASE TestStep(t)  BY <2>1 DEF TestStep, Test
  <2>2. ASSUME NEW f \in Fields, CompareStep(t, f) PROVE Forced'
    BY <2>2 DEF Compare, CompareStep, Fields
  <2>3. ASSUME NEW f \in Fields, KeepStep(t, f) PROVE Forced'
    BY <2>3 DEF Keep, KeepStep, Fields
  <2>4. ASSUME NEW f \in Fields, FormatStep(t, f) PROVE Forced'
    BY <2>4 DEF Format, FormatStep, Fields
  <2>5. CASE WriteStep(t)
    <3>1. buf[t] # Unset  BY <2>5 DEF WriteStep, Write, Buffers, Unset, Fields
    <3> QED BY <2>5, <3>1 DEF Write, WriteStep
  <2> QED BY <1>1, <2>1, <2>2, <2>3, <2>4, <2>5, UpdateSteps
<1> USE DEF log, locals, ghosts
<1>2. CASE LensWake BY <1>2 DEF LensWake
<1>3. CASE Stop \/ Clear \/ AboutToStart
  BY <1>3 DEF Stop, Clear, AboutToStart
<1>4. CASE Start BY <1>4 DEF Start
<1>5. CASE Header BY <1>5 DEF Header
<1>6. CASE PROP_ISO \/ PROP_LV_LENS \/ Shutdown \/ UNCHANGED vars
  BY <1>6 DEF PROP_ISO, PROP_LV_LENS, Shutdown, vars
<1> QED BY <1>1, <1>2, <1>3, <1>4, <1>5, <1>6 DEF Next
(* A stray is written only by a pass that was counted before it wrote. *)
LEMMA FewMoreStep == ASSUME Types, OneFile, Buffers, Forced, FewMore, [Next]_vars PROVE FewMore'
<1> USE DEF Types, FewMore, Forced, OneFile, Goto, At, Others, Tasks, One, Fields, Bound,
            Another, OldRead, ToKeep, Line
<1>1. ASSUME mvr_update_logfile("prop") PROVE FewMore'
  <2>1. CASE TestStep("prop")  BY <2>1 DEF TestStep, Test
  <2>2. ASSUME NEW f \in Fields, CompareStep("prop", f) PROVE FewMore'
    BY <2>2 DEF Compare, CompareStep
  <2>3. ASSUME NEW f \in Fields, KeepStep("prop", f) PROVE FewMore'
    BY <2>3 DEF Keep, KeepStep
  <2>4. ASSUME NEW f \in Fields, FormatStep("prop", f) PROVE FewMore'
    BY <2>4 DEF Format, FormatStep
  <2>5. CASE WriteStep("prop")
    BY <2>5 DEF Write, WriteStep
  <2> QED BY <1>1, <2>1, <2>2, <2>3, <2>4, <2>5, UpdateSteps
<1>2. ASSUME mvr_update_logfile("lens") PROVE FewMore'
  <2>1. CASE TestStep("lens")  BY <2>1 DEF TestStep, Test
  <2>2. ASSUME NEW f \in Fields, CompareStep("lens", f) PROVE FewMore'
    BY <2>2 DEF Compare, CompareStep, Buffers, Unset, Cells
  <2>3. ASSUME NEW f \in Fields, KeepStep("lens", f) PROVE FewMore'
    BY <2>3 DEF Keep, KeepStep, Cells
  <2>4. ASSUME NEW f \in Fields, FormatStep("lens", f) PROVE FewMore'
    BY <2>4 DEF Format, FormatStep
  <2>5. CASE WriteStep("lens")
    BY <2>5 DEF Write, WriteStep
  <2> QED BY <1>2, <2>1, <2>2, <2>3, <2>4, <2>5, UpdateSteps
<1> USE DEF log, locals, ghosts
<1>3. CASE LensWake BY <1>3 DEF LensWake
<1>4. CASE Stop BY <1>4 DEF Stop
<1>5. CASE Clear BY <1>5 DEF Clear
<1>6. CASE AboutToStart BY <1>6 DEF AboutToStart
<1>7. CASE Start BY <1>7, MovieLogAssumption DEF Start
<1>8. CASE Header BY <1>8 DEF Header
<1>9. CASE PROP_ISO BY <1>9 DEF PROP_ISO
<1>10. CASE PROP_LV_LENS BY <1>10 DEF PROP_LV_LENS
<1>11. CASE Shutdown \/ UNCHANGED vars  BY <1>11 DEF Shutdown, vars
<1> QED BY <1>1, <1>2, <1>3, <1>4, <1>5, <1>6, <1>7, <1>8, <1>9, <1>10, <1>11 DEF Next

(* A change that nobody has noted yet is announced, by an event to come or *)
(* by the semaphore, until lens_task looks at it.                          *)
LEMMA UpToDateStep == ASSUME Types, OneFile, Buffers, Forced, UpToDate, [Next]_vars PROVE UpToDate'
<1> USE DEF Types, UpToDate, Forced, OneFile, Goto, At, Others, Tasks, Coming, Kept, Fields, ToKeep, Line
<1>1. ASSUME mvr_update_logfile("prop") PROVE UpToDate'
  <2>1. CASE TestStep("prop")  BY <2>1 DEF TestStep, Test
  <2>2. ASSUME NEW f \in Fields, CompareStep("prop", f) PROVE UpToDate'
    BY <2>2 DEF Compare, CompareStep
  <2>3. ASSUME NEW f \in Fields, KeepStep("prop", f) PROVE UpToDate'
    BY <2>3 DEF Keep, KeepStep, Buffers
  <2>4. ASSUME NEW f \in Fields, FormatStep("prop", f) PROVE UpToDate'
    BY <2>4 DEF Format, FormatStep
  <2>5. CASE WriteStep("prop")
    BY <2>5 DEF Write, WriteStep
  <2> QED BY <1>1, <2>1, <2>2, <2>3, <2>4, <2>5, UpdateSteps
<1>2. ASSUME mvr_update_logfile("lens") PROVE UpToDate'
  <2>1. CASE TestStep("lens")  BY <2>1 DEF TestStep, Test
  <2>2. ASSUME NEW f \in Fields, CompareStep("lens", f) PROVE UpToDate'
    BY <2>2 DEF Compare, CompareStep, Buffers, Unset, Cells
  <2>3. ASSUME NEW f \in Fields, KeepStep("lens", f) PROVE UpToDate'
    BY <2>3 DEF Keep, KeepStep, Cells
  <2>4. ASSUME NEW f \in Fields, FormatStep("lens", f) PROVE UpToDate'
    BY <2>4 DEF Format, FormatStep
  <2>5. CASE WriteStep("lens")
    BY <2>5 DEF Write, WriteStep
  <2> QED BY <1>2, <2>1, <2>2, <2>3, <2>4, <2>5, UpdateSteps
<1> USE DEF log, locals, ghosts
<1>3. CASE LensWake BY <1>3 DEF LensWake
<1>4. CASE Stop BY <1>4 DEF Stop
<1>5. CASE Clear BY <1>5 DEF Clear
<1>6. CASE AboutToStart BY <1>6 DEF AboutToStart
<1>7. CASE Start BY <1>7, MovieLogAssumption DEF Start
<1>8. CASE Header BY <1>8 DEF Header
<1>9. CASE PROP_ISO BY <1>9 DEF PROP_ISO
<1>10. CASE PROP_LV_LENS BY <1>10, MovieLogAssumption DEF PROP_LV_LENS, Up
<1>11. CASE Shutdown \/ UNCHANGED vars  BY <1>11 DEF Shutdown, vars
<1> QED BY <1>1, <1>2, <1>3, <1>4, <1>5, <1>6, <1>7, <1>8, <1>9, <1>10, <1>11 DEF Next

(* Of every recording the log has a header and a line when the start has   *)
(* been handled, is followed by at most three writes to a closed file, and *)
(* when all is quiet ends with the settings as they are, unless a line was *)
(* torn: with two tasks in mvr_update_logfile and no lock.                 *)
THEOREM LogIsKept == Spec => []LogKept
<1>1. Init => IInv
  <2> SUFFICES ASSUME Init PROVE IInv  OBVIOUS
  <2> USE DEF Init, At, Tasks, Fields, IInv
  <2>1. OneFile BY InitClosed
  <2>2. Types BY DEF Types, Line, Unset, Cells, Places
  <2>3. Buffers BY DEF Buffers, Unset, ToKeep, Cells
  <2>4. Forced BY DEF Forced
  <2>5. FewMore BY DEF FewMore, One
  <2>6. UpToDate BY DEF UpToDate, Kept, Coming
  <2> QED BY <2>1, <2>2, <2>3, <2>4, <2>5, <2>6
<1>2. IInv /\ [Next]_vars => IInv'
  <2> SUFFICES ASSUME IInv, [Next]_vars PROVE IInv'  OBVIOUS
  <2> USE DEF IInv
  <2>1. OneFile' BY UpdateStep, RecordingStep, OtherStep DEF Next
  <2>2. Types' BY UpdateTypes, OtherTypes DEF Next
  <2> QED BY <2>1, <2>2, BuffersStep, ForcedStep, FewMoreStep, UpToDateStep
<1>3. IInv => LogKept
  <2> SUFFICES ASSUME IInv PROVE LogKept  OBVIOUS
  <2> USE DEF IInv
  <2>1. InitialLine BY DEF InitialLine, Forced
  <2>2. FewStrays BY DEF FewStrays, FewMore, Types, One, OldRead
  <2>3. LogCurrent
    <3> SUFFICES ASSUME ~torn, Recorded, lens_sem = 0, ~unseen PROVE line = info
      BY DEF LogCurrent, Current
    <3> USE DEF UpToDate, Recorded, AtRest, At, Tasks, ToKeep, Kept, Coming, Fields, Line, Types
    <3>1. line = last  OBVIOUS
    <3>2. last = info  OBVIOUS
    <3> QED BY <3>1, <3>2
  <2> QED BY <2>1, <2>2, <2>3 DEF LogKept
<1> QED BY <1>1, <1>2, <1>3, PTL DEF Spec
=============================================================================
