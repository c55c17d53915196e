------------------------------ MODULE MovieLog ------------------------------
(***************************************************************************)
(* The movie log of lens.c.  The property task opens and closes it when a  *)
(* recording starts and stops and writes its header and a first line;      *)
(* lens_task adds a line when the lens settings have changed.  Both run    *)
(* mvr_update_logfile, with its static last_* variables, and no lock.      *)
(***************************************************************************)
EXTENDS Naturals, FiniteSets

CONSTANTS
  Values,    (* what a setting may be                                      *)
  Handles,   (* the handles FIO_CreateFile may return                      *)
  None,      (* INVALID_PTR, no line, a local that is not set              *)
  SemMax     (* 1 if create_named_semaphore makes binary semaphores        *)

ASSUME MovieLogAssumption ==
  /\ None \notin Values \cup Handles
  /\ SemMax \in Nat \ {0}

VARIABLES
  info,         (* lens_info                                               *)
  last,         (* last_iso, ..., last_focus_dist                          *)
  mvr_logfile,
  opened,       (* the handles that are open                               *)
  header,       (* the open log has its header                             *)
  line,         (* its last line                                           *)
  lens_sem,
  pc, file, buf, (* of each task: its place, fprintf's handle and line     *)
  event,        (* the last PROP_MVR_REC_START                             *)
  unseen,       (* a setting changed since the last PROP_LV_LENS           *)
  torn,         (* a line of this log is not what was noted in last        *)
  strays,       (* writes to a handle that is not open, since the last stop*)
  shutdown_requested

log    == <<opened, header, line, strays>>
locals == <<file, buf>>
ghosts == <<unseen, torn>>
vars   == <<info, last, mvr_logfile, opened, header, line, lens_sem, pc, file,
            buf, event, unseen, torn, strays, shutdown_requested>>

(* "iso" stands for the settings whose handlers only store them (aperture, *)
(* shutter, ISO), "dist" for those of PROP_LV_LENS, which wakes lens_task. *)
Fields == {"iso", "dist"}
Line   == [Fields -> Values]
Unset  == [f \in Fields |-> None]
Tasks  == {"lens", "prop"}

Init ==
  /\ info \in Line /\ last = info
  /\ mvr_logfile = None /\ opened = {} /\ header = FALSE /\ line = Unset
  /\ lens_sem = 1
  /\ pc = [t \in Tasks |-> "idle"]
  /\ file = [t \in Tasks |-> None] /\ buf = [t \in Tasks |-> Unset]
  /\ event = 0 /\ unseen = FALSE /\ torn = FALSE /\ strays = 0
  /\ shutdown_requested = FALSE

Goto(t, l) == pc' = [pc EXCEPT ![t] = l]
At(t, l)   == pc[t] = l
Up(n)      == IF n < SemMax THEN n + 1 ELSE n

-----------------------------------------------------------------------------
(* mvr_update_logfile, entered at "test"; prop forces the line *)

Test(t) ==
  /\ At(t, "test")
  /\ Goto(t, IF mvr_logfile = None THEN "idle" ELSE IF t = "prop" THEN "keepiso" ELSE "iso")
  /\ UNCHANGED buf

(* Faulty: only the last setting decides.                                  *)
CompareDist(t, f) ==
  /\ At(t, f)
  /\ buf' = [buf EXCEPT ![t] = IF f = "dist" /\ last[f] = info[f] THEN Unset
                               ELSE [@ EXCEPT ![f] = info[f]]]
  /\ Goto(t, IF f = "iso" THEN "dist" ELSE IF last[f] # info[f] THEN "keepiso" ELSE "idle")

(* The first difference decides; the value read may stay in a register. *)
Compare(t, f) ==
  /\ At(t, f)
  /\ buf' = [buf EXCEPT ![t] = IF f = "dist" /\ last[f] = info[f] THEN Unset
                               ELSE [@ EXCEPT ![f] = info[f]]]
  /\ Goto(t, IF last[f] # info[f] THEN "keepiso" ELSE IF f = "iso" THEN "dist" ELSE "idle")

(* A data race: the setting is read again, or the compared value is used. *)
Keep(t, f) ==
  /\ At(t, IF f = "iso" THEN "keepiso" ELSE "keepdist")
  /\ \E v \in {info[f], buf[t][f]} \ {None} : last' = [last EXCEPT ![f] = v]
  /\ buf' = [buf EXCEPT ![t][f] = None]
  /\ Goto(t, IF f = "iso" THEN "keepdist" ELSE "printiso")

(* The arguments of fprintf: the handle and the settings, read once more. *)
Format(t, f) ==
  /\ At(t, IF f = "iso" THEN "printiso" ELSE "printdist")
  /\ file' = [file EXCEPT ![t] = mvr_logfile]
  /\ buf' = [buf EXCEPT ![t][f] = info[f]]
  /\ Goto(t, IF f = "iso" THEN "printdist" ELSE "write")

Write(t) ==
  /\ At(t, "write")
  /\ IF file[t] \in opened
     THEN /\ line' = buf[t] /\ torn' = (torn \/ buf[t] # last)
          /\ UNCHANGED strays
     ELSE /\ strays' = strays + 1 /\ UNCHANGED <<line, torn>>
  /\ file' = [file EXCEPT ![t] = None] /\ buf' = [buf EXCEPT ![t] = Unset]
  /\ Goto(t, "idle")

mvr_update_logfile(t) ==
  /\ \/ (Test(t) \/ (\E f \in Fields : Compare(t, f)))
        /\ UNCHANGED <<last, file, line, torn, strays>>
     \/ (\E f \in Fields : Keep(t, f)) /\ UNCHANGED <<file, line, torn, strays>>
     \/ (\E f \in Fields : Format(t, f)) /\ UNCHANGED <<last, line, torn, strays>>
     \/ Write(t) /\ UNCHANGED last
  /\ UNCHANGED <<info, mvr_logfile, opened, header, lens_sem, event, unseen, shutdown_requested>>

-----------------------------------------------------------------------------
(* lens_task; PROP_MVR_REC_START: mvr_create_logfile; the other handlers   *)

LensWake ==
  /\ At("lens", "idle") /\ ~shutdown_requested /\ lens_sem > 0
  /\ lens_sem' = lens_sem - 1 /\ Goto("lens", "test")
  /\ UNCHANGED <<info, last, mvr_logfile, log, locals, event, ghosts, shutdown_requested>>

(* Faulty: the log is forgotten before it is closed.                       *)
StopClear ==
  /\ At("prop", "idle") /\ event' = 0
  /\ mvr_logfile' = None /\ Goto("prop", "clear")
  /\ UNCHANGED <<info, last, log, lens_sem, locals, ghosts, shutdown_requested>>

Stop ==
  /\ At("prop", "idle") /\ event' = 0
  /\ opened' = opened \ {mvr_logfile}
  /\ strays' = IF mvr_logfile = None THEN strays ELSE 0
  /\ Goto("prop", "clear")
  /\ UNCHANGED <<info, last, mvr_logfile, header, line, lens_sem, locals, ghosts, shutdown_requested>>

Clear ==
  /\ At("prop", "clear")
  /\ mvr_logfile' = None /\ Goto("prop", "idle")
  /\ UNCHANGED <<info, last, log, lens_sem, locals, event, ghosts, shutdown_requested>>

AboutToStart ==
  /\ At("prop", "idle") /\ event = 0 /\ event' = 1
  /\ UNCHANGED <<info, last, mvr_logfile, log, lens_sem, pc, locals, ghosts, shutdown_requested>>

(* FIO_CreateFile returns a free handle, or fails. *)
Start ==
  /\ At("prop", "idle") /\ event = 1 /\ event' = 2
  /\ \E h \in (Handles \ opened) \cup {None} :
       /\ mvr_logfile' = h /\ opened' = (opened \cup {h}) \ {None}
       /\ Goto("prop", IF h = None THEN "idle" ELSE "header")
  /\ header' = FALSE /\ line' = Unset /\ torn' = FALSE
  /\ UNCHANGED <<info, last, lens_sem, locals, strays, unseen, shutdown_requested>>

Header ==
  /\ At("prop", "header")
  /\ header' = TRUE /\ Goto("prop", "test")
  /\ UNCHANGED <<info, last, mvr_logfile, opened, line, strays, lens_sem, locals, event, ghosts, shutdown_requested>>

PROP_ISO ==
  /\ At("prop", "idle")
  /\ \E v \in Values \ {info["iso"]} : info' = [info EXCEPT !["iso"] = v]
  /\ unseen' = TRUE
  /\ UNCHANGED <<last, mvr_logfile, log, lens_sem, pc, locals, event, torn, shutdown_requested>>

PROP_LV_LENS ==
  /\ At("prop", "idle")
  /\ \E v \in Values : info' = [info EXCEPT !["dist"] = v]
  /\ lens_sem' = Up(lens_sem) /\ unseen' = FALSE
  /\ UNCHANGED <<last, mvr_logfile, log, pc, locals, event, torn, shutdown_requested>>

Shutdown ==
  /\ ~shutdown_requested /\ shutdown_requested' = TRUE
  /\ UNCHANGED <<info, last, mvr_logfile, log, lens_sem, pc, locals, event, ghosts>>

-----------------------------------------------------------------------------
Next ==
  \/ LensWake \/ (\E t \in Tasks : mvr_update_logfile(t))
  \/ Stop \/ Clear \/ AboutToStart \/ Start \/ Header
  \/ PROP_ISO \/ PROP_LV_LENS \/ Shutdown

Spec == Init /\ [][Next]_vars

-----------------------------------------------------------------------------
(* Properties *)

TypeOK ==
  /\ {info, last} \subseteq Line
  /\ mvr_logfile \in Handles \cup {None} /\ opened \subseteq Handles
  /\ {header, unseen, torn, shutdown_requested} \subseteq BOOLEAN
  /\ line \in Line \cup {Unset}
  /\ lens_sem \in 0..SemMax /\ strays \in Nat /\ event \in 0..2
  /\ pc \in [Tasks -> {"idle", "test", "iso", "dist", "keepiso", "keepdist",
                       "printiso", "printdist", "write", "header", "clear"}]
  /\ file \in [Tasks -> Handles \cup {None}]
  /\ buf \in [Tasks -> [Fields -> Values \cup {None}]]

AtRest   == \A t \in Tasks : At(t, "idle")
Recorded == mvr_logfile # None /\ AtRest

(* Whatever was started, stopped and refused, no file stays open but the   *)
(* one that the next stop will close.                                      *)
NoHandleLost == At("prop", "idle") => opened = {mvr_logfile} \ {None}

(* "Force the initial values to be written": once the start of a recording *)
(* has been handled its log has a header and a line.                       *)
InitialLine == At("prop", "idle") /\ mvr_logfile # None => header /\ line # Unset

(* After a stop lens_task writes at most three more lines to a file that   *)
(* is closed, or to no file, however often it was woken: the line it was   *)
(* at, one when it finds the handle closed but not yet forgotten, and the  *)
(* one of a pass that tested the handle just before it was forgotten.      *)
FewStrays == strays <= 3

(* When the tasks have nothing left to do and the lens has reported since  *)
(* the last change, the log ends with the settings as they are, unless a   *)
(* line was printed that is not what last_* says.                          *)
Current == Recorded /\ (lens_sem = 0 /\ ~shutdown_requested /\ ~unseen) => line = info
LogCurrent == torn \/ Current

(* A recording leaves a log that is worth keeping: begun with a line, ended*)
(* with the settings, and followed by few writes to a closed file.         *)
LogKept == InitialLine /\ FewStrays /\ LogCurrent

(* "Record the last settings so that we know if anything changes": the log *)
(* is always brought up to date, whatever was printed.                     *)
ChangesKnown == Current
=============================================================================
