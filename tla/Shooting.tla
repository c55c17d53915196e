------------------------------ MODULE Shooting ------------------------------
(***************************************************************************)
(* Taking pictures: lens_take_picture of lens.c with its two callers, the  *)
(* bracketing task of bracket.c and the focus stacking task, the job state *)
(* that the camera reports, and the exposure that the bracket sets.        *)
(***************************************************************************)
EXTENDS Integers, FiniteSets

CONSTANTS
  Shooters,   (* the tasks that take pictures: "bracket" and "stack"       *)
  JobMax,     (* 1 if create_named_semaphore makes binary semaphores       *)
  MaxCount,   (* largest ae_count: 13                                      *)
  MaxStep,    (* largest ae_step: 8                                        *)
  StartAEs,   (* the exposure compensation the user may have set           *)
  Pending,    (* how many releases the camera keeps before it begins a job *)
  Refuses     (* may the camera ignore a release (no focus, card full)     *)

ASSUME ShootingAssumption ==
  /\ Shooters \subseteq {"bracket", "stack"}
  /\ JobMax \in Nat \ {0}
  /\ MaxCount \in Nat /\ MaxCount >= 5 /\ MaxCount % 2 = 1
  /\ MaxStep \in Nat /\ MaxStep >= 3
  /\ StartAEs \subseteq Int
  /\ Pending \in Nat \ {0}
  /\ Refuses \in BOOLEAN

VARIABLES
  job_sem, bracket_sem,
  job_state,          (* lens_info.job_state                               *)
  releases,           (* releases called for and not yet reported as a job *)
  place,              (* pc: where each shooter is                         *)
  ae_count, ae_step,  (* the menu's settings                               *)
  bracket_i,          (* i, a local of bracket_task                        *)
  cam_ae,             (* PROP_AE                                           *)
  used,               (* the exposures this bracket has set, as long as    *)
  touched,            (* its settings have not been changed                *)
  overtaken           (* a shooter went on without job_sem although        *)
                      (* another was about to take or had asked for one    *)

camera   == <<job_state, releases>>
settings == <<ae_count, ae_step, touched>>
bracket  == <<bracket_sem, bracket_i, cam_ae, used>>
shvars   == <<job_sem, bracket_sem, job_state, releases, place, ae_count, ae_step,
              bracket_i, cam_ae, used, touched, overtaken>>

Done == 10   (* 0xA: the last job is done *)
Busy == 11   (* any greater job state     *)

ShootInit ==
  /\ job_sem = 1 /\ bracket_sem = 0
  /\ job_state = 0 /\ releases = 0
  /\ place = [t \in Shooters |-> "idle"]
  /\ ae_count = 5 /\ ae_step = 3
  /\ bracket_i = 0 /\ cam_ae \in StartAEs
  /\ used = {} /\ touched = FALSE
  /\ overtaken = FALSE

Proceed(t, l) == place' = [place EXCEPT ![t] = l]
Raised(n)     == IF n < JobMax THEN n + 1 ELSE n
Fewer(m, n)   == IF m < n THEN m ELSE n

-----------------------------------------------------------------------------
(* lens_take_picture, entered at "first" and left for "taken" *)

FirstTake(t) ==
  /\ place[t] = "first" /\ job_sem > 0
  /\ job_sem' = job_sem - 1
  /\ Proceed(t, "release")
  /\ UNCHANGED <<camera, settings, bracket, overtaken>>

(* No shooter is between its take of job_sem and the release or the give,  *)
(* and the camera has begun a job for each release.                        *)
Quiet == releases = 0 /\ \A t \in Shooters : place[t] \notin {"release", "give"}

(* Faulty: the old job state is not looked at.                             *)
FirstTimeoutBlind(t) ==
  /\ place[t] = "first" /\ job_sem = 0
  /\ Proceed(t, "release")
  /\ overtaken' = (overtaken \/ ~Quiet)
  /\ UNCHANGED <<job_sem, camera, settings, bracket>>

(* After a second: give up if a job is under way, else release all the     *)
(* same.  The other shooter may be about to do so, too, and the camera may *)
(* take longer than a second to begin the job it was asked for.            *)
FirstTimeout(t) ==
  /\ place[t] = "first" /\ job_sem = 0
  /\ IF job_state > Done
     THEN Proceed(t, "taken") /\ UNCHANGED overtaken
     ELSE Proceed(t, "release") /\ overtaken' = (overtaken \/ ~Quiet)
  /\ UNCHANGED <<job_sem, camera, settings, bracket>>

(* The camera may refuse, and does not keep more than Pending releases.    *)
Release(t) ==
  /\ place[t] = "release"
  /\ \E r \in {1} \cup (IF Refuses THEN {0} ELSE {}) : releases' = Fewer(releases + r, Pending)
  /\ Proceed(t, "second")
  /\ UNCHANGED <<job_sem, job_state, settings, bracket, overtaken>>

SecondTake(t) ==
  /\ place[t] = "second" /\ job_sem > 0
  /\ job_sem' = job_sem - 1
  /\ Proceed(t, "give")
  /\ UNCHANGED <<camera, settings, bracket, overtaken>>

SecondTimeout(t) ==
  /\ place[t] = "second" /\ job_sem = 0
  /\ Proceed(t, "taken")
  /\ UNCHANGED <<job_sem, camera, settings, bracket, overtaken>>

SecondGive(t) ==
  /\ place[t] = "give"
  /\ job_sem' = Raised(job_sem)
  /\ Proceed(t, "taken")
  /\ UNCHANGED <<camera, settings, bracket, overtaken>>

lens_take_picture(t) ==
  \/ FirstTake(t) \/ FirstTimeout(t) \/ Release(t)
  \/ SecondTake(t) \/ SecondTimeout(t) \/ SecondGive(t)

(* PROP_LAST_JOB_STATE: a job begins, and ends. *)
JobBegins ==
  /\ releases > 0 /\ job_state <= Done
  /\ releases' = releases - 1 /\ job_state' = Busy
  /\ UNCHANGED <<job_sem, place, settings, bracket, overtaken>>

JobEnds ==
  /\ job_state > Done
  /\ job_state' = Done
  /\ job_sem' = Raised(job_sem)
  /\ UNCHANGED <<releases, place, settings, bracket, overtaken>>

-----------------------------------------------------------------------------
(* bracket_task *)

(* Faulty: rounds down.                                                    *)
HalfDown(n) == n \div 2

(* Integer division in C rounds towards zero. *)
Half(n) == IF n < 0 THEN -((-n) \div 2) ELSE n \div 2

(* bracket_start: the menu entry "Test bracket". *)
bracket_start ==
  /\ "bracket" \in Shooters
  /\ bracket_sem' = Raised(bracket_sem)
  /\ UNCHANGED <<job_sem, camera, place, settings, bracket_i, cam_ae, used, overtaken>>

(* lens_get_ae returns 0. *)
lens_get_ae == 0

BracketWake ==
  /\ place["bracket"] = "idle" /\ bracket_sem > 0
  /\ bracket_sem' = bracket_sem - 1
  /\ bracket_i' = Half(-ae_count)
  /\ used' = {} /\ touched' = FALSE
  /\ Proceed("bracket", "loop")
  /\ UNCHANGED <<job_sem, camera, ae_count, ae_step, cam_ae, overtaken>>

BracketShot ==
  /\ place["bracket"] = "loop" /\ bracket_i <= Half(ae_count)
  /\ cam_ae' = lens_get_ae + ae_step * bracket_i
  /\ used' = IF touched THEN {} ELSE used \cup {cam_ae'}
  /\ Proceed("bracket", "first")
  /\ UNCHANGED <<job_sem, camera, settings, bracket_sem, bracket_i, overtaken>>

(* Faulty: a picture that was not taken is tried again.                    *)
BracketNextRetry ==
  /\ place["bracket"] = "taken"
  /\ bracket_i' = IF job_sem = 0 THEN bracket_i ELSE bracket_i + 1
  /\ Proceed("bracket", "loop")
  /\ UNCHANGED <<job_sem, camera, settings, bracket_sem, cam_ae, used, overtaken>>

(* The result of lens_take_picture is not looked at. *)
BracketNext ==
  /\ place["bracket"] = "taken"
  /\ bracket_i' = bracket_i + 1
  /\ Proceed("bracket", "loop")
  /\ UNCHANGED <<job_sem, camera, settings, bracket_sem, cam_ae, used, overtaken>>

BracketEnd ==
  /\ place["bracket"] = "loop" /\ bracket_i > Half(ae_count)
  /\ cam_ae' = lens_get_ae
  /\ bracket_i' = 0
  /\ Proceed("bracket", "idle")
  /\ UNCHANGED <<job_sem, camera, settings, bracket_sem, used, overtaken>>

Bracket ==
  "bracket" \in Shooters /\
    (\/ BracketWake \/ BracketShot \/ BracketNext \/ BracketEnd
     \/ lens_take_picture("bracket"))

(* The menu: while a bracket runs, too. *)
ae_adjust_count ==
  /\ ae_count' = IF ae_count + 2 > MaxCount THEN 3 ELSE ae_count + 2
  /\ touched' = TRUE /\ used' = {}
  /\ UNCHANGED <<job_sem, camera, place, ae_step, bracket_sem, bracket_i, cam_ae, overtaken>>

ae_adjust_step ==
  /\ ae_step' = IF ae_step + 1 > MaxStep THEN 1 ELSE ae_step + 1
  /\ touched' = TRUE /\ used' = {}
  /\ UNCHANGED <<job_sem, camera, place, ae_count, bracket_sem, bracket_i, cam_ae, overtaken>>

(* focus_stack: one picture after another, as Focus has it. *)
StackShot ==
  /\ place["stack"] \in {"idle", "taken"}
  /\ Proceed("stack", IF place["stack"] = "idle" THEN "first" ELSE "idle")
  /\ UNCHANGED <<job_sem, camera, settings, bracket, overtaken>>

StackShoots == "stack" \in Shooters /\ (StackShot \/ lens_take_picture("stack"))

-----------------------------------------------------------------------------
ShootNext ==
  \/ Bracket \/ StackShoots \/ JobBegins \/ JobEnds
  \/ bracket_start \/ ae_adjust_count \/ ae_adjust_step

ShootSpec == ShootInit /\ [][ShootNext]_shvars

(* The tasks are scheduled, each timed wait of the bracketing task ends,   *)
(* though the stacking task may take job_sem time and again, and a job that*)
(* is not refused begins; nothing is assumed of its end.                   *)
FairShoot == ShootSpec /\ SF_shvars(Bracket) /\ WF_shvars(StackShoots) /\ WF_shvars(JobBegins)

-----------------------------------------------------------------------------
(* Properties *)

ShootTypeOK ==
  /\ job_sem \in 0..JobMax /\ bracket_sem \in 0..JobMax
  /\ job_state \in {0, Done, Busy} /\ releases \in 0..Pending
  /\ place \in [Shooters -> {"idle", "loop", "first", "release", "second", "give", "taken"}]
  /\ ae_count \in {n \in 3..MaxCount : n % 2 = 1} /\ ae_step \in 1..MaxStep
  /\ bracket_i \in -MaxCount..MaxCount
  /\ cam_ae \in Int /\ used \subseteq Int /\ {touched, overtaken} \subseteq BOOLEAN

(* The two tasks never have the shutter released while a picture is asked  *)
(* for or being taken, although each goes on without job_sem when its      *)
(* waits time out: until it does so while the other is about to release,   *)
(* or the camera has yet to begin a job.  A refused release, a lost token, *)
(* a second wait that times out and a job that never ends are no excuse.   *)
OneRelease == ~overtaken => releases + (IF job_state = Busy THEN 1 ELSE 0) <= 1

(* A bracket during which nobody changes its settings sets as many         *)
(* exposures as ae_count says, symmetric about what lens_get_ae returned,  *)
(* and goes back to that, however many of the pictures time out.           *)
(* (bracket.c calls that "the current value for a starting point"; it is 0 *)
(* whatever the camera has, "currently broken" in lens.h.)                 *)
BracketSymmetric ==
  "bracket" \in Shooters /\ used # {} /\ place["bracket"] = "idle" /\ ~touched =>
    /\ Cardinality(used) = ae_count
    /\ cam_ae = lens_get_ae
    /\ \A x \in used : 2 * lens_get_ae - x \in used

(* A bracket ends even if the camera refuses releases or a job never ends: *)
(* every wait in lens_take_picture is limited, and what it returns is not  *)
(* a reason to try again.                                                  *)
BracketEnds == place["bracket"] # "idle" ~> place["bracket"] = "idle"

=============================================================================
